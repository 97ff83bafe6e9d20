---------------------------- MODULE LamVMProofs -----------------------------
(***************************************************************************)
(* What holds of the machine for every set of well-formed programs, every  *)
(* set of atoms and every tick limit.                                      *)
(*                                                                         *)
(* First, the machine uses its store as TrailStore says: every step is one *)
(* call of the store or leaves it alone, so that what TrailStoreProofs     *)
(* proves of the store is true of the store inside the machine.  Then the  *)
(* inductive invariant, which is TypeOK, FramesExist and the invariant of  *)
(* the store together: that a frame that is read has its type needs that   *)
(* it exists, and that a restored heap is a heap needs that the marks are  *)
(* nested.                                                                 *)
(***************************************************************************)
EXTENDS LamVM, SequenceTheorems, TLAPS

(* The theorems about the store, for the marks of the choice points.       *)
SP == INSTANCE TrailStoreProofs WITH choice <- Marks

-----------------------------------------------------------------------------
(* What an instruction that is dispatched finds in its words.              *)

(* The running program is one of the well-formed ones.                     *)
LEMMA CodeWellFormed == ASSUME TypeOK PROVE WellFormed(code)
  BY CodeAssumption DEF TypeOK

(***************************************************************************)
(* An instruction that step dispatches has numbers for operands, an        *)
(* immediate of the kind it reads, registers that exist and a tick left.   *)
(***************************************************************************)
LEMMA Operands ==
  ASSUME TypeOK, NEW op \in Opcodes, At(op)
  PROVE  /\ Op = op /\ Running
         /\ Word \in Mnemonic \X Nat \X Nat
         /\ op \in TwoCell => Imm \in ImmKind(op)
         /\ op \in Op1IsReg => Word[2] \in Reg
         /\ op \in Op2IsReg => Word[3] \in Reg
<1>1. WellFormed(code)
  BY CodeWellFormed
<1>2. /\ Op = op /\ Running
      /\ pc \in 1 .. Len(code)
      /\ op \in TwoCell => pc < Len(code)
      /\ op \in Op1IsReg => Word[2] \in Reg
      /\ op \in Op2IsReg => Word[3] \in Reg
  BY DEF At, Fetched, HasImm, RegsExist
<1>3. Word \in CodeWord
  BY <1>1, <1>2, ElementOfSeq DEF WellFormed, Word
<1>4. Word \in Mnemonic \X Nat \X Nat
  BY <1>3, <1>2 DEF CodeWord, Cell, Address, Op, Opcodes, TwoCell, OneCell
<1>5. op \in TwoCell => Imm \in ImmKind(op)
  BY <1>1, <1>2 DEF WellFormed, Word, Op, Imm
<1> QED
  BY <1>2, <1>4, <1>5

(* A constant in the code is a cell that refers to nothing.                *)
LEMMA ConstantOperand ==
  ASSUME TypeOK, NEW op \in {"PUT_CONST", "GET_CONST", "UNIFY_CONST"}, At(op)
  PROVE  Imm \in Constant /\ Imm \in Cell
<1>1. op \in Opcodes \cap TwoCell
  BY DEF Opcodes, TwoCell
<1>2. Imm \in Constant
  BY <1>1, Operands DEF ImmKind
<1> QED
  BY <1>2 DEF Constant, Cell

(* The newest choice point, when there is one.                             *)
LEMMA TopType ==
  ASSUME TypeOK, choice # <<>>
  PROVE  Len(choice) \in 1 .. Len(choice) /\ Top \in ChoicePt
<1>1. Len(choice) \in Nat /\ Len(choice) # 0
  BY LenProperties, EmptySeq DEF TypeOK
<1>2. Len(choice) \in 1 .. Len(choice)
  BY <1>1
<1> QED
  BY <1>2, ElementOfSeq DEF TypeOK, Top

-----------------------------------------------------------------------------
(* The types and the store: what every step below starts from.             *)
SInv == TypeOK /\ SP!IInv

(* Operators of the two instances of the cell module are the same.         *)
LEMMA SameCells ==
  /\ Cell = SP!Cell
  /\ \A a : Ref(a) = SP!Ref(a) /\ Str(a) = SP!Str(a)
  /\ \A f, n : Fun(f, n) = SP!Fun(f, n)
  /\ \A h, c : IsUnbound(h, c) <=> SP!IsUnbound(h, c)
<1>1. IntMin = SP!IntMin /\ IntMax = SP!IntMax
  BY SMT DEF IntMin, SP!IntMin, IntMax, SP!IntMax
<1>2. Cell = SP!Cell
  BY <1>1 DEF Cell, SP!Cell, Arities, SP!Arities
<1>3. \A h, c : IsUnbound(h, c) <=> SP!IsUnbound(h, c)
  BY DEF IsUnbound, SP!IsUnbound, Tag, SP!Tag, Val, SP!Val
<1> QED
  BY <1>2, <1>3 DEF Ref, SP!Ref, Str, SP!Str, Fun, SP!Fun

(* A step that only pushes a cell.                                         *)
LEMMA PushStep ==
  ASSUME NEW c \in Cell, heap' = Append(heap, c), UNCHANGED <<trail, choice>>
  PROVE  SP!Next
<1>1. UNCHANGED Marks
  BY DEF Marks
<1>2. c \in SP!Cell
  BY SameCells
<1> QED
  BY <1>1, <1>2 DEF SP!Next, SP!Push

(* A step that does not touch the store.                                   *)
LEMMA StoreAlone ==
  ASSUME UNCHANGED <<store, choice>>
  PROVE  UNCHANGED SP!vars
  BY DEF SP!vars, Marks, store

(* The marks are those of the choice points, one by one.                   *)
LEMMA MarksFacts ==
  ASSUME TypeOK
  PROVE  /\ Len(choice) \in Nat
         /\ Marks \in Seq(SP!Mark) /\ Len(Marks) = Len(choice)
         /\ \A i \in 1 .. Len(choice) :
              Marks[i] = [hp |-> choice[i].hp, tr |-> choice[i].tr]
<1>1. Len(choice) \in Nat
  BY LenProperties DEF TypeOK
<1>2. \A i \in 1 .. Len(choice) : choice[i] \in ChoicePt
  BY ElementOfSeq DEF TypeOK
<1>3. Marks \in [1 .. Len(choice) -> SP!Mark]
  BY <1>2 DEF Marks, ChoicePt, SP!Mark
<1>4. Marks \in Seq(SP!Mark)
  BY <1>1, <1>3, SeqDef
<1>5. Len(Marks) = Len(choice)
  BY <1>1, <1>3, <1>4, LenProperties
<1> QED
  BY <1>1, <1>4, <1>5 DEF Marks

(* TRY pushes the lengths of heap and trail.                               *)
LEMMA TryStep == ASSUME TypeOK, Try PROVE SP!Next
<1> DEFINE c == [regs |-> [r \in AReg |-> regs[r]], alt |-> Imm[2], cp |-> cp,
                 hp |-> Len(heap), tr |-> Len(trail), ep |-> ep]
           m == [hp |-> Len(heap), tr |-> Len(trail)]
<1>1. choice' = Append(choice, c) /\ UNCHANGED <<heap, trail>>
  BY DEF Try, store
<1>2. Len(heap) \in Nat /\ Len(trail) \in Nat /\ m \in SP!Mark
  BY LenProperties DEF TypeOK, SP!Mark
<1>3. /\ Len(choice') = Len(choice) + 1
      /\ \A i \in 1 .. Len(choice) : choice'[i] = choice[i]
      /\ choice'[Len(choice) + 1] = c
  <2>1. choice \in Seq(ChoicePt \cup {c}) /\ c \in ChoicePt \cup {c}
    BY SeqMonotonic DEF TypeOK
  <2> HIDE DEF c
  <2> QED
    BY <1>1, <2>1, AppendProperties
<1>4. /\ Append(Marks, m) \in Seq(SP!Mark)
      /\ Len(Append(Marks, m)) = Len(choice) + 1
      /\ \A i \in 1 .. Len(choice) : Append(Marks, m)[i] = Marks[i]
      /\ Append(Marks, m)[Len(choice) + 1] = m
  BY <1>2, MarksFacts, AppendProperties
<1>5. Marks' = [i \in 1 .. Len(choice) + 1 |->
                  [hp |-> choice'[i].hp, tr |-> choice'[i].tr]]
  BY <1>3 DEF Marks
<1>6. Append(Marks, m) \in [1 .. Len(choice) + 1 -> SP!Mark]
  BY <1>4, LenProperties
<1>7. \A i \in 1 .. Len(choice) + 1 :
        Append(Marks, m)[i] = [hp |-> choice'[i].hp, tr |-> choice'[i].tr]
  BY <1>3, <1>4, MarksFacts
<1>8. Marks' = Append(Marks, m)
  BY <1>5, <1>6, <1>7
<1> QED
  BY <1>1, <1>8 DEF SP!Next, SP!PushChoice

(* The memory that RETRY and TRUST restore is that of the newest mark.     *)
LEMMA RestoreTopStep ==
  ASSUME TypeOK, RestoreTop
  PROVE  SP!RestoreTop /\ choice # <<>> /\ Len(choice) \in Nat \ {0}
<1>1. /\ choice # <<>>
      /\ heap' = Undo(heap, trail, Top.hp, Top.tr)
      /\ trail' = SubSeq(trail, 1, Top.tr)
  BY DEF RestoreTop, Restore, UnwindTrail
<1>2. Len(choice) \in 1 .. Len(choice) /\ Len(choice) \in Nat \ {0}
  BY <1>1, TopType, MarksFacts
<1>3. SP!Top.hp = Top.hp /\ SP!Top.tr = Top.tr /\ Marks # <<>>
  <2>1. Marks[Len(choice)] = [hp |-> Top.hp, tr |-> Top.tr]
    BY <1>2, MarksFacts DEF Top
  <2>2. SP!Top = Marks[Len(choice)]
    BY MarksFacts DEF SP!Top
  <2>3. Marks # <<>>
    BY <1>2, MarksFacts, EmptySeq
  <2> QED
    BY <2>1, <2>2, <2>3
<1>4. \A h, t, p, r : Undo(h, t, p, r) = SP!Undo(h, t, p, r)
  BY SameCells DEF Undo, SP!Undo, Trailed, SP!Trailed
<1> QED
  BY <1>1, <1>2, <1>3, <1>4 DEF SP!RestoreTop

(* RETRY changes the alternative of the newest choice point only.          *)
LEMMA RetryChoice ==
  ASSUME TypeOK, choice # <<>>, NEW n \in Nat,
         choice' = [choice EXCEPT ![Len(choice)].alt = n]
  PROVE  /\ choice' \in Seq(ChoicePt) /\ Len(choice') = Len(choice)
         /\ \A i \in 1 .. Len(choice) : /\ choice'[i].hp = choice[i].hp
                                        /\ choice'[i].tr = choice[i].tr
                                        /\ choice'[i].ep = choice[i].ep
                                        /\ choice'[i].regs = choice[i].regs
                                        /\ choice'[i].cp = choice[i].cp
         /\ \A i \in 1 .. Len(choice) :
              choice'[i].alt = IF i = Len(choice) THEN n ELSE choice[i].alt
<1> DEFINE c == [Top EXCEPT !.alt = n]
<1>1. Len(choice) \in 1 .. Len(choice) /\ Top \in ChoicePt
  BY TopType
<1>2. /\ c \in ChoicePt /\ c.hp = Top.hp /\ c.tr = Top.tr /\ c.ep = Top.ep /\ c.regs = Top.regs
      /\ c.cp = Top.cp /\ c.alt = n
  BY <1>1 DEF ChoicePt
<1>3. choice' = [choice EXCEPT ![Len(choice)] = c]
  BY Zenon DEF Top
<1> HIDE DEF c
<1>4. /\ choice' \in Seq(ChoicePt) /\ Len(choice') = Len(choice)
      /\ \A i \in 1 .. Len(choice) :
           choice'[i] = IF i = Len(choice) THEN c ELSE choice[i]
  <2> DEFINE s == [choice EXCEPT ![Len(choice)] = c]
  <2>1. /\ s \in Seq(ChoicePt) /\ Len(s) = Len(choice)
        /\ \A i \in 1 .. Len(choice) :
             s[i] = IF i = Len(choice) THEN c ELSE choice[i]
    <3>1. choice \in Seq(ChoicePt)
      BY DEF TypeOK
    <3> QED
      BY <1>1, <1>2, <3>1, ExceptSeq
  <2> HIDE DEF s
  <2>2. choice' = s
    BY <1>3 DEF s
  <2> QED
    BY <2>1, <2>2
<1> QED
  BY <1>2, <1>4 DEF Top

(* RETRY restores and keeps the marks.                                     *)
LEMMA RetryStep == ASSUME TypeOK, Retry PROVE SP!Next
<1>1. At("RETRY") /\ "RETRY" \in Opcodes \cap TwoCell
  BY DEF Retry, Opcodes, TwoCell
<1>2. Imm[2] \in Nat
  BY <1>1, Operands DEF ImmKind, Address
<1>3. /\ SP!RestoreTop /\ choice # <<>>
      /\ choice' = [choice EXCEPT ![Len(choice)].alt = Imm[2]]
  BY RestoreTopStep DEF Retry
<1>4. Marks' = Marks
  <2> DEFINE n == Imm[2]
  <2>1. n \in Nat /\ choice' = [choice EXCEPT ![Len(choice)].alt = n]
    BY <1>2, <1>3
  <2> HIDE DEF n
  <2> QED
    BY <1>3, <2>1, RetryChoice DEF Marks
<1> QED
  BY <1>3, <1>4 DEF SP!Next, SP!Retry

(* TRUST restores and drops the newest mark.                               *)
LEMMA TrustStep == ASSUME TypeOK, Trust PROVE SP!Next
<1> DEFINE n == Len(choice) - 1
<1>1. /\ SP!RestoreTop /\ choice # <<>> /\ Len(choice) \in Nat \ {0}
      /\ choice' = SubSeq(choice, 1, n)
  BY RestoreTopStep DEF Trust
<1>2. /\ Len(choice') = n
      /\ \A i \in 1 .. n : choice'[i] = choice[i]
  <2>1. n \in 0 .. Len(choice)
    BY <1>1
  <2> QED
    BY <1>1, <2>1, SP!PrefixFacts DEF TypeOK
<1>3. /\ SubSeq(Marks, 1, n) \in Seq(SP!Mark)
      /\ Len(SubSeq(Marks, 1, n)) = n
      /\ \A i \in 1 .. n : SubSeq(Marks, 1, n)[i] = Marks[i]
  <2>1. n \in 0 .. Len(Marks)
    BY <1>1, MarksFacts
  <2> QED
    BY <2>1, MarksFacts, SP!PrefixFacts
<1>4. SubSeq(Marks, 1, n) \in [1 .. n -> SP!Mark]
  BY <1>3, LenProperties
<1>5. \A i \in 1 .. n :
        SubSeq(Marks, 1, n)[i] = [hp |-> choice'[i].hp, tr |-> choice'[i].tr]
  BY <1>1, <1>2, <1>3, MarksFacts
<1>6. Marks' = [i \in 1 .. n |-> [hp |-> choice'[i].hp, tr |-> choice'[i].tr]]
  BY <1>2 DEF Marks
<1>7. Marks' = SubSeq(Marks, 1, Len(Marks) - 1)
  BY <1>4, <1>5, <1>6, MarksFacts
<1> QED
  BY <1>1, <1>7 DEF SP!Next, SP!Trust

(* CUT drops all marks and leaves heap and trail.                          *)
LEMMA CutStep == ASSUME TypeOK, Cut PROVE SP!Next
<1>1. choice' = <<>> /\ UNCHANGED <<heap, trail>>
  BY DEF Cut, store
<1>2. Marks' = <<>>
  <2>1. Len(choice') = 0
    BY <1>1, EmptySeq
  <2>2. Marks' = [i \in 1 .. 0 |-> [hp |-> choice'[i].hp, tr |-> choice'[i].tr]]
    BY <2>1 DEF Marks
  <2> QED
    BY <2>2
<1> QED
  BY <1>1, <1>2 DEF SP!Next, SP!Cut

-----------------------------------------------------------------------------
(* Instructions that push a cell.                                          *)

(* A fresh variable is a reference to its own address.                     *)
LEMMA FreshVariable ==
  ASSUME TypeOK
  PROVE  /\ Len(heap) \in Nat
         /\ Ref(Len(heap) + 1) \in Cell
         /\ AllocUnbound(heap) = Append(heap, Ref(Len(heap) + 1))
<1>1. Len(heap) \in Nat
  BY LenProperties DEF TypeOK
<1> QED
  BY <1>1 DEF AllocUnbound, Ref, Cell

(* GET_STRUCT names an atom and an arity.                                  *)
LEMMA StructOperands ==
  ASSUME TypeOK, At("GET_STRUCT")
  PROVE  Imm[2] \in Atoms /\ Word[3] \in Nat /\ Fun(Imm[2], Word[3]) \in Cell
<1>1. "GET_STRUCT" \in Opcodes \cap TwoCell
  BY DEF Opcodes, TwoCell
<1>2. Imm[2] \in Atoms /\ Word[3] \in Nat
  BY <1>1, Operands DEF ImmKind
<1>3. Word[3] % 32 \in Arities
  BY <1>2 DEF Arities
<1> QED
  BY <1>2, <1>3 DEF Fun, Cell

(* A write stream pushes a register or a constant.                         *)
LEMMA StreamOperands ==
  ASSUME TypeOK
  PROVE  /\ At("UNIFY_VAL") => regs[Word[2]] \in Cell
         /\ At("UNIFY_CONST") => Imm \in Cell
<1>1. ASSUME At("UNIFY_VAL") PROVE regs[Word[2]] \in Cell
  <2>1. "UNIFY_VAL" \in Opcodes \cap Op1IsReg
    BY DEF Opcodes, OneCell, Op1IsReg
  <2>2. Word[2] \in Reg
    BY <1>1, <2>1, Operands
  <2> QED
    BY <2>2 DEF TypeOK
<1>2. ASSUME At("UNIFY_CONST") PROVE Imm \in Cell
  BY <1>2, ConstantOperand
<1> QED
  BY <1>1, <1>2

(* These instructions push one cell or leave the store alone.              *)
LEMMA PushSteps ==
  ASSUME TypeOK,
         \/ PutVar \/ BadRegister \/ GetStructDangling \/ UnifyVarWrite
         \/ UnifyVal \/ UnifyConst
  PROVE  [SP!Next]_(SP!vars)
<1>1. CASE PutVar \/ UnifyVarWrite
  <2>1. heap' = Append(heap, Ref(Len(heap) + 1)) /\ UNCHANGED <<trail, choice>>
    BY <1>1, FreshVariable DEF PutVar, UnifyVarWrite
  <2> QED
    BY <2>1, FreshVariable, PushStep
<1>2. CASE BadRegister
  <2>1. UNCHANGED <<trail, choice>>
    BY <1>2 DEF BadRegister
  <2>2. CASE heap' = heap
    BY <2>1, <2>2, StoreAlone DEF store
  <2>3. CASE heap' = AllocUnbound(heap)
    BY <2>1, <2>3, FreshVariable, PushStep
  <2> QED
    BY <1>2, <2>2, <2>3 DEF BadRegister
<1>3. CASE GetStructDangling
  <2>1. /\ At("GET_STRUCT") /\ heap' = Append(heap, Fun(Imm[2], Word[3]))
        /\ UNCHANGED <<trail, choice>>
    BY <1>3 DEF GetStructDangling
  <2> QED
    BY <2>1, StructOperands, PushStep
<1>4. CASE UnifyVal \/ UnifyConst
  <2>1. CASE UNCHANGED <<store, choice>>
    BY <2>1, StoreAlone
  <2>2. ASSUME NEW c \in Cell, NEW n, WriteStream(c, n)
        PROVE  SP!Next
    BY <2>2, PushStep DEF WriteStream
  <2>3. ASSUME NEW c1, NEW c2, UnifyStream(c1, c2)
        PROVE  UNCHANGED <<store, choice>>
    BY <2>3 DEF UnifyStream
  <2> QED
    BY <1>4, <2>1, <2>2, <2>3, StreamOperands DEF UnifyVal, UnifyConst
<1> QED
  BY <1>1, <1>2, <1>3, <1>4

-----------------------------------------------------------------------------
(* Instructions that bind.                                                 *)

(* An unbound cell is a reference to an address of the heap.               *)
LEMMA UnboundCell ==
  ASSUME TypeOK, NEW x, IsUnbound(heap, x)
  PROVE  Val(x) \in 1 .. Len(heap) /\ x = Ref(Val(x))
<1>1. Tag(x) = "REF" /\ Val(x) \in 1 .. Len(heap) /\ heap[Val(x)] = x
  BY DEF IsUnbound
<1>2. x \in Cell
  BY <1>1, ElementOfSeq DEF TypeOK
<1>3. x \in {"REF"} \X Nat
  BY <1>1, <1>2 DEF Cell, Tag
<1> QED
  BY <1>1, <1>3 DEF Ref, Val

(* unify binds an unbound variable to something else.                      *)
LEMMA BindStep ==
  ASSUME TypeOK, NEW x, NEW y \in Cell, x # y, Bind(x, y), UNCHANGED choice
  PROVE  SP!Next
<1>1. /\ IsUnbound(heap, x)
      /\ heap' = [heap EXCEPT ![Val(x)] = y]
      /\ trail' = Append(trail, Val(x))
  BY DEF Bind
<1>2. Val(x) \in 1 .. Len(heap) /\ x = Ref(Val(x))
  BY <1>1, UnboundCell
<1>3. SP!IsUnbound(heap, SP!Ref(Val(x))) /\ y # SP!Ref(Val(x)) /\ y \in SP!Cell
  BY <1>1, <1>2, SameCells
<1>4. UNCHANGED Marks
  BY DEF Marks
<1>5. SP!BindCell(Val(x), y)
  BY <1>1, <1>3, <1>4 DEF SP!BindCell
<1> QED
  BY <1>2, <1>3, <1>5 DEF SP!Next

(* The two cells that are compared.                                        *)
LEMMA Compared ==
  ASSUME TypeOK, Comparing
  PROVE  Left \in Cell /\ Right \in Cell /\ Tail(todo) \in Seq(Cell \X Cell)
<1>1. todo \in Seq(Cell \X Cell) /\ todo # <<>>
  BY DEF TypeOK, Comparing
<1>2. Head(todo) \in Cell \X Cell /\ Tail(todo) \in Seq(Cell \X Cell)
  BY <1>1, HeadTailProperties
<1> QED
  BY <1>2 DEF Left, Right

(* A binding of unify is a binding of the store, never of a cell to itself.*)
LEMMA UnifyBindStep == ASSUME TypeOK, UnifyBind PROVE SP!Next
<1>1. /\ Comparing /\ Left # Right /\ UNCHANGED choice
      /\ Bind(Left, Right) \/ Bind(Right, Left)
  BY DEF UnifyBind, Differ
<1> QED
  BY <1>1, Compared, BindStep

(* GET_STRUCT on an unbound variable pushes a functor and binds to it.     *)
LEMMA GetStructWriteStep == ASSUME TypeOK, GetStructWrite PROVE SP!Next
<1> DEFINE a == Val(Target)
<1>1. /\ At("GET_STRUCT") /\ Bindable(Target)
      /\ heap' = [Append(heap, Fun(Imm[2], Word[3])) EXCEPT ![a] = Str(Len(heap) + 1)]
      /\ trail' = Append(trail, a)
      /\ UNCHANGED choice
  BY DEF GetStructWrite
<1>2. Imm[2] \in Atoms /\ Word[3] \in Nat
  BY <1>1, StructOperands
<1>3. \/ IsUnbound(heap, Ref(a)) /\ a \in 1 .. Len(heap)
      \/ a = Len(heap) + 1
  <2>1. CASE IsUnbound(heap, Target)
    <3>1. Target = Ref(a) /\ a \in 1 .. Len(heap)
      BY <2>1, UnboundCell
    <3> QED
      BY <2>1, <3>1
  <2>2. CASE Target = Ref(Len(heap) + 1)
    BY <2>2 DEF Ref, Val
  <2> QED
    BY <1>1, <2>1, <2>2 DEF Bindable
<1>4. a \in 1 .. Len(heap) + 1
  BY <1>3, FreshVariable
<1>5. SP!IsUnbound(heap, SP!Ref(a)) \/ a = Len(heap) + 1
  <2> HIDE DEF a
  <2> QED
    BY <1>3, SameCells
<1>6. UNCHANGED Marks
  BY <1>1 DEF Marks
<1>7. SP!BindNew(a, Imm[2], Word[3])
  BY <1>1, <1>5, <1>6, SameCells DEF SP!BindNew
<1> QED
  BY <1>2, <1>4, <1>7 DEF SP!Next

-----------------------------------------------------------------------------
(* Everything else leaves heap, trail and choice points alone.             *)
LEMMA OtherSteps ==
  ASSUME \/ OutOfTicks \/ PcOutOfBounds \/ UnsupportedOpcode
         \/ Nop \/ Halt \/ Call \/ Execute \/ Proceed \/ Fail \/ EmptyChoiceStack
         \/ PutVal \/ PutConst \/ GetVar \/ GetConst \/ GetVal
         \/ UnifyDeref \/ UnifyEqual \/ UnifyDangling \/ UnifyStruct
         \/ UnifyMismatch \/ UnifyDone
         \/ GetStructRead \/ GetStructMismatch \/ StreamEnd \/ UnifyVarRead
         \/ Environments \/ Builtins
         \/ UNCHANGED vars
  PROVE  UNCHANGED SP!vars
<1>1. CASE \/ OutOfTicks \/ PcOutOfBounds \/ UnsupportedOpcode
           \/ Nop \/ Halt \/ Call \/ Execute \/ Proceed \/ Fail
           \/ EmptyChoiceStack
  BY <1>1, StoreAlone DEF OutOfTicks, PcOutOfBounds, UnsupportedOpcode, Nop, Halt,
     Call, Execute, Proceed, Fail, EmptyChoiceStack
<1>2. CASE PutVal \/ PutConst \/ GetVar \/ GetConst \/ GetVal
  BY <1>2, StoreAlone DEF PutVal, PutConst, GetVar, GetConst, GetVal
<1>3. CASE UnifyDeref \/ UnifyEqual \/ UnifyDangling \/ UnifyStruct
           \/ UnifyMismatch \/ UnifyDone
  BY <1>3, StoreAlone DEF UnifyDeref, UnifyEqual, UnifyDangling, UnifyStruct,
     UnifyMismatch, UnifyDone
<1>4. CASE GetStructRead \/ GetStructMismatch \/ StreamEnd \/ UnifyVarRead
  BY <1>4, StoreAlone DEF GetStructRead, GetStructMismatch, StreamEnd, UnifyVarRead
<1>5. CASE Environments
  BY <1>5, StoreAlone DEF Environments, Allocate, Deallocate, GetYVar, PutYVal,
     EmptyEnvStack, BadYSlot
<1>6. CASE Builtins
  BY <1>6, StoreAlone DEF Builtins, BIsAdd, BIsSub, BIs, BLt, BGt, BCmp,
     ArithNotInt, BWrite, BNl, IoError
<1>7. CASE UNCHANGED vars
  BY <1>7, StoreAlone DEF vars, store
<1> QED
  BY <1>1, <1>2, <1>3, <1>4, <1>5, <1>6, <1>7

(***************************************************************************)
(* Every step of the machine is one call of the store or none, whatever    *)
(* the program: heap, trail and marks are changed in no other way.         *)
(***************************************************************************)
LEMMA StoreStep == TypeOK /\ [Next]_vars => [SP!Next]_(SP!vars)
<1> SUFFICES ASSUME TypeOK, [Next]_vars
             PROVE  [SP!Next]_(SP!vars)
  OBVIOUS
<1>1. CASE Refuse
  BY <1>1, OtherSteps, PushSteps DEF Refuse
<1>2. CASE Control
  BY <1>2, OtherSteps, TryStep, RetryStep, TrustStep, CutStep DEF Control
<1>3. CASE Arguments
  BY <1>3, OtherSteps, PushSteps DEF Arguments
<1>4. CASE Unification
  BY <1>4, OtherSteps, UnifyBindStep DEF Unification
<1>5. CASE Structures
  BY <1>5, OtherSteps, PushSteps, GetStructWriteStep DEF Structures
<1>6. CASE Environments \/ Builtins \/ UNCHANGED vars
  BY <1>6, OtherSteps
<1> QED
  BY <1>1, <1>2, <1>3, <1>4, <1>5, <1>6 DEF Next, Step, Stopped

(* The machine starts with the empty store.                                *)
LEMMA StoreInit == Init => SP!Init
<1>1. choice = <<>> => Marks = <<>>
  <2>1. Len(<<>>) = 0
    BY EmptySeq
  <2> QED
    BY <2>1 DEF Marks
<1> QED
  BY <1>1 DEF Init, SP!Init

-----------------------------------------------------------------------------
(* The heap and the trail of the next state have their types.              *)
StoreTyped == heap' \in Seq(Cell) /\ trail' \in Seq(Nat)

-----------------------------------------------------------------------------
(* Types, by kinds of steps.                                               *)

(* The current frame, when there is one and it exists.                     *)
LEMMA FrameType ==
  ASSUME TypeOK, FramesExist, ep > 0
  PROVE  ep \in 1 .. Len(env) /\ env[ep] \in EnvFrame
<1>1. ep \in 1 .. Len(env)
  BY DEF TypeOK, FramesExist
<1> QED
  BY <1>1, ElementOfSeq DEF TypeOK

(* A dispatch uses a tick that was left, and keeps the program.            *)
LEMMA TickType ==
  ASSUME TypeOK, Running, Tick
  PROVE  ticks' \in 0 .. TickLimit /\ UNCHANGED <<prog, code, todo>>
BY TickAssumption DEF Running, Tick, program, TypeOK

(* Everything but pc and status stays: control, refusals, comparisons.     *)
LEMMA ControlOnly ==
  ASSUME TypeOK, Running, Tick,
         pc' \in Nat, status' \in {"run", "halt", "fail", "panic"} \cup RunError,
         UNCHANGED <<cp, regs, store, choice, frames, stream>>
  PROVE  TypeOK'
<1>1. UNCHANGED <<regs, cp, heap, trail, choice, env, ep, mode, up>>
  BY DEF store, frames, stream
<1> QED
  BY <1>1, TickType DEF TypeOK

(* exec_fail goes to an address or ends the run.                           *)
LEMMA BacktrackType ==
  ASSUME TypeOK, Backtrack
  PROVE  pc' \in Nat /\ status' \in {"run", "fail"} /\ Tick
<1>1. CASE NoMoreChoices
  BY <1>1 DEF NoMoreChoices, Backtrack, TypeOK
<1>2. CASE NextChoice
  BY <1>2, TopType DEF NextChoice, Backtrack, ChoicePt
<1> QED
  BY <1>1, <1>2 DEF Backtrack

(* Going on keeps the run going at an address.                             *)
LEMMA GotoNext ==
  ASSUME TypeOK, NEW n \in Nat, Goto(pc + n), Running
  PROVE  pc' \in Nat /\ status' = "run" /\ Tick
BY DEF Goto, Running, TypeOK

(* Every RunError leaves the machine well typed.                           *)
LEMMA RefuseType ==
  ASSUME TypeOK,
         \/ PcOutOfBounds \/ UnsupportedOpcode \/ EmptyChoiceStack
         \/ EmptyEnvStack \/ BadYSlot \/ ArithNotInt \/ IoError
  PROVE  TypeOK'
<1>1. Running
  BY DEF PcOutOfBounds, UnsupportedOpcode, EmptyChoiceStack, EmptyEnvStack,
         BadYSlot, ArithNotInt, IoError, At, Fetched
<1>2. \E s \in RunError : Stop(s)
  BY DEF PcOutOfBounds, UnsupportedOpcode, EmptyChoiceStack, EmptyEnvStack,
         BadYSlot, ArithNotInt, IoError, RunError
<1>3. Tick /\ pc' \in Nat /\ status' \in RunError
  BY <1>2 DEF Stop, TypeOK
<1>4. UNCHANGED <<cp, regs, store, choice, frames, stream>>
  BY DEF PcOutOfBounds, UnsupportedOpcode, EmptyChoiceStack, EmptyEnvStack,
         BadYSlot, ArithNotInt, IoError
<1> QED
  BY <1>1, <1>3, <1>4, ControlOnly

(* So does the runaway guard.                                              *)
LEMMA OutOfTicksType == ASSUME TypeOK, OutOfTicks PROVE TypeOK'
<1>1. UNCHANGED <<prog, code, pc, cp, regs, heap, trail, choice, env, ep, mode, up,
                  todo, ticks>> /\ status' = "TickLimit"
  BY DEF OutOfTicks, program, store, frames, stream
<1> QED
  BY <1>1 DEF TypeOK, RunError

(* Jumps, comparisons and words that do nothing to the data.               *)
LEMMA JumpType ==
  ASSUME TypeOK, Nop \/ Halt \/ Execute \/ Proceed \/ Fail \/ GetStructMismatch
                 \/ StreamEnd
  PROVE  TypeOK'
<1>1. CASE Nop
  <2>1. At("NOP") /\ "NOP" \in Opcodes /\ Goto(pc + 1)
    BY <1>1 DEF Nop, Opcodes, OneCell
  <2> QED
    BY <1>1, <2>1, Operands, GotoNext, ControlOnly DEF Nop
<1>2. CASE Halt
  <2>1. Running /\ Tick /\ pc' \in Nat /\ status' = "halt"
    BY <1>2 DEF Halt, At, Fetched, TypeOK
  <2> QED
    BY <1>2, <2>1, ControlOnly DEF Halt
<1>3. CASE Execute
  <2>1. At("EXECUTE") /\ "EXECUTE" \in Opcodes \cap TwoCell /\ Goto(Imm[2])
    BY <1>3 DEF Execute, Opcodes, TwoCell
  <2>2. Imm[2] \in Nat /\ Running
    BY <2>1, Operands DEF ImmKind, Address
  <2>3. pc' \in Nat /\ Tick /\ status' = "run"
    BY <2>1, <2>2 DEF Goto, Running
  <2> QED
    BY <1>3, <2>2, <2>3, ControlOnly DEF Execute
<1>4. CASE Proceed
  <2>1. Running /\ Tick /\ pc' \in Nat /\ status' = "run"
    BY <1>4 DEF Proceed, At, Fetched, Goto, Running, TypeOK
  <2> QED
    BY <1>4, <2>1, ControlOnly DEF Proceed
<1>5. CASE Fail \/ GetStructMismatch \/ StreamEnd
  <2>1. Running /\ Backtrack
    BY <1>5 DEF Fail, GetStructMismatch, StreamEnd, At, Fetched
  <2> QED
    BY <1>5, <2>1, BacktrackType, ControlOnly DEF Fail, GetStructMismatch, StreamEnd
<1> QED
  BY <1>1, <1>2, <1>3, <1>4, <1>5

(* CALL keeps the address after its two cells.                             *)
LEMMA CallType == ASSUME TypeOK, Call PROVE TypeOK'
<1>1. At("CALL") /\ "CALL" \in Opcodes \cap TwoCell /\ Goto(Imm[2])
  BY DEF Call, Opcodes, TwoCell
<1>2. Imm[2] \in Nat /\ Running
  BY <1>1, Operands DEF ImmKind, Address
<1>3. ticks' \in 0 .. TickLimit /\ UNCHANGED <<prog, code, todo>>
  BY <1>1, <1>2, TickType DEF Goto
<1>4. /\ pc' = Imm[2] /\ cp' = pc + 2
      /\ UNCHANGED <<regs, heap, trail, choice, env, ep, mode, up, status>>
  BY <1>1 DEF Call, Goto, store, frames, stream
<1> QED
  BY <1>2, <1>3, <1>4 DEF TypeOK

(* Choice points.                                                          *)
LEMMA TryType == ASSUME TypeOK, Try PROVE TypeOK'
<1> DEFINE c == [regs |-> [r \in AReg |-> regs[r]], alt |-> Imm[2], cp |-> cp,
                 hp |-> Len(heap), tr |-> Len(trail), ep |-> ep]
<1>1. At("TRY") /\ "TRY" \in Opcodes \cap TwoCell /\ Goto(pc + 2)
  BY DEF Try, Opcodes, TwoCell
<1>2. Imm[2] \in Nat /\ Running
  BY <1>1, Operands DEF ImmKind, Address
<1>3. [r \in AReg |-> regs[r]] \in [AReg -> Cell]
  BY DEF TypeOK, AReg, Reg
<1>4. c \in ChoicePt
  BY <1>2, <1>3, LenProperties DEF TypeOK, ChoicePt
<1>5. Append(choice, c) \in Seq(ChoicePt)
  BY <1>4, AppendProperties DEF TypeOK
<1>6. ticks' \in 0 .. TickLimit /\ UNCHANGED <<prog, code, todo>>
  BY <1>1, <1>2, TickType DEF Goto
<1>7. /\ pc' = pc + 2 /\ choice' = Append(choice, c)
      /\ UNCHANGED <<cp, regs, heap, trail, env, ep, mode, up, status>>
  BY <1>1 DEF Try, Goto, store, frames, stream
<1> QED
  BY <1>5, <1>6, <1>7 DEF TypeOK

(* CUT.                                                                    *)
LEMMA CutType == ASSUME TypeOK, Cut PROVE TypeOK'
<1>1. At("CUT") /\ Running /\ Goto(pc + 1)
  BY DEF Cut, At, Fetched
<1>2. ticks' \in 0 .. TickLimit /\ UNCHANGED <<prog, code, todo>>
  BY <1>1, TickType DEF Goto
<1>3. /\ pc' = pc + 1 /\ choice' = <<>>
      /\ UNCHANGED <<cp, regs, heap, trail, env, ep, mode, up, status>>
  BY <1>1 DEF Cut, Goto, store, frames, stream
<1>4. <<>> \in Seq(ChoicePt)
  BY EmptySeq
<1> QED
  BY <1>2, <1>3, <1>4 DEF TypeOK

(* A register that does not exist, PUT_VAR with its stray cell included.   *)
LEMMA BadRegisterType == ASSUME TypeOK, StoreTyped, BadRegister PROVE TypeOK'
<1>1. ticks' \in 0 .. TickLimit /\ UNCHANGED <<prog, code, todo>>
  BY TickType DEF BadRegister, Fetched, Stop
<1>2. /\ UNCHANGED <<pc, cp, regs, trail, choice, env, ep, mode, up>>
      /\ status' = "BadRegister"
  BY DEF BadRegister, Stop, frames, stream
<1> QED
  BY <1>1, <1>2 DEF TypeOK, RunError, StoreTyped

(* RETRY and TRUST.                                                        *)
LEMMA RestoreType ==
  ASSUME TypeOK, StoreTyped, RestoreTop, Running, NEW n \in Nat, Goto(pc + n),
         choice' \in Seq(ChoicePt)
  PROVE  TypeOK'
<1>1. /\ choice # <<>> /\ cp' = Top.cp /\ ep' = Top.ep
      /\ regs' = [r \in Reg |-> IF r \in AReg THEN Top.regs[r] ELSE regs[r]]
      /\ UNCHANGED <<env, mode, up>>
  BY DEF RestoreTop, Restore, stream
<1>2. Top \in ChoicePt
  BY <1>1, TopType
<1>3. cp' \in Nat /\ ep' \in Nat /\ regs' \in [Reg -> Cell]
  BY <1>1, <1>2 DEF ChoicePt, TypeOK
<1>4. /\ ticks' \in 0 .. TickLimit /\ UNCHANGED <<prog, code, todo>>
      /\ pc' \in Nat /\ status' = "run"
  BY TickType, GotoNext
<1> QED
  BY <1>1, <1>3, <1>4 DEF TypeOK, StoreTyped

(* An immediate that is the address of a label.                            *)
LEMMA LabelOperand ==
  ASSUME TypeOK, NEW op \in {"CALL", "EXECUTE", "TRY", "RETRY"}, At(op)
  PROVE  Imm[2] \in Nat
<1>1. op \in Opcodes \cap TwoCell
  BY DEF Opcodes, TwoCell
<1> QED
  BY <1>1, Operands DEF ImmKind, Address

(* The choice points that RETRY and TRUST leave.                           *)
LEMMA RetryLeaves ==
  ASSUME TypeOK, Retry
  PROVE  /\ choice' \in Seq(ChoicePt) /\ Len(choice') = Len(choice)
         /\ \A i \in 1 .. Len(choice) : /\ choice'[i].hp = choice[i].hp
                                        /\ choice'[i].tr = choice[i].tr
                                        /\ choice'[i].ep = choice[i].ep
                                        /\ choice'[i].regs = choice[i].regs
                                        /\ choice'[i].cp = choice[i].cp
         /\ \A i \in 1 .. Len(choice) :
              choice'[i].alt = IF i = Len(choice) THEN Imm[2] ELSE choice[i].alt
<1> DEFINE n == Imm[2]
<1>1. n \in Nat
  BY LabelOperand DEF Retry
<1>2. choice # <<>> /\ choice' = [choice EXCEPT ![Len(choice)].alt = n]
  BY DEF Retry, RestoreTop, Restore
<1> HIDE DEF n
<1>3. /\ choice' \in Seq(ChoicePt) /\ Len(choice') = Len(choice)
      /\ \A i \in 1 .. Len(choice) : /\ choice'[i].hp = choice[i].hp
                                     /\ choice'[i].tr = choice[i].tr
                                     /\ choice'[i].ep = choice[i].ep
                                     /\ choice'[i].regs = choice[i].regs
                                     /\ choice'[i].cp = choice[i].cp
      /\ \A i \in 1 .. Len(choice) :
           choice'[i].alt = IF i = Len(choice) THEN n ELSE choice[i].alt
  BY <1>1, <1>2, RetryChoice
<1> QED
  BY <1>3 DEF n

(* TRUST leaves all choice points but the newest.                          *)
LEMMA TrustLeaves ==
  ASSUME TypeOK, Trust
  PROVE  /\ choice' \in Seq(ChoicePt) /\ Len(choice') = Len(choice) - 1
         /\ \A i \in 1 .. Len(choice) - 1 : choice'[i] = choice[i]
<1>1. choice # <<>> /\ choice' = SubSeq(choice, 1, Len(choice) - 1)
  BY DEF Trust, RestoreTop, Restore
<1>2. Len(choice) - 1 \in 0 .. Len(choice)
  BY <1>1, TopType, MarksFacts
<1> QED
  BY <1>1, <1>2, SP!PrefixFacts DEF TypeOK

(* Both put back registers, continuation and frame of the choice point.    *)
LEMMA RetryTrustType ==
  ASSUME TypeOK, StoreTyped, Retry \/ Trust PROVE TypeOK'
<1>1. CASE Retry
  <2>1. Running /\ Goto(pc + 2) /\ RestoreTop /\ choice' \in Seq(ChoicePt)
    BY <1>1, RetryLeaves DEF Retry, At, Fetched
  <2> QED
    BY <2>1, RestoreType
<1>2. CASE Trust
  <2>1. Running /\ Goto(pc + 1) /\ RestoreTop /\ choice' \in Seq(ChoicePt)
    BY <1>2, TrustLeaves DEF Trust, At, Fetched
  <2> QED
    BY <2>1, RestoreType
<1> QED
  BY <1>1, <1>2

-----------------------------------------------------------------------------
(* Instructions that go on with the next one and may write registers.      *)

(* Such an instruction keeps the types if what it writes has its type.     *)
LEMMA StraightType ==
  ASSUME TypeOK, StoreTyped, Running, NEW n \in Nat, Goto(pc + n),
         regs' \in [Reg -> Cell], mode' \in {"read", "write"}, up' \in Nat \ {0},
         UNCHANGED <<cp, choice, frames>>
  PROVE  TypeOK'
<1>1. UNCHANGED <<cp, choice, env, ep>>
  BY DEF frames
<1>2. /\ ticks' \in 0 .. TickLimit /\ UNCHANGED <<prog, code, todo>>
      /\ pc' \in Nat /\ status' = "run"
  BY TickType, GotoNext
<1> QED
  BY <1>1, <1>2 DEF TypeOK, StoreTyped

(* Writing a cell to a register, or past the registers, keeps their type.  *)
LEMMA RegWrite ==
  ASSUME TypeOK, NEW r, NEW c \in Cell
  PROVE  [regs EXCEPT ![r] = c] \in [Reg -> Cell]
  BY DEF TypeOK

(* The registers an instruction names exist and hold cells.                *)
LEMMA RegOperands ==
  ASSUME TypeOK, NEW op \in Opcodes, At(op)
  PROVE  /\ op \in Op1IsReg => regs[Word[2]] \in Cell
         /\ op \in Op2IsReg => regs[Word[3]] \in Cell
  BY Operands DEF TypeOK

(* PUT_VAR, PUT_VAL, PUT_CONST and GET_VAR.                                *)
LEMMA PutGetType ==
  ASSUME TypeOK, StoreTyped, PutVar \/ PutVal \/ PutConst \/ GetVar
  PROVE  TypeOK'
<1> USE DEF Opcodes, TwoCell, OneCell, Op1IsReg, Op2IsReg
<1>1. mode' \in {"read", "write"} /\ up' \in Nat \ {0} /\ UNCHANGED <<cp, choice, frames>>
  BY DEF PutVar, PutVal, PutConst, GetVar, stream, TypeOK
<1>2. CASE PutVar
  <2>1. At("PUT_VAR") /\ Running /\ Goto(pc + 1)
    BY <1>2 DEF PutVar, At, Fetched
  <2> DEFINE c == Ref(Len(heap) + 1)
  <2>2. regs' = [regs EXCEPT ![Word[2]] = c, ![Word[3]] = c] /\ c \in Cell
    BY <1>2, FreshVariable DEF PutVar
  <2> HIDE DEF c
  <2>3. regs' \in [Reg -> Cell]
    BY <2>2 DEF TypeOK
  <2> QED
    BY <1>1, <2>1, <2>3, StraightType
<1>3. CASE PutVal
  <2>1. At("PUT_VAL") /\ Running /\ Goto(pc + 1)
    BY <1>3 DEF PutVal, At, Fetched
  <2>2. regs' \in [Reg -> Cell]
    BY <1>3, <2>1, RegOperands, RegWrite DEF PutVal
  <2> QED
    BY <1>1, <2>1, <2>2, StraightType
<1>4. CASE PutConst
  <2>1. At("PUT_CONST") /\ Running /\ Goto(pc + 2)
    BY <1>4 DEF PutConst, At, Fetched
  <2>2. Imm \in Cell
    BY <2>1, ConstantOperand
  <2>3. regs' \in [Reg -> Cell]
    BY <1>4, <2>2, RegWrite DEF PutConst
  <2> QED
    BY <1>1, <2>1, <2>3, StraightType
<1>5. CASE GetVar
  <2>1. At("GET_VAR") /\ Running /\ Goto(pc + 1)
    BY <1>5 DEF GetVar, At, Fetched
  <2>2. regs' \in [Reg -> Cell]
    BY <1>5, <2>1, RegOperands, RegWrite DEF GetVar
  <2> QED
    BY <1>1, <2>1, <2>2, StraightType
<1> QED
  BY <1>2, <1>3, <1>4, <1>5

(* GET_STRUCT that reads, writes, or binds outside of the heap.            *)
LEMMA GetStructType ==
  ASSUME TypeOK, StoreTyped, GetStructRead \/ GetStructWrite \/ GetStructDangling
  PROVE  TypeOK'
<1>1. Running
  BY DEF GetStructRead, GetStructWrite, GetStructDangling, At, Fetched
<1>2. CASE GetStructRead
  <2>1. Val(Target) \in Nat
    BY <1>2 DEF GetStructRead, Val
  <2>2. /\ Goto(pc + 2) /\ mode' = "read" /\ up' = Val(Target) + 1
        /\ UNCHANGED <<cp, regs, choice, frames>>
    BY <1>2 DEF GetStructRead
  <2>3. up' \in Nat \ {0} /\ regs' \in [Reg -> Cell]
    BY <2>1, <2>2 DEF TypeOK
  <2> QED
    BY <1>1, <2>2, <2>3, StraightType
<1>3. CASE GetStructWrite
  <2>1. /\ Goto(pc + 2) /\ mode' = "write" /\ up' = Len(heap) + 2
        /\ regs' = [regs EXCEPT ![Word[2]] = Str(Len(heap) + 1)]
        /\ UNCHANGED <<cp, choice, frames>>
    BY <1>3 DEF GetStructWrite
  <2>2. Len(heap) \in Nat /\ Str(Len(heap) + 1) \in Cell
    BY FreshVariable DEF Str, Cell
  <2>3. up' \in Nat \ {0}
    BY <2>1, <2>2
  <2> DEFINE c == Str(Len(heap) + 1)
  <2>4. c \in Cell /\ regs' = [regs EXCEPT ![Word[2]] = c]
    BY <2>1, <2>2
  <2> HIDE DEF c
  <2>5. regs' \in [Reg -> Cell]
    BY <2>4, RegWrite
  <2> QED
    BY <1>1, <2>1, <2>3, <2>5, StraightType
<1>4. CASE GetStructDangling
  <2>1. ticks' \in 0 .. TickLimit /\ UNCHANGED <<prog, code, todo>>
    BY <1>1, <1>4, TickType DEF GetStructDangling, Stop
  <2>2. /\ UNCHANGED <<pc, cp, regs, choice, env, ep, mode, up>>
        /\ status' = "panic"
    BY <1>4 DEF GetStructDangling, Stop, frames, stream
  <2> QED
    BY <2>1, <2>2 DEF TypeOK, StoreTyped
<1> QED
  BY <1>2, <1>3, <1>4

(* The instructions of a structure's arguments.                            *)
LEMMA UnifyVarType ==
  ASSUME TypeOK, StoreTyped, UnifyVarRead \/ UnifyVarWrite
  PROVE  TypeOK'
<1>1. Running /\ Goto(pc + 1) /\ UNCHANGED <<cp, choice, frames, mode>>
  BY DEF UnifyVarRead, UnifyVarWrite, At, Fetched
<1>2. mode' \in {"read", "write"}
  BY <1>1 DEF TypeOK
<1>3. CASE UnifyVarRead
  <2>1. /\ regs' = [regs EXCEPT ![Word[2]] = heap[up]]
        /\ up' = up + 1 /\ up <= Len(heap)
    BY <1>3 DEF UnifyVarRead
  <2>2. up \in 1 .. Len(heap) /\ up' \in Nat \ {0}
    BY <2>1, FreshVariable DEF TypeOK
  <2>3. heap[up] \in Cell
    BY <2>2, ElementOfSeq DEF TypeOK
  <2>4. regs' \in [Reg -> Cell]
    BY <2>1, <2>3, RegWrite
  <2> QED
    BY <1>1, <1>2, <2>2, <2>4, StraightType
<1>4. CASE UnifyVarWrite
  <2> DEFINE c == Ref(Len(heap) + 1)
  <2>1. c \in Cell /\ regs' = [regs EXCEPT ![Word[2]] = c]
    BY <1>4, FreshVariable DEF UnifyVarWrite
  <2> HIDE DEF c
  <2>2. up' \in Nat \ {0}
    BY <1>4, FreshVariable DEF UnifyVarWrite
  <2>3. regs' \in [Reg -> Cell]
    BY <2>1, RegWrite
  <2> QED
    BY <1>1, <1>2, <2>2, <2>3, StraightType
<1> QED
  BY <1>3, <1>4

-----------------------------------------------------------------------------
(* Unification.                                                            *)

(* A pair of cells is a list of work of length one.                        *)
LEMMA OnePair ==
  ASSUME NEW c1 \in Cell, NEW c2 \in Cell
  PROVE  <<<<c1, c2>>>> \in Seq(Cell \X Cell)
<1>1. <<c1, c2>> \in Cell \X Cell
  OBVIOUS
<1> DEFINE p == <<c1, c2>>
<1> HIDE DEF p
<1>2. <<p>> \in Seq({p})
  OBVIOUS
<1>3. {p} \subseteq Cell \X Cell
  BY <1>1 DEF p
<1>4. <<p>> \in Seq(Cell \X Cell)
  BY <1>2, <1>3, SeqMonotonic
<1> QED
  BY <1>4 DEF p

(* An instruction that calls unify on two cells.                           *)
LEMMA StartUnifyType ==
  ASSUME TypeOK, Running, NEW c1 \in Cell, NEW c2 \in Cell, StartUnify(c1, c2),
         UNCHANGED <<cp, regs, store, choice, frames, stream>>
  PROVE  TypeOK'
<1>1. todo' \in Seq(Cell \X Cell)
  BY OnePair DEF StartUnify
<1>2. ticks' \in 0 .. TickLimit
  BY TickAssumption DEF StartUnify, Running, TypeOK
<1>3. /\ status' = "unify"
      /\ UNCHANGED <<prog, code, pc, cp, regs, heap, trail, choice, env, ep, mode, up>>
  BY DEF StartUnify, program, store, frames, stream
<1> QED
  BY <1>1, <1>2, <1>3 DEF TypeOK

(* GET_CONST and GET_VAL.                                                  *)
LEMMA GetType == ASSUME TypeOK, GetConst \/ GetVal PROVE TypeOK'
<1> USE DEF Opcodes, TwoCell, OneCell, Op1IsReg, Op2IsReg
<1>1. CASE GetConst
  <2>1. At("GET_CONST") /\ Running
    BY <1>1 DEF GetConst, At, Fetched
  <2>2. regs[Word[2]] \in Cell /\ Imm \in Cell
    BY <2>1, ConstantOperand, RegOperands
  <2> QED
    BY <1>1, <2>1, <2>2, StartUnifyType DEF GetConst
<1>2. CASE GetVal
  <2>1. At("GET_VAL") /\ Running
    BY <1>2 DEF GetVal, At, Fetched
  <2>2. regs[Word[2]] \in Cell /\ regs[Word[3]] \in Cell
    BY <2>1, RegOperands
  <2> QED
    BY <1>2, <2>1, <2>2, StartUnifyType DEF GetVal
<1> QED
  BY <1>1, <1>2

(* A read stream gives unify a cell of the heap.                           *)
LEMMA UnifyStreamType ==
  ASSUME TypeOK, Running, NEW c \in Cell,
         UnifyStream(c, heap[up]) \/ UnifyStream(heap[up], c)
  PROVE  TypeOK'
<1>1. up <= Len(heap)
  BY DEF UnifyStream
<1>2. up \in 1 .. Len(heap)
  BY <1>1, FreshVariable DEF TypeOK
<1>3. heap[up] \in Cell
  BY <1>2, ElementOfSeq DEF TypeOK
<1> QED
  BY <1>3, StartUnifyType DEF UnifyStream

(* A write stream moves to the new end of the heap.                        *)
LEMMA WriteStreamType ==
  ASSUME TypeOK, StoreTyped, Running, NEW c, NEW n \in Nat, WriteStream(c, pc + n)
  PROVE  TypeOK'
<1>1. /\ Goto(pc + n) /\ up' = Len(heap) + 2
      /\ UNCHANGED <<cp, regs, choice, frames, mode>>
  BY DEF WriteStream
<1>2. up' \in Nat \ {0} /\ regs' \in [Reg -> Cell] /\ mode' \in {"read", "write"}
  BY <1>1, FreshVariable DEF TypeOK
<1> QED
  BY <1>1, <1>2, StraightType

(* UNIFY_VAL and UNIFY_CONST.                                              *)
LEMMA UnifyArgType ==
  ASSUME TypeOK, StoreTyped, UnifyVal \/ UnifyConst PROVE TypeOK'
<1>1. Running
  BY DEF UnifyVal, UnifyConst, At, Fetched
<1>2. CASE UnifyVal
  <2>1. regs[Word[2]] \in Cell
    BY <1>2, StreamOperands DEF UnifyVal
  <2> QED
    BY <1>1, <1>2, <2>1, UnifyStreamType, WriteStreamType DEF UnifyVal
<1>3. CASE UnifyConst
  <2>1. Imm \in Cell
    BY <1>3, StreamOperands DEF UnifyConst
  <2> QED
    BY <1>1, <1>3, <2>1, UnifyStreamType, WriteStreamType DEF UnifyConst
<1> QED
  BY <1>2, <1>3

(* A step of unify that changes only the work to do, and perhaps the store.*)
LEMMA TodoType ==
  ASSUME TypeOK, StoreTyped, todo' \in Seq(Cell \X Cell), pc' \in Nat,
         status' \in {"run", "unify", "fail", "panic"}, up' \in Nat \ {0},
         UNCHANGED <<program, cp, regs, choice, frames, mode, ticks>>
  PROVE  TypeOK'
<1>1. UNCHANGED <<prog, code, cp, regs, choice, env, ep, mode, ticks>>
  BY DEF program, frames
<1> QED
  BY <1>1 DEF TypeOK, StoreTyped

(* Where a reference leads is a cell.                                      *)
LEMMA FollowType ==
  ASSUME TypeOK, NEW c \in Cell
  PROVE  Follow(c) \in Cell
<1>1. CASE IsBound(c)
  <2>1. Val(c) \in 1 .. Len(heap)
    BY <1>1 DEF IsBound, Val
  <2>2. heap[Val(c)] \in Cell
    BY <2>1, ElementOfSeq DEF TypeOK
  <2> QED
    BY <1>1, <2>2 DEF Follow
<1>2. CASE ~IsBound(c)
  BY <1>2 DEF Follow
<1> QED
  BY <1>1, <1>2

(* The arguments of two structures of one functor, pair by pair.           *)
LEMMA ArgPairsType ==
  ASSUME TypeOK, SameStructure
  PROVE  ArgPairs(heap, Val(Left), Val(Right)) \in Seq(Cell \X Cell)
<1> DEFINE a == Val(Left)
           b == Val(Right)
           n == heap[a][3]
<1>1. a \in 1 .. Len(heap) /\ Tag(heap[a]) = "FUN"
  BY DEF SameStructure, SameFunctor
<1>2. heap[a] \in Cell
  BY <1>1, ElementOfSeq DEF TypeOK
<1>3. n \in Nat
  <2>1. n \in Arities
    BY <1>1, <1>2 DEF Cell, Tag
  <2> QED
    BY <2>1 DEF Arities
<1>4. \A k : ArgCell(heap, k) \in Cell
  <2>1. ZeroWord \in Cell
    BY DEF ZeroWord, Ref, Cell
  <2>2. \A k \in 1 .. Len(heap) : heap[k] \in Cell
    BY ElementOfSeq DEF TypeOK
  <2> QED
    BY <2>1, <2>2 DEF ArgCell
<1>5. ArgPairs(heap, a, b) \in [1 .. n -> Cell \X Cell]
  BY <1>4 DEF ArgPairs
<1> QED
  BY <1>3, <1>5, SeqDef

(* Backtracking goes to an alternative or ends the run.                    *)
LEMMA ChoiceOrEnd ==
  ASSUME TypeOK, NoMoreChoices \/ NextChoice
  PROVE  pc' \in Nat /\ status' \in {"run", "fail"}
<1>1. CASE NoMoreChoices
  BY <1>1 DEF NoMoreChoices, TypeOK
<1>2. CASE NextChoice
  BY <1>2, TopType DEF NextChoice, ChoicePt
<1> QED
  BY <1>1, <1>2

(* The steps of unify: what is left to do are always pairs of cells.       *)
LEMMA UnificationType == ASSUME TypeOK, StoreTyped, Unification PROVE TypeOK'
<1>1. pc \in Nat /\ up \in Nat \ {0} /\ todo \in Seq(Cell \X Cell)
  BY DEF TypeOK
<1>2. CASE UnifyDeref
  <2>1. /\ Comparing /\ todo' = <<<<Follow(Left), Follow(Right)>>>> \o Tail(todo)
        /\ status' = "unify" /\ UNCHANGED <<pc, up>>
        /\ UNCHANGED <<program, cp, regs, choice, frames, mode, ticks>>
    BY <1>2 DEF UnifyDeref, Comparing, stream
  <2>2. Follow(Left) \in Cell /\ Follow(Right) \in Cell
        /\ Tail(todo) \in Seq(Cell \X Cell)
    BY <2>1, Compared, FollowType
  <2>3. todo' \in Seq(Cell \X Cell)
    BY <2>1, <2>2, OnePair, ConcatProperties
  <2> QED
    BY <1>1, <2>1, <2>3, TodoType
<1>3. CASE UnifyEqual \/ UnifyBind
  <2>1. /\ Comparing /\ todo' = Tail(todo)
        /\ status' = "unify" /\ UNCHANGED <<pc, up>>
        /\ UNCHANGED <<program, cp, regs, choice, frames, mode, ticks>>
    BY <1>3 DEF UnifyEqual, UnifyBind, Differ, Comparing, stream
  <2>2. todo' \in Seq(Cell \X Cell)
    BY <2>1, Compared
  <2> QED
    BY <1>1, <2>1, <2>2, TodoType
<1>4. CASE UnifyDangling
  <2>1. /\ status' = "panic" /\ UNCHANGED <<todo, pc, up>>
        /\ UNCHANGED <<program, cp, regs, choice, frames, mode, ticks>>
    BY <1>4 DEF UnifyDangling, stream
  <2> QED
    BY <1>1, <2>1, TodoType
<1>5. CASE UnifyStruct
  <2>1. /\ Comparing /\ SameStructure
        /\ todo' = ArgPairs(heap, Val(Left), Val(Right)) \o Tail(todo)
        /\ status' = "unify" /\ UNCHANGED <<pc, up>>
        /\ UNCHANGED <<program, cp, regs, choice, frames, mode, ticks>>
    BY <1>5 DEF UnifyStruct, Differ, Comparing, stream
  <2>2. todo' \in Seq(Cell \X Cell)
    BY <2>1, Compared, ArgPairsType, ConcatProperties
  <2> QED
    BY <1>1, <2>1, <2>2, TodoType
<1>6. CASE UnifyMismatch
  <2>1. /\ NoMoreChoices \/ NextChoice
        /\ todo' = <<>> /\ UNCHANGED up
        /\ UNCHANGED <<program, cp, regs, choice, frames, mode, ticks>>
    BY <1>6 DEF UnifyMismatch, stream
  <2>2. todo' \in Seq(Cell \X Cell)
    BY <2>1, EmptySeq
  <2> QED
    BY <1>1, <2>1, <2>2, ChoiceOrEnd, TodoType
<1>7. CASE UnifyDone
  <2>1. /\ status' = "run" /\ UNCHANGED todo
        /\ pc' \in Nat /\ up' \in Nat \ {0}
        /\ UNCHANGED <<program, cp, regs, choice, frames, mode, ticks>>
    BY <1>1, <1>7 DEF UnifyDone
  <2> QED
    BY <1>1, <2>1, TodoType
<1> QED
  BY <1>2, <1>3, <1>4, <1>5, <1>6, <1>7 DEF Unification

-----------------------------------------------------------------------------
(* Environments.                                                           *)

(* An instruction that changes frames only.                                *)
LEMMA FrameOnlyType ==
  ASSUME TypeOK, Running, Goto(pc + 1), env' \in Seq(EnvFrame), ep' \in Nat,
         cp' \in Nat, UNCHANGED <<regs, store, choice, stream>>
  PROVE  TypeOK'
<1>1. UNCHANGED <<regs, heap, trail, choice, mode, up>>
  BY DEF store, stream
<1>2. /\ ticks' \in 0 .. TickLimit /\ UNCHANGED <<prog, code, todo>>
      /\ pc' \in Nat /\ status' = "run"
  BY TickType, GotoNext
<1> QED
  BY <1>1, <1>2 DEF TypeOK

(* A new frame keeps cp and has as many cleared slots as it asks for.      *)
LEMMA NewFrame ==
  ASSUME TypeOK, At("ALLOCATE")
  PROVE  [cp |-> cp, ys |-> [y \in 1 .. Word[2] |-> ZeroWord]] \in EnvFrame
<1>1. "ALLOCATE" \in Opcodes
  BY DEF Opcodes, OneCell
<1>2. Word[2] \in Nat
  BY <1>1, Operands
<1>3. ZeroWord \in Cell
  BY DEF ZeroWord, Ref, Cell
<1>4. [y \in 1 .. Word[2] |-> ZeroWord] \in Seq(Cell)
  <2> DEFINE n == Word[2]
             f == [y \in 1 .. n |-> ZeroWord]
  <2>1. n \in Nat /\ f \in [1 .. n -> Cell]
    BY <1>2, <1>3
  <2> HIDE DEF n, f
  <2>2. f \in Seq(Cell)
    BY <2>1, SeqDef
  <2> QED
    BY <2>2 DEF f, n
<1> QED
  BY <1>4 DEF EnvFrame, TypeOK

(* ALLOCATE adds a frame after all that exist.                             *)
LEMMA AllocateFrames ==
  ASSUME TypeOK, Allocate
  PROVE  /\ env' \in Seq(EnvFrame) /\ Len(env) \in Nat
         /\ Len(env') = Len(env) + 1
         /\ \A i \in 1 .. Len(env) : env'[i] = env[i]
         /\ ep' = Len(env) + 1
<1> DEFINE e == [cp |-> cp, ys |-> [y \in 1 .. Word[2] |-> ZeroWord]]
<1>1. e \in EnvFrame /\ env' = Append(env, e) /\ ep' = Len(env) + 1
  BY NewFrame DEF Allocate
<1> HIDE DEF e
<1> QED
  BY <1>1, AppendProperties, LenProperties DEF TypeOK

(* GET_Y_VAR writes one slot of the current frame.                         *)
LEMMA GetYVarFrames ==
  ASSUME TypeOK, FramesExist, GetYVar
  PROVE  /\ env' \in Seq(EnvFrame) /\ Len(env') = Len(env)
         /\ \A i \in 1 .. Len(env) : /\ env'[i].cp = env[i].cp
                                     /\ Len(env'[i].ys) = Len(env[i].ys)
<1> DEFINE k == Word[2] + 1
           v == regs[Word[3]]
           s == [env[ep].ys EXCEPT ![k] = v]
           e == [env[ep] EXCEPT !.ys = s]
<1>1. At("GET_Y_VAR") /\ ep > 0 /\ Word[2] < Len(env[ep].ys)
  BY DEF GetYVar, HasSlot
<1>2. "GET_Y_VAR" \in Opcodes \cap Op2IsReg
  BY DEF Opcodes, OneCell, Op2IsReg
<1>3. Word[2] \in Nat /\ v \in Cell
  BY <1>1, <1>2, Operands, RegOperands
<1>4. ep \in 1 .. Len(env) /\ env[ep] \in EnvFrame
  BY <1>1, FrameType
<1>5. env[ep].ys \in Seq(Cell) /\ Len(env[ep].ys) \in Nat
  BY <1>4, LenProperties DEF EnvFrame
<1>6. k \in 1 .. Len(env[ep].ys)
  BY <1>1, <1>3, <1>5
<1>7. s \in Seq(Cell) /\ Len(s) = Len(env[ep].ys)
  <2> HIDE DEF k, v
  <2> QED
    BY <1>3, <1>5, <1>6, ExceptSeq
<1>8. env' = [env EXCEPT ![ep] = e]
  BY Zenon DEF GetYVar
<1>9. e \in EnvFrame /\ e.cp = env[ep].cp /\ e.ys = s
  <2> HIDE DEF s
  <2> QED
    BY <1>4, <1>7 DEF EnvFrame
<1>10. /\ env' \in Seq(EnvFrame) /\ Len(env') = Len(env)
       /\ \A i \in 1 .. Len(env) : env'[i] = IF i = ep THEN e ELSE env[i]
  <2> HIDE DEF e
  <2>1. env \in Seq(EnvFrame)
    BY DEF TypeOK
  <2> QED
    BY <1>4, <1>8, <1>9, <2>1, ExceptSeq
<1> QED
  <2> HIDE DEF e, s
  <2> QED
    BY <1>7, <1>9, <1>10

(* ALLOCATE, DEALLOCATE and the instructions on Y slots.                   *)
LEMMA EnvironmentType ==
  ASSUME TypeOK, FramesExist, Allocate \/ Deallocate \/ GetYVar \/ PutYVal
  PROVE  TypeOK'
<1>1. Running /\ Goto(pc + 1)
  BY DEF Allocate, Deallocate, GetYVar, PutYVal, At, Fetched
<1>2. CASE Allocate
  <2>1. ep' \in Nat
    BY <1>2, AllocateFrames
  <2>2. cp' \in Nat /\ UNCHANGED <<regs, store, choice, stream>>
    BY <1>2 DEF Allocate, TypeOK
  <2> QED
    BY <1>1, <1>2, <2>1, <2>2, AllocateFrames, FrameOnlyType
<1>3. CASE Deallocate
  <2>1. /\ ep > 0 /\ cp' = env[ep].cp /\ ep' = ep - 1
        /\ UNCHANGED <<regs, store, choice, env, stream>>
    BY <1>3 DEF Deallocate
  <2>2. cp' \in Nat
    BY <2>1, FrameType DEF EnvFrame
  <2>3. ep' \in Nat /\ env' \in Seq(EnvFrame)
    BY <2>1 DEF TypeOK
  <2> QED
    BY <1>1, <2>1, <2>2, <2>3, FrameOnlyType
<1>4. CASE GetYVar
  <2>1. cp' \in Nat /\ ep' \in Nat /\ UNCHANGED <<regs, store, choice, stream>>
    BY <1>4 DEF GetYVar, TypeOK
  <2> QED
    BY <1>1, <1>4, <2>1, GetYVarFrames, FrameOnlyType
<1>5. CASE PutYVal
  <2> DEFINE k == Word[2] + 1
  <2>1. /\ At("PUT_Y_VAL") /\ ep > 0 /\ Word[2] < Len(env[ep].ys)
        /\ regs' = [regs EXCEPT ![Word[3]] = env[ep].ys[k]]
        /\ UNCHANGED <<cp, store, choice, frames, stream>>
    BY <1>5 DEF PutYVal, HasSlot
  <2>2. "PUT_Y_VAL" \in Opcodes
    BY DEF Opcodes, OneCell
  <2>3. Word[2] \in Nat
    BY <2>1, <2>2, Operands
  <2>4. env[ep].ys \in Seq(Cell) /\ Len(env[ep].ys) \in Nat
    BY <2>1, FrameType, LenProperties DEF EnvFrame
  <2>5. k \in 1 .. Len(env[ep].ys)
    BY <2>1, <2>3, <2>4
  <2> HIDE DEF k
  <2>6. env[ep].ys[k] \in Cell
    BY <2>4, <2>5, ElementOfSeq
  <2>7. regs' \in [Reg -> Cell]
    BY <2>1, <2>6, RegWrite
  <2>8. StoreTyped /\ mode' \in {"read", "write"} /\ up' \in Nat \ {0}
    BY <2>1 DEF StoreTyped, store, stream, TypeOK
  <2> QED
    BY <1>1, <2>1, <2>7, <2>8, StraightType
<1> QED
  BY <1>2, <1>3, <1>4, <1>5

-----------------------------------------------------------------------------
(* Builtins.                                                               *)

(* The range of a payload has as many numbers as 21 bits distinguish.      *)
LEMMA PayloadRange ==
  /\ IntMin \in Int /\ IntMax \in Int
  /\ 2097152 \in Nat \ {0} /\ IntMax - IntMin = 2097152 - 1
  BY SMT DEF IntMin, IntMax

(* Whatever is encoded fits the 21 bits of a payload.                      *)
LEMMA EncodeType ==
  ASSUME NEW n \in Int
  PROVE  Encode(n) \in Cell
<1> DEFINE m == 2097152
           r == (n - IntMin) % m
<1>1. m \in Nat \ {0} /\ IntMax - IntMin = m - 1
  BY PayloadRange
<1> HIDE DEF m
<1>2. r \in 0 .. (m - 1)
  BY <1>1, PayloadRange, SMT
<1> HIDE DEF r
<1>3. r + IntMin \in IntMin .. IntMax
  BY <1>1, <1>2, PayloadRange, SMT
<1>4. Int21(r + IntMin) \in Cell
  BY <1>3 DEF Int21, Cell
<1> QED
  BY <1>4 DEF Encode, r, m

(* The operands of arithmetic are integers.                                *)
LEMMA IntOperand ==
  ASSUME NEW a, IsInt(a)
  PROVE  IntOf(a) \in Int
<1>1. Deref(heap, regs[a]) \in {"INT"} \X (IntMin .. IntMax)
  BY DEF IsInt
<1>2. IntOf(a) \in IntMin .. IntMax
  BY <1>1 DEF IntOf, Val
<1> QED
  BY <1>2, PayloadRange, SMT

(* Arithmetic writes an encoded integer to A0.                             *)
LEMMA BIsType ==
  ASSUME TypeOK, NEW op, NEW r \in Int, BIs(op, r)
  PROVE  TypeOK'
<1>1. /\ Running /\ Goto(pc + 1)
      /\ regs' = [regs EXCEPT ![0] = Encode(r)]
      /\ UNCHANGED <<cp, store, choice, frames, stream>>
  BY DEF BIs, At, Fetched
<1>2. regs' \in [Reg -> Cell]
  BY <1>1, EncodeType, RegWrite
<1>3. StoreTyped /\ mode' \in {"read", "write"} /\ up' \in Nat \ {0}
  BY <1>1 DEF StoreTyped, store, stream, TypeOK
<1> QED
  BY <1>1, <1>2, <1>3, StraightType

(* B_IS_ADD and B_IS_SUB.                                                  *)
LEMMA ArithmeticType == ASSUME TypeOK, BIsAdd \/ BIsSub PROVE TypeOK'
<1>1. IsInt(1) /\ IsInt(2)
  BY DEF BIsAdd, BIsSub, BIs
<1>2. IntOf(1) + IntOf(2) \in Int /\ IntOf(1) - IntOf(2) \in Int
  BY <1>1, IntOperand
<1> QED
  BY <1>2, BIsType DEF BIsAdd, BIsSub

(* B_LT and B_GT go on or backtrack.                                       *)
LEMMA CompareType == ASSUME TypeOK, BLt \/ BGt PROVE TypeOK'
<1>1. PICK op, holds : BCmp(op, holds)
  BY DEF BLt, BGt
<1>2. /\ Running
      /\ Goto(pc + 1) \/ Backtrack
      /\ UNCHANGED <<cp, regs, store, choice, frames, stream, out>>
  BY <1>1 DEF BCmp, At, Fetched
<1>3. pc' \in Nat /\ Tick
      /\ status' \in {"run", "halt", "fail", "panic"} \cup RunError
  BY <1>2, GotoNext, BacktrackType
<1> QED
  BY <1>2, <1>3, ControlOnly

(* B_WRITE and B_NL change only the output.                                *)
LEMMA WriteType == ASSUME TypeOK, BWrite \/ BNl PROVE TypeOK'
<1>1. /\ Running /\ Goto(pc + 1)
      /\ UNCHANGED <<cp, regs, store, choice, frames, stream>>
  BY DEF BWrite, BNl, At, Fetched
<1>2. StoreTyped /\ mode' \in {"read", "write"} /\ up' \in Nat \ {0}
      /\ regs' \in [Reg -> Cell]
  BY <1>1 DEF StoreTyped, store, stream, TypeOK
<1> QED
  BY <1>1, <1>2, StraightType

-----------------------------------------------------------------------------
(* Frames.                                                                 *)

(* The action of FramesSurvive.                                            *)
FramesKept ==
  /\ Len(env') >= Len(env)
  /\ \A i \in 1 .. Len(env) : /\ env'[i].cp = env[i].cp
                              /\ Len(env'[i].ys) = Len(env[i].ys)

(* Only seven instructions touch frames or choice points.                  *)
LEMMA FramesAlone ==
  ASSUME [Next]_vars,
         ~(\/ Try \/ Retry \/ Trust \/ Cut \/ Allocate \/ Deallocate \/ GetYVar)
  PROVE  UNCHANGED <<choice, env, ep>>
<1>1. CASE Refuse
  BY <1>1 DEF Refuse, OutOfTicks, PcOutOfBounds, UnsupportedOpcode, BadRegister, frames
<1>2. CASE Control
  BY <1>2 DEF Control, Nop, Halt, Call, Execute, Proceed, Fail, EmptyChoiceStack, frames
<1>3. CASE Arguments
  BY <1>3 DEF Arguments, PutVar, PutVal, PutConst, GetVar, GetConst, GetVal, frames
<1>4. CASE Unification
  BY <1>4 DEF Unification, UnifyDeref, UnifyEqual, UnifyBind, UnifyDangling,
     UnifyStruct, UnifyMismatch, UnifyDone, frames
<1>5. CASE Structures
  BY <1>5 DEF Structures, GetStructRead, GetStructWrite, GetStructDangling,
     GetStructMismatch, StreamEnd, UnifyVarRead, UnifyVarWrite, UnifyVal, UnifyConst,
     UnifyStream, WriteStream, frames
<1>6. CASE Environments
  BY <1>6 DEF Environments, PutYVal, EmptyEnvStack, BadYSlot, frames
<1>7. CASE Builtins
  BY <1>7 DEF Builtins, BIsAdd, BIsSub, BIs, BLt, BGt, BCmp, ArithNotInt, BWrite,
     BNl, IoError, frames
<1>8. CASE UNCHANGED vars
  BY <1>8 DEF vars
<1> QED
  BY <1>1, <1>2, <1>3, <1>4, <1>5, <1>6, <1>7, <1>8 DEF Next, Step, Stopped

(***************************************************************************)
(* Frames are added at the end and never removed, so that what ep and the  *)
(* choice points name keeps existing.                                      *)
(***************************************************************************)
LEMMA FrameStep ==
  ASSUME TypeOK, FramesExist, [Next]_vars
  PROVE  FramesExist' /\ FramesKept
<1>1. Len(env) \in Nat /\ Len(choice) \in Nat
  BY LenProperties DEF TypeOK
<1>2. CASE ~(\/ Try \/ Retry \/ Trust \/ Cut \/ Allocate \/ Deallocate \/ GetYVar)
  <2>1. UNCHANGED <<choice, env, ep>>
    BY <1>2, FramesAlone
  <2> QED
    BY <2>1, <1>1 DEF FramesExist, FramesKept
<1>3. CASE Try
  <2> DEFINE c == [regs |-> [r \in AReg |-> regs[r]], alt |-> Imm[2], cp |-> cp,
                   hp |-> Len(heap), tr |-> Len(trail), ep |-> ep]
  <2>1. choice' = Append(choice, c) /\ c.ep = ep /\ UNCHANGED <<env, ep>>
    BY <1>3 DEF Try, frames
  <2> HIDE DEF c
  <2>2. choice \in Seq(ChoicePt \cup {c}) /\ c \in ChoicePt \cup {c}
    BY SeqMonotonic DEF TypeOK
  <2>3. /\ Len(choice') = Len(choice) + 1
        /\ \A i \in 1 .. Len(choice) : choice'[i] = choice[i]
        /\ choice'[Len(choice) + 1] = c
    BY <2>1, <2>2, AppendProperties
  <2> QED
    BY <1>1, <2>1, <2>3 DEF FramesExist, FramesKept
<1>4. CASE Retry \/ Trust
  <2>1. choice # <<>> /\ ep' = Top.ep /\ UNCHANGED env
    BY <1>4 DEF Retry, Trust, RestoreTop, Restore
  <2>2. ep' \in 0 .. Len(env)
    BY <2>1, TopType DEF FramesExist, Top
  <2>3. /\ Len(choice') \in 0 .. Len(choice)
        /\ \A i \in 1 .. Len(choice') : choice'[i].ep = choice[i].ep
    <3>1. CASE Retry
      BY <1>1, <3>1, RetryLeaves
    <3>2. CASE Trust
      BY <1>1, <2>1, <3>2, TrustLeaves, TopType
    <3> QED
      BY <1>4, <3>1, <3>2
  <2> QED
    BY <1>1, <2>1, <2>2, <2>3 DEF FramesExist, FramesKept
<1>5. CASE Cut
  <2>1. choice' = <<>> /\ UNCHANGED <<env, ep>>
    BY <1>5 DEF Cut, frames
  <2>2. Len(choice') = 0
    BY <2>1, EmptySeq
  <2> QED
    BY <1>1, <2>1, <2>2 DEF FramesExist, FramesKept
<1>6. CASE Allocate
  <2>1. UNCHANGED choice
    BY <1>6 DEF Allocate
  <2> QED
    BY <1>1, <1>6, <2>1, AllocateFrames DEF FramesExist, FramesKept
<1>7. CASE Deallocate
  <2>1. ep > 0 /\ ep' = ep - 1 /\ UNCHANGED <<choice, env>>
    BY <1>7 DEF Deallocate
  <2> QED
    BY <1>1, <2>1 DEF FramesExist, FramesKept
<1>8. CASE GetYVar
  <2>1. UNCHANGED <<choice, ep>>
    BY <1>8 DEF GetYVar
  <2> QED
    BY <1>1, <1>8, <2>1, GetYVarFrames DEF FramesExist, FramesKept
<1> QED
  BY <1>2, <1>3, <1>4, <1>5, <1>6, <1>7, <1>8

-----------------------------------------------------------------------------
(* The invariant.                                                          *)

IInv == TypeOK /\ FramesExist /\ SP!IInv

(* The invariant holds at the start.                                       *)
LEMMA InitIInv == Init => IInv
<1> SUFFICES ASSUME Init
             PROVE  IInv
  OBVIOUS
<1>1. SP!IInv
  BY StoreInit, SP!InitIInv
<1>2. ZeroWord \in Cell
  BY DEF ZeroWord, Ref, Cell
<1>3. regs \in [Reg -> Cell]
  BY <1>2 DEF Init
<1>4. TypeOK
  BY <1>3, TickAssumption, EmptySeq DEF Init, TypeOK
<1>5. FramesExist
  BY EmptySeq DEF Init, FramesExist
<1> QED
  BY <1>1, <1>4, <1>5 DEF IInv

(* Every step preserves the types, given those of heap and trail.          *)
LEMMA TypeStep ==
  ASSUME TypeOK, FramesExist, StoreTyped, [Next]_vars
  PROVE  TypeOK'
<1>1. CASE Refuse
  BY <1>1, OutOfTicksType, RefuseType, BadRegisterType DEF Refuse
<1>2. CASE Control
  BY <1>2, JumpType, CallType, TryType, RetryTrustType, RefuseType, CutType DEF Control
<1>3. CASE Arguments
  BY <1>3, PutGetType, GetType DEF Arguments
<1>4. CASE Unification
  BY <1>4, UnificationType
<1>5. CASE Structures
  BY <1>5, GetStructType, JumpType, UnifyVarType, UnifyArgType DEF Structures
<1>6. CASE Environments
  BY <1>6, EnvironmentType, RefuseType DEF Environments
<1>7. CASE Builtins
  BY <1>7, ArithmeticType, CompareType, WriteType, RefuseType DEF Builtins
<1>8. CASE UNCHANGED vars
  BY <1>8 DEF vars, TypeOK
<1> QED
  BY <1>1, <1>2, <1>3, <1>4, <1>5, <1>6, <1>7, <1>8 DEF Next, Step, Stopped

(* Every step preserves it.                                                *)
LEMMA NextIInv == IInv /\ [Next]_vars => IInv'
<1> SUFFICES ASSUME IInv, [Next]_vars
             PROVE  IInv'
  OBVIOUS
<1>1. SP!IInv'
  BY StoreStep, SP!NextIInv DEF IInv
<1>2. StoreTyped
  BY <1>1, SameCells DEF SP!IInv, SP!TypeOK, StoreTyped
<1>3. TypeOK'
  BY <1>2, TypeStep DEF IInv
<1>4. FramesExist'
  BY FrameStep DEF IInv
<1> QED
  BY <1>1, <1>3, <1>4 DEF IInv

(* The inductive invariant holds in every reachable state.                 *)
THEOREM InvariantHolds == Spec => []IInv
  BY InitIInv, NextIInv, PTL DEF Spec

(* Every reachable state of the machine is well typed, for every program.  *)
THEOREM TypeCorrect == Spec => []TypeOK
<1>1. IInv => TypeOK
  BY DEF IInv
<1> QED
  BY <1>1, InvariantHolds, PTL

(***************************************************************************)
(* No instruction reaches for a frame that was never allocated, and none   *)
(* that a choice point names has gone: env[ep - 1] of the code is always   *)
(* within bounds when ep > 0.                                              *)
(***************************************************************************)
THEOREM FramesAlwaysExist == Spec => []FramesExist
<1>1. IInv => FramesExist
  BY DEF IInv
<1> QED
  BY <1>1, InvariantHolds, PTL

(***************************************************************************)
(* What the comment at refvm/mod.rs:93 promises: frames outlive            *)
(* DEALLOCATE, cut and backtracking.                                       *)
(***************************************************************************)
THEOREM FramesAreKept == Spec => FramesSurvive
<1>1. IInv /\ [Next]_vars => [FramesKept]_vars
  BY FrameStep DEF IInv
<1> QED
  BY <1>1, InvariantHolds, PTL DEF Spec, FramesSurvive, FramesKept

(* The store of the machine is a TrailStore.                               *)
THEOREM StoreRefinement == Spec => SP!Spec
<1>1. IInv /\ [Next]_vars => [SP!Next]_(SP!vars)
  BY StoreStep DEF IInv
<1> QED
  BY <1>1, StoreInit, InvariantHolds, PTL DEF Spec, SP!Spec

(* For every program, unwinding stays within the heap, cell by cell once.  *)
THEOREM TrailIsSound == Spec => []TrailSound
<1>1. IInv => TrailSound
  BY SameCells DEF IInv, SP!IInv, SP!TrailSound, TrailSound, Store!TrailSound,
     Store!Ref, SP!Ref
<1> QED
  BY <1>1, InvariantHolds, PTL

(* For every program, choice points nest.                                  *)
THEOREM MarksAreNested == Spec => []MarksNested
<1>1. IInv => MarksNested
  BY DEF IInv, SP!IInv, SP!MarksNested, MarksNested, Store!MarksNested
<1> QED
  BY <1>1, InvariantHolds, PTL

(***************************************************************************)
(* RETRY and TRUST restore exactly the memory of the time of the TRY: for  *)
(* every program, the machine implements the store with copies.            *)
(***************************************************************************)
THEOREM Refinement == Spec => ImplementsSnapshots
<1>1. SP!Recovered = Store!Recovered
  BY DEF SP!Recovered, Store!Recovered, SP!Undo, Store!Undo, SP!Trailed,
     Store!Trailed, SP!Ref, Store!Ref
<1>2. SP!Snap!Init => Store!Snap!Init
  BY <1>1 DEF SP!Snap!Init, Store!Snap!Init
<1>3. [SP!Snap!Next]_(SP!Snap!storeVars) => [Store!Snap!Next]_(Store!Snap!storeVars)
  <2>1. SP!Recovered' = Store!Recovered'
    BY DEF SP!Recovered, Store!Recovered, SP!Undo, Store!Undo, SP!Trailed,
       Store!Trailed, SP!Ref, Store!Ref
  <2>2. SP!Snap!Next => Store!Snap!Next
    BY <1>1, <2>1 DEF SP!Snap!Next, Store!Snap!Next, SP!Snap!Work, Store!Snap!Work,
       SP!Snap!Save, Store!Snap!Save, SP!Snap!Restore, Store!Snap!Restore,
       SP!Snap!RestoreAndPop, Store!Snap!RestoreAndPop, SP!Snap!Commit,
       Store!Snap!Commit, SP!Snap!Ref, Store!Snap!Ref
  <2> QED
    BY <1>1, <2>1, <2>2 DEF SP!Snap!storeVars, Store!Snap!storeVars
<1>4. SP!Spec => SP!ImplementsSnapshots
  BY SP!Refinement
<1> QED
  BY <1>2, <1>3, <1>4, StoreRefinement, PTL
     DEF SP!ImplementsSnapshots, ImplementsSnapshots, SP!Snap!Spec, Store!Snap!Spec
=============================================================================
