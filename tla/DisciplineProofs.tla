-------------------------- MODULE DisciplineProofs ---------------------------
(***************************************************************************)
(* LamVMHeapProofs shows what follows when no stale or cleared register is *)
(* read.  Here: code that respects the discipline never does, whatever it  *)
(* computes, as long as the Y slots it reads are sound (SlotsPoint).  The  *)
(* invariant is Ready.  It says of the registers the code will read, of    *)
(* those choice points saved for their alternatives, and of the places     *)
(* calls return to, what Respects says of the code.                        *)
(***************************************************************************)
EXTENDS Discipline, LamVMHeapProofs

(* The sets of the program that runs.                                      *)
Need == Needed(code)

(* A cell that refers to nothing, or into a heap of n cells.               *)
Points(n, c) == Tag(c) \in {"REF", "STR"} => Val(c) \in 1 .. n

Going == status \in {"run", "unify"}

(* What the code from pc on needs is in the registers.                     *)
RegsReady == Going => \A r \in InRegs(code, Need, pc) : Points(Len(heap), regs[r])

(* Code that needs saved registers was come to by backtracking.            *)
CameBack ==
  Going /\ InChoice(code, Need, pc) # {} => choice # <<>> /\ Top.alt = pc

(* A choice point saved what its alternative needs.                        *)
ChoicesReady ==
  \A k \in 1 .. Len(choice) :
    /\ InRegs(code, Need, choice[k].alt) = {}
    /\ \A r \in InChoice(code, Need, choice[k].alt) :
         Points(choice[k].hp, choice[k].regs[r])

(* Nothing is needed where a call returns to.                              *)
ReturnsClean ==
  /\ At0(Need, cp) = {}
  /\ \A k \in 1 .. Len(choice) : At0(Need, choice[k].cp) = {}
  /\ \A f \in 1 .. Len(env) : At0(Need, env[f].cp) = {}

(* unify works for the instruction at pc.                                  *)
Callers == {"GET_CONST", "GET_VAL", "UNIFY_VAL", "UNIFY_CONST"}

CalledByUnifier == status = "unify" => pc \in DOMAIN code /\ Op \in Callers

Ready ==
  /\ Disciplined
  /\ RegsReady /\ CameBack /\ ChoicesReady /\ ReturnsClean /\ CalledByUnifier

-----------------------------------------------------------------------------
(* What the discipline says of the instruction at pc.                      *)

(* An instruction that is dispatched is a word of the code.                *)
LEMMA Dispatched ==
  ASSUME TypeOK, NEW op \in Opcodes, At(op)
  PROVE  /\ pc \in DOMAIN code /\ code[pc] = Word /\ Word[1] = op /\ status = "run"
         /\ op \in TwoCell => Jump(code, pc) = {Imm[2]}
<1>1. /\ pc \in 1 .. Len(code) /\ Op = op /\ status = "run"
      /\ op \in TwoCell => pc < Len(code)
  BY DEF At, Fetched, Running, HasImm
<1>2. code \in Seq(CodeWord)
  BY CodeWellFormed DEF WellFormed
<1>3. DOMAIN code = 1 .. Len(code) /\ Len(code) \in Nat
  BY <1>2, LenProperties
<1> QED
  BY <1>1, <1>3 DEF Word, Op, Imm, Jump

(* What an instruction needs is what it reads, and what is needed where it *)
(* goes on and was not written; saved registers are needed there by none.  *)
LEMMA NeedsHere ==
  ASSUME Disciplined, pc \in DOMAIN code, Op \in Opcodes
  PROVE  /\ Reads(Word) \subseteq Need[pc]
         /\ \A m \in Goes(code, pc) : /\ InRegs(code, Need, m) \subseteq Need[pc] \cup Writes(Word)
                                      /\ InChoice(code, Need, m) = {}
         /\ \A m \in Alternatives(code, pc) : /\ InRegs(code, Need, m) = {}
                                              /\ InChoice(code, Need, m) \subseteq Need[pc]
         /\ At0(Need, pc) = Need[pc] /\ Need[pc] \subseteq Reg
<1>1. Need \in [DOMAIN code -> SUBSET Reg]
  BY DEF Disciplined, Respects, Need
<1>2. Requires(code, Need, pc) \subseteq Need[pc]
  BY DEF Disciplined, Respects, Need
<1>3. \A m \in Goes(code, pc) : InChoice(code, Need, m) = {}
  BY DEF Disciplined, Respects, Need, Op, Word
<1>4. \A m \in Alternatives(code, pc) : InRegs(code, Need, m) = {}
  BY DEF Disciplined, Respects, Need
<1>5. /\ Reads(Word) \subseteq Need[pc]
      /\ \A m \in Goes(code, pc) : InRegs(code, Need, m) \subseteq Need[pc] \cup Writes(Word)
      /\ \A m \in Alternatives(code, pc) : At0(Need, m) \subseteq Need[pc]
  <2> DEFINE R == Reads(code[pc])
             G == UNION {InRegs(code, Need, m) : m \in Goes(code, pc)}
             W == Writes(code[pc])
             A == UNION {At0(Need, m) : m \in Alternatives(code, pc)}
  <2>1. Requires(code, Need, pc) = R \cup (G \ W) \cup A
    BY DEF Requires, Op, Word
  <2>2. /\ \A m \in Goes(code, pc) : InRegs(code, Need, m) \subseteq G
        /\ \A m \in Alternatives(code, pc) : At0(Need, m) \subseteq A
    OBVIOUS
  <2> HIDE DEF G, A, R, W
  <2>3. /\ R \subseteq Need[pc] /\ G \subseteq Need[pc] \cup W /\ A \subseteq Need[pc]
    BY <1>2, <2>1
  <2>4. R = Reads(Word) /\ W = Writes(Word)
    BY DEF R, W, Word
  <2> QED
    BY <2>2, <2>3, <2>4
<1> QED
  BY <1>1, <1>3, <1>4, <1>5 DEF At0, InChoice

(* Where nothing is needed it is needed neither way.                       *)
LEMMA CleanPlace ==
  ASSUME NEW n, At0(Need, n) = {}
  PROVE  InRegs(code, Need, n) = {} /\ InChoice(code, Need, n) = {}
BY DEF InRegs, InChoice

(* The program stays, and with it what it needs.                           *)
LEMMA ProgramStays ==
  ASSUME UNCHANGED code
  PROVE  Need' = Need /\ (Disciplined => Disciplined')
BY DEF Need, Disciplined

-----------------------------------------------------------------------------
(* How control moves.                                                      *)

(* The registers an instruction leaves: those it writes point into the     *)
(* heap, the others point there or are as before.                          *)
LeavesRegs ==
  /\ UNCHANGED code /\ Len(heap) \in Nat /\ Len(heap') \in Nat /\ Len(heap) <= Len(heap')
  /\ \A r \in Reg : \/ Points(Len(heap'), regs'[r])
                    \/ r \notin Writes(Word) /\ regs'[r] = regs[r]

Lands == RegsReady' /\ CameBack'

(* To the next instruction, or the one called.                             *)
LEMMA GoesOn ==
  ASSUME Disciplined, RegsReady, Going, pc \in DOMAIN code,
         Op \in Opcodes \ {"RETRY", "TRUST"}, pc' \in Goes(code, pc), LeavesRegs
  PROVE  Lands
<1>1. Need' = Need /\ code' = code
  BY ProgramStays DEF LeavesRegs
<1>2. /\ InRegs(code, Need, pc) = Need[pc] /\ Need[pc] \subseteq Reg
      /\ InRegs(code, Need, pc') \subseteq Need[pc] \cup Writes(Word)
      /\ InChoice(code, Need, pc') = {}
  BY NeedsHere DEF InRegs, Restoring, Op, Word
<1>3. \A r \in InRegs(code, Need, pc') : r \in Reg
  BY DEF Disciplined, Respects, Need, InRegs, At0
<1>4. ASSUME NEW r \in InRegs(code, Need, pc')
      PROVE  Points(Len(heap'), regs'[r])
  <2>1. CASE r \notin Writes(Word) /\ regs'[r] = regs[r]
    <3>1. Points(Len(heap), regs[r])
      BY <1>2, <2>1 DEF RegsReady
    <3> QED
      BY <2>1, <3>1 DEF Points, LeavesRegs
  <2> QED
    BY <1>3, <2>1 DEF LeavesRegs
<1> QED
  BY <1>1, <1>2, <1>4 DEF Lands, RegsReady, CameBack

(* To a place where nothing is needed.                                     *)
LEMMA GoesClean ==
  ASSUME UNCHANGED code, At0(Need, pc') = {}
  PROVE  Lands
<1>1. Need' = Need /\ code' = code
  BY ProgramStays
<1> QED
  BY <1>1 DEF Lands, RegsReady, CameBack, InRegs, InChoice

(* To the alternative of the newest choice point, or to the end.           *)
LEMMA ComesBack ==
  ASSUME TypeOK, Ready, UNCHANGED <<code, choice>>, NoMoreChoices \/ NextChoice
  PROVE  Lands /\ CalledByUnifier'
<1>1. Need' = Need /\ code' = code /\ choice' = choice
  BY ProgramStays
<1>2. CASE NoMoreChoices
  BY <1>2 DEF NoMoreChoices, Lands, RegsReady, CameBack, CalledByUnifier, Going
<1>3. CASE NextChoice
  <2>1. choice # <<>> /\ status' = "run" /\ pc' = Top.alt
    BY <1>3 DEF NextChoice
  <2>2. InRegs(code, Need, Top.alt) = {}
    BY <2>1, TopType DEF Ready, ChoicesReady, Top
  <2>3. Top' = Top
    BY <1>1 DEF Top
  <2> QED
    BY <1>1, <2>1, <2>2, <2>3 DEF Lands, RegsReady, CameBack, CalledByUnifier
<1> QED
  BY <1>2, <1>3

(* To no instruction: the machine has stopped.                             *)
LEMMA Stops ==
  ASSUME status' \notin {"run", "unify"}
  PROVE  Lands /\ CalledByUnifier'
BY DEF Lands, RegsReady, CameBack, CalledByUnifier, Going

(* What is kept besides, when the choice points stay or are cut, and the   *)
(* frames stay or one more is pushed.                                      *)
LEMMA Keeps ==
  ASSUME TypeOK, Ready, UNCHANGED code, UNCHANGED choice \/ choice' = <<>>,
         At0(Need, cp') = {},
         \A f \in 1 .. Len(env') : At0(Need, env'[f].cp) = {}
  PROVE  Disciplined' /\ ChoicesReady' /\ ReturnsClean'
<1>1. Need' = Need /\ code' = code /\ Disciplined'
  BY ProgramStays DEF Ready
<1>2. Len(<<>>) = 0
  BY EmptySeq
<1>3. \A k \in 1 .. Len(choice') : choice'[k] = choice[k] /\ k \in 1 .. Len(choice)
  BY <1>2
<1> QED
  BY <1>1, <1>3 DEF Ready, ChoicesReady, ReturnsClean

(* The same, when no return address changes.                               *)
LEMMA KeepsReturns ==
  ASSUME TypeOK, Ready, UNCHANGED <<code, cp, env>>, UNCHANGED choice \/ choice' = <<>>
  PROVE  Disciplined' /\ ChoicesReady' /\ ReturnsClean'
BY Keeps DEF Ready, ReturnsClean

-----------------------------------------------------------------------------
(* The registers after a step.                                             *)

LEMMA PointsGrows ==
  ASSUME NEW n \in Nat, NEW m \in Nat, n <= m, NEW c, Points(n, c)
  PROVE  Points(m, c)
BY DEF Points

(* Values, functors and cells of the heap.                                 *)
LEMMA PointingCells ==
  ASSUME NEW n \in Nat
  PROVE  /\ \A c \in Constant : Points(n, c)
         /\ \A m : Points(n, Int21(m))
         /\ \A a \in 1 .. n : Points(n, Ref(a)) /\ Points(n, Str(a))
BY DEF Points, Constant, Int21, Ref, Str, Tag, Val

(* A step that writes no register, of an instruction that writes none.     *)
LEMMA SameRegs ==
  ASSUME IInv, UNCHANGED <<code, regs>>, Len(heap') \in Nat, Len(heap) <= Len(heap'),
         Writes(Word) = {}
  PROVE  LeavesRegs
BY StoreFacts DEF LeavesRegs

(* A step that writes what points into the heap.                           *)
LEMMA LoadedRegs ==
  ASSUME IInv, UNCHANGED code, Len(heap') \in Nat, Len(heap) <= Len(heap'),
         NEW r1, NEW r2, NEW c, Points(Len(heap'), c), Writes(Word) \subseteq {r1, r2},
         regs' = [regs EXCEPT ![r1] = c, ![r2] = c]
  PROVE  LeavesRegs
<1>1. regs \in [Reg -> Cell]
  BY DEF IInv, TypeOK
<1>2. \A r \in Reg : IF r \in {r1, r2} THEN regs'[r] = c ELSE regs'[r] = regs[r]
  BY <1>1
<1> QED
  BY <1>2, StoreFacts DEF LeavesRegs

(* What an instruction reads points into the heap.                         *)
LEMMA ReadPoints ==
  ASSUME IInv, Ready
  PROVE  /\ \A op \in ReadsOp1 : At(op) => Points(Len(heap), regs[Word[2]])
         /\ \A op \in ReadsOp2 : At(op) => Points(Len(heap), regs[Word[3]])
<1>1. ASSUME NEW op \in ReadsOp1 \cup ReadsOp2, At(op), NEW r \in Reads(Word)
      PROVE  Points(Len(heap), regs[r])
  <2>1. op \in Opcodes \ {"RETRY", "TRUST"}
    BY DEF ReadsOp1, ReadsOp2, Opcodes, OneCell, TwoCell
  <2>2. pc \in DOMAIN code /\ Op = op /\ code[pc][1] = op /\ status = "run"
    BY <1>1, <2>1, Dispatched DEF IInv, Op
  <2>3. r \in InRegs(code, Need, pc)
    BY <2>1, <2>2, NeedsHere DEF Ready, InRegs, Restoring
  <2> QED
    BY <2>2, <2>3 DEF Ready, RegsReady, Going
<1>2. ASSUME NEW op \in ReadsOp1, At(op)
      PROVE  Word[2] \in Reads(Word)
  <2>1. op \in Opcodes \cap Op1IsReg
    BY DEF ReadsOp1, Opcodes, OneCell, TwoCell, Op1IsReg
  <2>2. Word[2] \in Reg /\ Word[1] = op
    BY <1>2, <2>1, Operands DEF IInv, Op
  <2> QED
    BY <2>2 DEF Reads, ReadsOp1, ReadsOp2
<1>3. ASSUME NEW op \in ReadsOp2, At(op)
      PROVE  Word[3] \in Reads(Word)
  <2>1. op \in Opcodes \cap Op2IsReg
    BY DEF ReadsOp2, Opcodes, OneCell, TwoCell, Op2IsReg
  <2>2. Word[3] \in Reg /\ Word[1] = op
    BY <1>3, <2>1, Operands DEF IInv, Op
  <2> QED
    BY <2>2 DEF Reads, ReadsOp1, ReadsOp2
<1> QED
  BY <1>1, <1>2, <1>3

(***************************************************************************)
(* The invariant and sound slots give what LamVMHeapProofs starts from.    *)
(***************************************************************************)
LEMMA ReadyReads ==
  ASSUME IInv, Ready, SlotsPoint
  PROVE  NoStaleReads /\ NoColdReads
<1>1. \A c : Points(Len(heap), c) => ~Stale(c)
  BY DEF Points, Stale
<1>2. NoStaleReads
  <2>1. At("PUT_Y_VAL") /\ ep > 0 /\ HasSlot => ~Stale(env[ep].ys[Word[2] + 1])
    <3> DEFINE c == env[ep].ys[Word[2] + 1]
    <3>1. At("PUT_Y_VAL") /\ ep > 0 /\ HasSlot => Points(Len(heap), c)
      BY DEF SlotsPoint, Points
    <3> HIDE DEF c
    <3>2. At("PUT_Y_VAL") /\ ep > 0 /\ HasSlot => ~Stale(c)
      BY <1>1, <3>1
    <3> QED
      BY <3>2 DEF c
  <2> QED
    BY <1>1, <2>1, ReadPoints DEF NoStaleReads
<1>3. NoColdReads
  <2>1. heap = <<>> => Len(heap) = 0
    BY EmptySeq
  <2>2. ~Points(0, ZeroWord)
    BY DEF Points, ZeroWord, Ref, Tag, Val
  <2>3. At("GET_CONST") \/ At("GET_VAL") => Points(Len(heap), regs[Word[2]])
    BY ReadPoints DEF ReadsOp1
  <2>4. At("GET_VAL") => Points(Len(heap), regs[Word[3]])
    BY ReadPoints DEF ReadsOp2
  <2> QED
    BY <2>1, <2>2, <2>3, <2>4 DEF NoColdReads
<1> QED
  BY <1>2, <1>3

-----------------------------------------------------------------------------
(* The steps of the machine.                                               *)

(* Refusals, HALT and panics: the run is over.                             *)
LEMMA StoppingSteps ==
  ASSUME IInv, Ready,
         \/ OutOfTicks \/ PcOutOfBounds \/ UnsupportedOpcode \/ BadRegister \/ Halt
         \/ EmptyChoiceStack \/ UnifyDangling \/ GetStructDangling \/ EmptyEnvStack
         \/ BadYSlot \/ ArithNotInt \/ IoError
  PROVE  Ready'
<1>1. UNCHANGED <<code, cp, choice, env>>
  BY DEF OutOfTicks, PcOutOfBounds, UnsupportedOpcode, BadRegister, Halt, EmptyChoiceStack,
     UnifyDangling, GetStructDangling, EmptyEnvStack, BadYSlot, ArithNotInt, IoError, Stop,
     Tick, program, frames
<1>2. status' \notin {"run", "unify"}
  BY DEF OutOfTicks, PcOutOfBounds, UnsupportedOpcode, BadRegister, Halt, EmptyChoiceStack,
     UnifyDangling, GetStructDangling, EmptyEnvStack, BadYSlot, ArithNotInt, IoError, Stop
<1>3. Disciplined' /\ ChoicesReady' /\ ReturnsClean'
  BY <1>1, KeepsReturns DEF IInv
<1> QED
  BY <1>2, <1>3, Stops DEF Ready, Lands

(* A step that backtracks.                                                 *)
LEMMA Backtracks ==
  ASSUME IInv, Ready, NoMoreChoices \/ NextChoice, UNCHANGED <<code, cp, choice, env>>
  PROVE  Ready'
<1>1. Disciplined' /\ ChoicesReady' /\ ReturnsClean'
  BY KeepsReturns DEF IInv
<1> QED
  BY <1>1, ComesBack DEF Ready, Lands, IInv

LEMMA BacktrackingSteps ==
  ASSUME IInv, Ready,
         \/ Fail \/ GetStructMismatch \/ StreamEnd \/ UnifyMismatch
         \/ (BLt \/ BGt) /\ Backtrack
  PROVE  Ready'
<1>1. NoMoreChoices \/ NextChoice
  BY DEF Fail, GetStructMismatch, StreamEnd, UnifyMismatch, Backtrack
<1>2. UNCHANGED <<code, cp, choice, env>>
  BY DEF Fail, GetStructMismatch, StreamEnd, UnifyMismatch, BLt, BGt, BCmp, Backtrack, Tick,
     program, frames
<1> QED
  BY <1>1, <1>2, Backtracks

(* An instruction that goes on with the next one.                          *)
Straight == Opcodes \ {"RETRY", "TRUST", "CALL", "EXECUTE", "PROCEED", "HALT", "FAIL"}

LEMMA Advances ==
  ASSUME IInv, Ready, NEW op \in Straight, At(op),
         Goto(IF op \in TwoCell THEN pc + 2 ELSE pc + 1), LeavesRegs,
         UNCHANGED choice \/ choice' = <<>>,
         At0(Need, cp') = {}, \A f \in 1 .. Len(env') : At0(Need, env'[f].cp) = {}
  PROVE  Ready'
<1>1. /\ pc \in DOMAIN code /\ Word = code[pc] /\ Word[1] = op /\ status = "run"
      /\ Op = op /\ op \in Opcodes
  BY Dispatched DEF Straight, IInv, Op
<1>2. pc' \in Goes(code, pc) /\ UNCHANGED <<code, status>>
  BY <1>1 DEF Goto, Tick, program, Goes, Straight
<1>3. Lands
  BY <1>1, <1>2, GoesOn DEF Ready, Straight, Going
<1>4. Disciplined' /\ ChoicesReady' /\ ReturnsClean'
  BY <1>2, Keeps DEF IInv
<1> QED
  BY <1>1, <1>2, <1>3, <1>4 DEF Ready, Lands, CalledByUnifier

(* The same, when cp, frames and choice points stay.                       *)
LEMMA AdvancesPlainly ==
  ASSUME IInv, Ready, NEW op \in Straight, At(op),
         Goto(IF op \in TwoCell THEN pc + 2 ELSE pc + 1), LeavesRegs,
         UNCHANGED <<cp, choice, env>>
  PROVE  Ready'
BY Advances DEF Ready, ReturnsClean

(* Instructions without an effect on registers, frames or choice points.   *)
LEMMA PlainSteps ==
  ASSUME IInv, Ready,
         \/ Nop \/ GetStructRead \/ BWrite \/ BNl
         \/ (BLt \/ BGt) /\ ~Backtrack
         \/ (UnifyVal \/ UnifyConst) /\ mode = "write"
  PROVE  Ready'
<1>1. Len(heap) \in Nat
  BY StoreFacts
<1>2. ASSUME NEW op \in {"NOP", "GET_STRUCT", "B_WRITE", "B_NL", "B_LT", "B_GT", "UNIFY_VAL",
                        "UNIFY_CONST"},
             At(op), Goto(IF op \in TwoCell THEN pc + 2 ELSE pc + 1),
             UNCHANGED <<regs, cp, choice, env>>, Len(heap') \in Nat, Len(heap) <= Len(heap')
      PROVE  Ready'
  <2>1. op \in Straight /\ Word[1] = op
    BY <1>2 DEF Straight, Opcodes, OneCell, TwoCell, At, Op
  <2>2. Writes(Word) = {}
    BY <2>1 DEF Writes
  <2>3. UNCHANGED code
    BY <1>2 DEF Goto, Tick, program
  <2>4. LeavesRegs
    BY <1>2, <2>2, <2>3, SameRegs
  <2> QED
    BY <1>2, <2>1, <2>4, AdvancesPlainly
<1>3. CASE Nop
  <2>1. At("NOP") /\ Goto(pc + 1) /\ UNCHANGED <<regs, heap, cp, choice, env>>
    BY <1>3 DEF Nop, store, frames
  <2> QED
    BY <1>1, <1>2, <2>1 DEF TwoCell
<1>4. CASE GetStructRead
  <2>1. At("GET_STRUCT") /\ Goto(pc + 2) /\ UNCHANGED <<regs, heap, cp, choice, env>>
    BY <1>4 DEF GetStructRead, store, frames
  <2> QED
    BY <1>1, <1>2, <2>1 DEF TwoCell
<1>5. CASE BWrite \/ BNl
  <2>1. /\ At("B_WRITE") \/ At("B_NL")
        /\ Goto(pc + 1) /\ UNCHANGED <<regs, heap, cp, choice, env>>
    BY <1>5 DEF BWrite, BNl, store, frames
  <2> QED
    BY <1>1, <1>2, <2>1 DEF TwoCell
<1>6. CASE (BLt \/ BGt) /\ ~Backtrack
  <2>1. /\ At("B_LT") \/ At("B_GT")
        /\ Goto(pc + 1) /\ UNCHANGED <<regs, heap, cp, choice, env>>
    BY <1>6 DEF BLt, BGt, BCmp, store, frames
  <2> QED
    BY <1>1, <1>2, <2>1 DEF TwoCell
<1>7. CASE UnifyVal /\ mode = "write"
  <2>1. At("UNIFY_VAL") /\ WriteStream(regs[Word[2]], pc + 1)
    BY <1>7 DEF UnifyVal, UnifyStream
  <2>2. regs[Word[2]] \in Cell
    BY <2>1, StreamOperands DEF IInv
  <2>3. Len(heap') = Len(heap) + 1
    BY <2>1, <2>2, StoreFacts, AppendProperties DEF WriteStream
  <2>4. Goto(pc + 1) /\ UNCHANGED <<regs, cp, choice, env>>
    BY <2>1 DEF WriteStream, frames
  <2> QED
    BY <1>1, <1>2, <2>1, <2>3, <2>4 DEF TwoCell
<1>8. CASE UnifyConst /\ mode = "write"
  <2>1. At("UNIFY_CONST") /\ WriteStream(Imm, pc + 2)
    BY <1>8 DEF UnifyConst, UnifyStream
  <2>2. Imm \in Cell
    BY <2>1, StreamOperands DEF IInv
  <2>3. Len(heap') = Len(heap) + 1
    BY <2>1, <2>2, StoreFacts, AppendProperties DEF WriteStream
  <2>4. Goto(pc + 2) /\ UNCHANGED <<regs, cp, choice, env>>
    BY <2>1 DEF WriteStream, frames
  <2> QED
    BY <1>1, <1>2, <2>1, <2>3, <2>4 DEF TwoCell
<1> QED
  BY <1>3, <1>4, <1>5, <1>6, <1>7, <1>8

(* CALL and EXECUTE.                                                       *)
LEMMA CallSteps ==
  ASSUME IInv, Ready, Call \/ Execute
  PROVE  Ready'
<1>1. PICK op \in {"CALL", "EXECUTE"} : At(op) /\ Goto(Imm[2])
  BY DEF Call, Execute
<1>2. UNCHANGED <<code, regs, heap, choice, env, status>>
  BY DEF Call, Execute, Goto, Tick, program, store, frames
<1>3. op \in Opcodes \cap TwoCell
  BY DEF Opcodes, TwoCell
<1>4. /\ pc \in DOMAIN code /\ Word = code[pc] /\ Word[1] = op /\ status = "run"
      /\ Jump(code, pc) = {Imm[2]}
  BY <1>1, <1>3, Dispatched DEF IInv
<1>5. pc' \in Goes(code, pc)
  BY <1>1, <1>4 DEF Goto, Goes
<1>6. LeavesRegs
  <2>1. Writes(Word) = {}
    BY <1>4 DEF Writes
  <2> QED
    BY <1>2, <2>1, StoreFacts, SameRegs
<1>7. Lands
  BY <1>3, <1>4, <1>5, <1>6, GoesOn DEF Ready, Going, Op
<1>8. At0(Need, cp') = {}
  <2>1. CASE Call
    <3>1. cp' = pc + 2 /\ Op = "CALL"
      BY <2>1 DEF Call, At
    <3> QED
      BY <1>4, <3>1 DEF Ready, Disciplined, Respects, Need, Op
  <2>2. CASE Execute
    BY <2>2 DEF Execute, Ready, ReturnsClean
  <2> QED
    BY <2>1, <2>2
<1>9. Disciplined' /\ ChoicesReady' /\ ReturnsClean'
  <2>1. \A f \in 1 .. Len(env') : At0(Need, env'[f].cp) = {}
    BY <1>2 DEF Ready, ReturnsClean
  <2> QED
    BY <1>2, <1>8, <2>1, Keeps DEF IInv
<1> QED
  BY <1>2, <1>4, <1>7, <1>9 DEF Ready, Lands, CalledByUnifier

(* PROCEED goes where nothing is needed.                                   *)
LEMMA ProceedStep ==
  ASSUME IInv, Ready, Proceed
  PROVE  Ready'
<1>1. pc' = cp /\ UNCHANGED <<code, cp, choice, env, status>> /\ status = "run"
  BY DEF Proceed, Goto, Tick, program, frames, At, Fetched, Running
<1>2. Lands
  BY <1>1, GoesClean DEF Ready, ReturnsClean
<1>3. Disciplined' /\ ChoicesReady' /\ ReturnsClean'
  BY <1>1, KeepsReturns DEF IInv
<1> QED
  BY <1>1, <1>2, <1>3 DEF Ready, Lands, CalledByUnifier

(* CUT and the frames.                                                     *)
LEMMA FrameSteps ==
  ASSUME IInv, Ready, Cut \/ Allocate \/ Deallocate \/ GetYVar
  PROVE  Ready'
<1>1. PICK op \in {"CUT", "ALLOCATE", "DEALLOCATE", "GET_Y_VAR"} :
        At(op) /\ Goto(pc + 1)
  BY DEF Cut, Allocate, Deallocate, GetYVar
<1>2. op \in Straight /\ op \notin TwoCell
  BY DEF Straight, Opcodes, OneCell, TwoCell
<1>3. /\ UNCHANGED <<code, regs, heap>>
      /\ UNCHANGED choice \/ choice' = <<>>
  BY DEF Cut, Allocate, Deallocate, GetYVar, Goto, Tick, program, store
<1>4. LeavesRegs
  <2>1. Writes(Word) = {}
    BY <1>1 DEF Writes, At, Op
  <2> QED
    BY <1>3, <2>1, StoreFacts, SameRegs
<1>5. At0(Need, cp') = {} /\ \A f \in 1 .. Len(env') : At0(Need, env'[f].cp) = {}
  <2>1. At0(Need, cp) = {} /\ \A f \in 1 .. Len(env) : At0(Need, env[f].cp) = {}
    BY DEF Ready, ReturnsClean
  <2>2. CASE Cut
    BY <2>1, <2>2 DEF Cut, frames
  <2>3. CASE Allocate
    <3> DEFINE e == [cp |-> cp, ys |-> [y \in 1 .. Word[2] |-> ZeroWord]]
    <3>1. env' = Append(env, e) /\ e.cp = cp /\ UNCHANGED cp
      BY <2>3 DEF Allocate
    <3>2. e \in EnvFrame /\ env \in Seq(EnvFrame)
      BY <2>3, NewFrame DEF Allocate, IInv, TypeOK
    <3> HIDE DEF e
    <3>3. /\ Len(env) \in Nat /\ Len(env') = Len(env) + 1
          /\ \A i \in 1 .. Len(env) : env'[i] = env[i]
          /\ env'[Len(env) + 1] = e
      BY <3>1, <3>2, AppendProperties, LenProperties
    <3>4. \A f \in 1 .. Len(env') : env'[f].cp = cp \/ (f \in 1 .. Len(env) /\ env'[f] = env[f])
      BY <3>1, <3>3
    <3> QED
      BY <2>1, <3>1, <3>4
  <2>4. CASE Deallocate
    <3>1. cp' = env[ep].cp /\ env' = env /\ ep > 0
      BY <2>4 DEF Deallocate
    <3>2. ep \in 1 .. Len(env)
      BY <3>1, FrameType DEF IInv
    <3> QED
      BY <2>1, <3>1, <3>2
  <2>5. CASE GetYVar
    <3>1. UNCHANGED cp
      BY <2>5 DEF GetYVar
    <3>2. Len(env') = Len(env) /\ \A i \in 1 .. Len(env) : env'[i].cp = env[i].cp
      BY <2>5, GetYVarFrames DEF IInv
    <3> QED
      BY <2>1, <3>1, <3>2
  <2> QED
    BY <2>2, <2>3, <2>4, <2>5
<1> QED
  BY <1>1, <1>2, <1>3, <1>4, <1>5, Advances

(* TRY saves what its alternative needs.                                   *)
LEMMA TryStepReady ==
  ASSUME IInv, Ready, Try
  PROVE  Ready'
<1> DEFINE c == [regs |-> [r \in AReg |-> regs[r]], alt |-> Imm[2], cp |-> cp,
                 hp |-> Len(heap), tr |-> Len(trail), ep |-> ep]
<1>1. /\ At("TRY") /\ Goto(pc + 2) /\ choice' = Append(choice, c)
      /\ UNCHANGED <<code, cp, regs, heap, env, status>>
  BY DEF Try, Goto, Tick, program, store, frames
<1>2. /\ c.alt = Imm[2] /\ c.cp = cp /\ c.hp = Len(heap)
      /\ \A r \in AReg : c.regs[r] = regs[r]
  OBVIOUS
<1> HIDE DEF c
<1>3. "TRY" \in Opcodes \cap TwoCell
  BY DEF Opcodes, TwoCell
<1>4. /\ pc \in DOMAIN code /\ Word = code[pc] /\ Word[1] = "TRY" /\ status = "run"
      /\ Jump(code, pc) = {Imm[2]} /\ Op = "TRY"
  BY <1>1, <1>3, Dispatched DEF IInv, Op
<1>5. Need' = Need /\ Disciplined'
  BY <1>1, ProgramStays DEF Ready
<1>6. Lands
  <2>1. pc' \in Goes(code, pc)
    BY <1>1, <1>4 DEF Goto, Goes, TwoCell
  <2>2. LeavesRegs
    <3>1. Writes(Word) = {}
      BY <1>4 DEF Writes
    <3> QED
      BY <1>1, <3>1, StoreFacts, SameRegs
  <2> QED
    BY <1>3, <1>4, <2>1, <2>2, GoesOn DEF Ready, Going
<1>7. /\ InRegs(code, Need, Imm[2]) = {}
      /\ \A r \in InChoice(code, Need, Imm[2]) : r \in AReg /\ Points(Len(heap), regs[r])
  <2>1. Imm[2] \in Alternatives(code, pc)
    BY <1>4 DEF Alternatives
  <2>2. /\ InRegs(code, Need, Imm[2]) = {}
        /\ InChoice(code, Need, Imm[2]) \subseteq Need[pc]
    BY <1>3, <1>4, <2>1, NeedsHere DEF Ready
  <2>3. Need[pc] = InRegs(code, Need, pc)
    BY <1>3, <1>4, NeedsHere DEF Ready, InRegs, Restoring
  <2>4. InChoice(code, Need, Imm[2]) \subseteq AReg
    BY DEF Ready, Disciplined, Respects, Need, InChoice, Restoring
  <2> QED
    BY <1>4, <2>2, <2>3, <2>4 DEF Ready, RegsReady, Going
<1>8. /\ Len(choice) \in Nat /\ Len(choice') = Len(choice) + 1
      /\ \A i \in 1 .. Len(choice) : choice'[i] = choice[i]
      /\ choice'[Len(choice) + 1] = c
  <2>1. choice \in Seq(ChoicePt \cup {c}) /\ c \in ChoicePt \cup {c}
    BY SeqMonotonic DEF IInv, TypeOK
  <2> QED
    BY <1>1, <2>1, AppendProperties, LenProperties
<1>9. \A k \in 1 .. Len(choice') : choice'[k] = c \/ (k \in 1 .. Len(choice) /\ choice'[k] = choice[k])
  BY <1>8
<1>10. ChoicesReady'
  <2> SUFFICES ASSUME NEW k \in 1 .. Len(choice')
               PROVE  /\ InRegs(code, Need, choice'[k].alt) = {}
                      /\ \A r \in InChoice(code, Need, choice'[k].alt) :
                           Points(choice'[k].hp, choice'[k].regs[r])
    BY <1>1, <1>5 DEF ChoicesReady
  <2>1. CASE choice'[k] = c
    BY <1>2, <1>7, <2>1
  <2>2. CASE k \in 1 .. Len(choice) /\ choice'[k] = choice[k]
    BY <2>2 DEF Ready, ChoicesReady
  <2> QED
    BY <1>9, <2>1, <2>2
<1>11. ReturnsClean'
  BY <1>1, <1>2, <1>5, <1>9 DEF Ready, ReturnsClean
<1> QED
  BY <1>1, <1>4, <1>5, <1>6, <1>10, <1>11 DEF Ready, Lands, CalledByUnifier

(* RETRY and TRUST put back what was saved, when it is needed.             *)
LEMMA RestoreSteps ==
  ASSUME IInv, Live, Ready, Retry \/ Trust
  PROVE  Ready'
<1> DEFINE n == Len(choice)
<1>1. PICK op \in {"RETRY", "TRUST"} :
        At(op) /\ Goto(IF op = "RETRY" THEN pc + 2 ELSE pc + 1)
  BY DEF Retry, Trust
<1>2. /\ UNCHANGED <<code, env, status>> /\ choice # <<>> /\ cp' = Top.cp
      /\ regs' = [r \in Reg |-> IF r \in AReg THEN Top.regs[r] ELSE regs[r]]
  BY DEF Retry, Trust, RestoreTop, Restore, Goto, Tick, program
<1>3. n \in 1 .. n /\ Top = choice[n] /\ Len(heap') = Top.hp
  BY <1>2, TopType, RestoreLive DEF Live, IInv, Top
<1>4. op \in Opcodes
  BY DEF Opcodes, OneCell, TwoCell
<1>5. /\ pc \in DOMAIN code /\ Word = code[pc] /\ Word[1] = op /\ Op = op /\ status = "run"
      /\ op = "RETRY" => Jump(code, pc) = {Imm[2]}
  BY <1>1, <1>4, Dispatched DEF IInv, Op, TwoCell
<1>6. Need' = Need /\ Disciplined'
  BY <1>2, ProgramStays DEF Ready
<1>7. /\ pc' \in Goes(code, pc) /\ Writes(Word) = {}
      /\ InChoice(code, Need, pc) = Need[pc]
  <2>1. pc' \in Goes(code, pc)
    BY <1>1, <1>5 DEF Goto, Goes, TwoCell
  <2>2. Writes(Word) = {}
    BY <1>5 DEF Writes
  <2>3. InChoice(code, Need, pc) = Need[pc]
    BY <1>4, <1>5, NeedsHere DEF Ready, InChoice, Restoring
  <2> QED
    BY <2>1, <2>2, <2>3
<1>8. \A r \in Need[pc] : r \in AReg /\ Points(Top.hp, Top.regs[r])
  <2> SUFFICES ASSUME NEW r \in Need[pc]
               PROVE  r \in AReg /\ Points(Top.hp, Top.regs[r])
    OBVIOUS
  <2>1. Top.alt = pc
    BY <1>5, <1>7 DEF Ready, CameBack, Going
  <2>2. r \in InChoice(code, Need, choice[n].alt)
    BY <1>3, <1>7, <2>1
  <2>3. Points(Top.hp, Top.regs[r])
    BY <1>3, <2>2 DEF Ready, ChoicesReady
  <2>4. r \in AReg
    BY <1>5, <1>7 DEF Ready, Disciplined, Respects, Need
  <2> QED
    BY <2>3, <2>4
<1>9. Lands
  <2>1. /\ InRegs(code, Need, pc') \subseteq Need[pc]
        /\ InChoice(code, Need, pc') = {}
    BY <1>4, <1>5, <1>7, NeedsHere DEF Ready
  <2>2. \A r \in AReg : regs'[r] = Top.regs[r]
    BY <1>2 DEF AReg, Reg
  <2>3. \A r \in InRegs(code, Need, pc') : Points(Len(heap'), regs'[r])
    BY <1>3, <1>8, <2>1, <2>2
  <2> QED
    BY <1>2, <1>6, <2>1, <2>3 DEF Lands, RegsReady, CameBack
<1>10. /\ Len(choice') \in 0 .. n
       /\ \A k \in 1 .. Len(choice') :
            /\ k \in 1 .. n /\ choice'[k].hp = choice[k].hp
            /\ choice'[k].regs = choice[k].regs /\ choice'[k].cp = choice[k].cp
            /\ choice'[k].alt = choice[k].alt \/ (k = n /\ Retry /\ choice'[k].alt = Imm[2])
  <2>1. CASE Retry
    BY <1>3, <2>1, RetryLeaves DEF IInv
  <2>2. CASE Trust
    <3>1. /\ Len(choice') = n - 1 /\ \A i \in 1 .. n - 1 : choice'[i] = choice[i]
      BY <2>2, TrustLeaves DEF IInv
    <3> QED
      BY <1>3, <3>1
  <2> QED
    BY <2>1, <2>2
<1>11. Retry => /\ InRegs(code, Need, Imm[2]) = {}
                /\ InChoice(code, Need, Imm[2]) \subseteq Need[pc]
  <2> HAVE Retry
  <2>1. op = "RETRY"
    BY <1>5 DEF Retry, At
  <2>2. Imm[2] \in Alternatives(code, pc)
    BY <1>5, <2>1 DEF Alternatives
  <2> QED
    BY <1>4, <1>5, <2>2, NeedsHere DEF Ready
<1>12. ChoicesReady'
  <2> SUFFICES ASSUME NEW k \in 1 .. Len(choice')
               PROVE  /\ InRegs(code, Need, choice'[k].alt) = {}
                      /\ \A r \in InChoice(code, Need, choice'[k].alt) :
                           Points(choice'[k].hp, choice'[k].regs[r])
    BY <1>2, <1>6 DEF ChoicesReady
  <2>1. CASE choice'[k].alt = choice[k].alt
    BY <1>10, <2>1 DEF Ready, ChoicesReady
  <2>2. CASE k = n /\ Retry /\ choice'[k].alt = Imm[2]
    BY <1>3, <1>8, <1>10, <1>11, <2>2
  <2> QED
    BY <1>10, <2>1, <2>2
<1>13. ReturnsClean'
  <2>1. \A k \in 1 .. Len(choice') : At0(Need, choice'[k].cp) = {}
    BY <1>10 DEF Ready, ReturnsClean
  <2>2. At0(Need, cp') = {}
    BY <1>2, <1>3 DEF Ready, ReturnsClean
  <2> QED
    BY <1>2, <1>6, <2>1, <2>2 DEF Ready, ReturnsClean
<1> QED
  BY <1>2, <1>5, <1>6, <1>9, <1>12, <1>13 DEF Ready, Lands, CalledByUnifier

-----------------------------------------------------------------------------
(* Instructions that load a register.                                      *)
Loading ==
  {"PUT_VAR", "PUT_VAL", "PUT_CONST", "GET_VAR", "UNIFY_VAR", "PUT_Y_VAL", "B_IS_ADD", "B_IS_SUB",
   "GET_STRUCT"}

LEMMA LoadsAndAdvances ==
  ASSUME IInv, Ready, NEW op \in Loading, At(op),
         Goto(IF op \in TwoCell THEN pc + 2 ELSE pc + 1), UNCHANGED <<cp, choice, env>>,
         Len(heap') \in Nat, Len(heap) <= Len(heap'),
         NEW r1, NEW r2, NEW c, Points(Len(heap'), c), Writes(Word) \subseteq {r1, r2},
         regs' = [regs EXCEPT ![r1] = c, ![r2] = c]
  PROVE  Ready'
<1>1. UNCHANGED code
  BY DEF Goto, Tick, program
<1>2. LeavesRegs
  BY <1>1, LoadedRegs
<1>3. op \in Straight
  BY DEF Loading, Straight, Opcodes, OneCell, TwoCell
<1> QED
  BY <1>2, <1>3, AdvancesPlainly

(* The same for one register.                                              *)
LEMMA LoadsOne ==
  ASSUME IInv, Ready, NEW op \in Loading, At(op),
         Goto(IF op \in TwoCell THEN pc + 2 ELSE pc + 1), UNCHANGED <<cp, choice, env>>,
         Len(heap') \in Nat, Len(heap) <= Len(heap'),
         NEW r, NEW c, Points(Len(heap'), c), Writes(Word) \subseteq {r},
         regs' = [regs EXCEPT ![r] = c]
  PROVE  Ready'
<1>1. UNCHANGED code
  BY DEF Goto, Tick, program
<1>2. LeavesRegs
  <2>1. regs \in [Reg -> Cell]
    BY DEF IInv, TypeOK
  <2>2. \A i \in Reg : regs'[i] = IF i = r THEN c ELSE regs[i]
    BY <2>1
  <2> QED
    BY <1>1, <2>2, StoreFacts DEF LeavesRegs
<1>3. op \in Straight
  BY DEF Loading, Straight, Opcodes, OneCell, TwoCell
<1> QED
  BY <1>2, <1>3, AdvancesPlainly

(* The cell that is loaded is new, a constant, or read from somewhere.     *)
LEMMA LoadingReady ==
  ASSUME IInv, Live, Ready, SlotsPoint,
         \/ PutVar \/ PutVal \/ PutConst \/ GetVar \/ UnifyVarRead \/ UnifyVarWrite
         \/ PutYVal \/ BIsAdd \/ BIsSub \/ GetStructWrite
  PROVE  Ready'
<1> DEFINE n == Len(heap)
<1>1. n \in Nat /\ n + 1 \in Nat
  BY StoreFacts
<1>2. ASSUME heap' = Append(heap, Ref(n + 1))
      PROVE  Len(heap') = n + 1 /\ Points(Len(heap'), Ref(n + 1))
  <2>1. Len(heap') = n + 1
    BY <1>2, StoreFacts, FreshVariable, AppendProperties DEF IInv
  <2> QED
    BY <1>1, <2>1, PointingCells
<1>3. ASSUME NEW op \in Loading, At(op)
      PROVE  Word[1] = op
  BY <1>3 DEF At, Op
<1>4. CASE PutVar
  <2>1. /\ At("PUT_VAR") /\ Goto(pc + 1) /\ UNCHANGED <<cp, choice, env>>
        /\ heap' = Append(heap, Ref(n + 1))
        /\ regs' = [regs EXCEPT ![Word[2]] = Ref(n + 1), ![Word[3]] = Ref(n + 1)]
    BY <1>4 DEF PutVar, AllocUnbound, frames
  <2>2. "PUT_VAR" \in Loading \ TwoCell
    BY DEF Loading, TwoCell
  <2>3. Writes(Word) \subseteq {Word[2], Word[3]}
    BY <1>3, <2>1, <2>2 DEF Writes
  <2> QED
    <3>1. /\ Len(heap') \in Nat /\ Len(heap) <= Len(heap')
          /\ Points(Len(heap'), Ref(n + 1))
      BY <1>1, <1>2, <2>1
    <3> DEFINE c == Ref(n + 1)
               r1 == Word[2]
               r2 == Word[3]
    <3>2. /\ At("PUT_VAR") /\ UNCHANGED <<cp, choice, env>> /\ Points(Len(heap'), c)
          /\ Goto(IF "PUT_VAR" \in TwoCell THEN pc + 2 ELSE pc + 1)
          /\ Writes(Word) \subseteq {r1, r2} /\ regs' = [regs EXCEPT ![r1] = c, ![r2] = c]
      BY <2>1, <2>2, <2>3, <3>1
    <3> HIDE DEF c, r1, r2
    <3> QED
      BY <2>2, <3>1, <3>2, LoadsAndAdvances
<1>5. CASE UnifyVarWrite
  <2>1. /\ At("UNIFY_VAR") /\ Goto(pc + 1) /\ UNCHANGED <<cp, choice, env>>
        /\ heap' = Append(heap, Ref(n + 1)) /\ regs' = [regs EXCEPT ![Word[2]] = Ref(n + 1)]
    BY <1>5 DEF UnifyVarWrite, AllocUnbound, frames
  <2>2. "UNIFY_VAR" \in Loading \ TwoCell
    BY DEF Loading, TwoCell
  <2>3. Writes(Word) \subseteq {Word[2]}
    BY <1>3, <2>1, <2>2 DEF Writes
  <2> QED
    <3>1. /\ Len(heap') \in Nat /\ Len(heap) <= Len(heap')
          /\ Points(Len(heap'), Ref(n + 1))
      BY <1>1, <1>2, <2>1
    <3> QED
      BY <2>1, <2>2, <2>3, <3>1, LoadsOne
<1>6. ASSUME NEW op \in Loading, At(op), UNCHANGED <<heap, cp, choice, env>>,
             Goto(IF op \in TwoCell THEN pc + 2 ELSE pc + 1),
             NEW r, NEW c, Points(n, c), Writes(Word) \subseteq {r}, regs' = [regs EXCEPT ![r] = c]
      PROVE  Ready'
  <2>1. Len(heap') \in Nat /\ Len(heap) <= Len(heap') /\ Points(Len(heap'), c)
    BY <1>1, <1>6
  <2>2. UNCHANGED <<cp, choice, env>>
    BY <1>6
  <2> QED
    BY <1>6, <2>1, <2>2, LoadsOne
<1>7. CASE PutVal
  <2>1. /\ At("PUT_VAL") /\ Goto(pc + 1) /\ UNCHANGED <<heap, cp, choice, env>>
        /\ regs' = [regs EXCEPT ![Word[3]] = regs[Word[2]]]
    BY <1>7 DEF PutVal, frames, store
  <2>2. "PUT_VAL" \in Loading \ TwoCell
    BY DEF Loading, TwoCell
  <2>3. Writes(Word) \subseteq {Word[3]}
    BY <1>3, <2>1, <2>2 DEF Writes
  <2>4. Points(n, regs[Word[2]])
    BY <2>1, ReadPoints DEF ReadsOp1
  <2> QED
    BY <1>6, <2>1, <2>2, <2>3, <2>4
<1>8. CASE GetVar
  <2>1. /\ At("GET_VAR") /\ Goto(pc + 1) /\ UNCHANGED <<heap, cp, choice, env>>
        /\ regs' = [regs EXCEPT ![Word[2]] = regs[Word[3]]]
    BY <1>8 DEF GetVar, frames, store
  <2>2. "GET_VAR" \in Loading \ TwoCell
    BY DEF Loading, TwoCell
  <2>3. Writes(Word) \subseteq {Word[2]}
    BY <1>3, <2>1, <2>2 DEF Writes
  <2>4. Points(n, regs[Word[3]])
    BY <2>1, ReadPoints DEF ReadsOp2
  <2> QED
    BY <1>6, <2>1, <2>2, <2>3, <2>4
<1>9. CASE PutConst
  <2>1. /\ At("PUT_CONST") /\ Goto(pc + 2) /\ UNCHANGED <<heap, cp, choice, env>>
        /\ regs' = [regs EXCEPT ![Word[2]] = Imm]
    BY <1>9 DEF PutConst, frames, store
  <2>2. "PUT_CONST" \in Loading \cap TwoCell
    BY DEF Loading, TwoCell
  <2>3. Writes(Word) \subseteq {Word[2]}
    BY <1>3, <2>1, <2>2 DEF Writes
  <2>4. Points(n, Imm)
    BY <1>1, <2>1, ConstantOperand, PointingCells DEF IInv
  <2> QED
    BY <1>6, <2>1, <2>2, <2>3, <2>4
<1>10. CASE UnifyVarRead
  <2>1. /\ At("UNIFY_VAR") /\ Goto(pc + 1) /\ UNCHANGED <<heap, cp, choice, env>>
        /\ up <= n /\ regs' = [regs EXCEPT ![Word[2]] = heap[up]]
    BY <1>10 DEF UnifyVarRead, frames, store
  <2>2. "UNIFY_VAR" \in Loading \ TwoCell
    BY DEF Loading, TwoCell
  <2>3. Writes(Word) \subseteq {Word[2]}
    BY <1>3, <2>1, <2>2 DEF Writes
  <2>4. up \in 1 .. n
    BY <1>1, <2>1 DEF IInv, TypeOK
  <2>5. Points(n, heap[up])
    BY <2>4 DEF Live, StoreLive, HeapClosed, Points
  <2> QED
    BY <1>6, <2>1, <2>2, <2>3, <2>5
<1>11. CASE PutYVal
  <2> DEFINE c == env[ep].ys[Word[2] + 1]
  <2>1. /\ At("PUT_Y_VAL") /\ Goto(pc + 1) /\ UNCHANGED <<heap, cp, choice, env>>
        /\ ep > 0 /\ HasSlot /\ regs' = [regs EXCEPT ![Word[3]] = c]
    BY <1>11 DEF PutYVal, frames, store
  <2>2. Points(n, c)
    BY <2>1 DEF SlotsPoint, Points
  <2> HIDE DEF c
  <2>3. "PUT_Y_VAL" \in Loading \ TwoCell
    BY DEF Loading, TwoCell
  <2>4. Writes(Word) \subseteq {Word[3]}
    BY <1>3, <2>1, <2>3 DEF Writes
  <2> QED
    BY <1>6, <2>1, <2>2, <2>3, <2>4
<1>12. ASSUME NEW op \in {"B_IS_ADD", "B_IS_SUB"}, NEW m, BIs(op, m)
       PROVE  Ready'
  <2>1. /\ At(op) /\ Goto(pc + 1) /\ UNCHANGED <<heap, cp, choice, env>>
        /\ regs' = [regs EXCEPT ![0] = Encode(m)]
    BY <1>12 DEF BIs, frames, store
  <2>2. op \in Loading \ TwoCell
    BY DEF Loading, TwoCell
  <2>3. Writes(Word) \subseteq {0}
    BY <1>3, <2>1, <2>2 DEF Writes
  <2>4. Points(n, Encode(m))
    BY <1>1, PointingCells DEF Encode
  <2> QED
    BY <1>6, <2>1, <2>2, <2>3, <2>4
<1>13. CASE GetStructWrite
  <2>1. /\ At("GET_STRUCT") /\ Goto(pc + 2) /\ UNCHANGED <<cp, choice, env>>
        /\ regs' = [regs EXCEPT ![Word[2]] = Str(n + 1)]
    BY <1>13 DEF GetStructWrite, frames
  <2>2. Len(heap') = n + 1
    BY <1>13, GetStructWriteLive
  <2>3. Points(Len(heap'), Str(n + 1))
    BY <1>1, <2>2, PointingCells
  <2>4. "GET_STRUCT" \in Loading \cap TwoCell
    BY DEF Loading, TwoCell
  <2>5. Writes(Word) \subseteq {Word[2]}
    BY <1>3, <2>1, <2>4 DEF Writes
  <2> QED
    <3>1. Len(heap') \in Nat /\ Len(heap) <= Len(heap')
      BY <1>1, <2>2
    <3> QED
      BY <2>1, <2>3, <2>4, <2>5, <3>1, LoadsOne
<1> QED
  BY <1>4, <1>5, <1>7, <1>8, <1>9, <1>10, <1>11, <1>12, <1>13 DEF BIsAdd, BIsSub

-----------------------------------------------------------------------------
(* Unification.                                                            *)

(* While unify works the instruction that called it does not change.       *)
LEMMA StaysPut ==
  ASSUME IInv, Ready, Going, UNCHANGED <<pc, code, regs, cp, choice, env>>,
         Len(heap') = Len(heap), status' = "unify", pc \in DOMAIN code, Op \in Callers
  PROVE  Ready'
<1>1. Need' = Need
  BY ProgramStays
<1>2. Disciplined' /\ ChoicesReady' /\ ReturnsClean'
  BY KeepsReturns DEF IInv
<1>3. RegsReady' /\ CameBack'
  BY <1>1 DEF Ready, RegsReady, CameBack, Going, Top
<1>4. CalledByUnifier'
  BY DEF CalledByUnifier, Op, Word
<1> QED
  BY <1>2, <1>3, <1>4 DEF Ready

(* The instructions that call it.                                          *)
LEMMA StartingReady ==
  ASSUME IInv, Ready,
         GetConst \/ GetVal \/ ((UnifyVal \/ UnifyConst) /\ mode = "read")
  PROVE  Ready'
<1>1. /\ UNCHANGED <<pc, code, regs, heap, cp, choice, env>> /\ status' = "unify"
      /\ \E op \in Callers : At(op)
  BY DEF GetConst, GetVal, UnifyVal, UnifyConst, UnifyStream, WriteStream, StartUnify, program,
     store, frames, Callers
<1>2. PICK op \in Callers : At(op)
  BY <1>1
<1>3. op \in Opcodes
  BY DEF Callers, Opcodes, OneCell, TwoCell
<1>4. pc \in DOMAIN code /\ Op \in Callers /\ Going
  BY <1>2, <1>3, Dispatched DEF IInv, Op, Going
<1> QED
  BY <1>1, <1>4, StaysPut

(* Its steps: what is bound was allocated before.                          *)
LEMMA UnificationReady ==
  ASSUME IInv, Live, Ready, Unification
  PROVE  Ready'
<1>1. CASE UnifyDeref \/ UnifyEqual \/ UnifyStruct \/ UnifyBind
  <2>1. /\ status = "unify" /\ status' = "unify"
        /\ UNCHANGED <<pc, code, regs, cp, choice, env>>
    BY <1>1 DEF UnifyDeref, UnifyEqual, UnifyStruct, UnifyBind, Differ, Comparing, program, frames
  <2>2. Len(heap') = Len(heap)
    <3>1. CASE ~UnifyBind
      BY <1>1, <3>1 DEF UnifyDeref, UnifyEqual, UnifyStruct, store
    <3>2. CASE UnifyBind
      <4>1. PICK x \in {Left, Right}, y \in {Left, Right} : Bind(x, y)
        BY <3>2 DEF UnifyBind
      <4>2. y \in Cell
        BY <3>2, ComparedLive DEF UnifyBind, Differ
      <4>3. Val(x) \in 1 .. Len(heap) /\ heap' = [heap EXCEPT ![Val(x)] = y]
        BY <4>1 DEF Bind, IsUnbound
      <4> QED
        BY <4>2, <4>3, StoreFacts, ExceptSeq
    <3> QED
      BY <3>1, <3>2
  <2>3. pc \in DOMAIN code /\ Op \in Callers /\ Going
    BY <2>1 DEF Ready, CalledByUnifier, Going
  <2> QED
    BY <2>1, <2>2, <2>3, StaysPut
<1>2. CASE UnifyDone
  <2>1. /\ status = "unify" /\ status' = "run"
        /\ pc' = IF Op \in TwoCell THEN pc + 2 ELSE pc + 1
        /\ UNCHANGED <<code, regs, heap, cp, choice, env>>
    BY <1>2 DEF UnifyDone, program, store, frames
  <2>2. pc \in DOMAIN code /\ Op \in Callers /\ Going
    BY <2>1 DEF Ready, CalledByUnifier, Going
  <2>3. Op \in Opcodes \ {"RETRY", "TRUST"}
    BY <2>2 DEF Callers, Opcodes, OneCell, TwoCell
  <2>4. pc' \in Goes(code, pc)
    BY <2>1, <2>2 DEF Goes, Callers, Op, Word
  <2>5. LeavesRegs
    <3>1. Writes(Word) = {}
      BY <2>2 DEF Writes, Callers, Op
    <3> QED
      BY <2>1, <3>1, StoreFacts, SameRegs
  <2>6. Lands
    BY <2>2, <2>3, <2>4, <2>5, GoesOn DEF Ready
  <2>7. Disciplined' /\ ChoicesReady' /\ ReturnsClean'
    BY <2>1, KeepsReturns DEF IInv
  <2> QED
    BY <2>1, <2>6, <2>7 DEF Ready, Lands, CalledByUnifier
<1> QED
  BY <1>1, <1>2, StoppingSteps, BacktrackingSteps DEF Unification

-----------------------------------------------------------------------------
(* The invariant.                                                          *)

(* Nothing is needed in the beginning.                                     *)
LEMMA InitReady == Init /\ Disciplined => Ready
<1> SUFFICES ASSUME Init, Disciplined
             PROVE  Ready
  OBVIOUS
<1>1. /\ pc = 1 /\ cp = 1 /\ status = "run" /\ Len(choice) = 0 /\ Len(env) = 0
  BY EmptySeq DEF Init
<1>2. At0(Need, 1) = {}
  BY DEF Disciplined, Respects, Need
<1>3. InRegs(code, Need, pc) = {} /\ InChoice(code, Need, pc) = {}
  BY <1>1, <1>2, CleanPlace
<1> QED
  BY <1>1, <1>2, <1>3 DEF Ready, RegsReady, CameBack, ChoicesReady, ReturnsClean, CalledByUnifier

(* No step comes to code whose needs are not met.                          *)
LEMMA NextReady ==
  ASSUME IInv, Live, Ready, SlotsPoint, [Next]_vars
  PROVE  Ready'
<1>1. CASE Refuse
  BY <1>1, StoppingSteps DEF Refuse
<1>2. CASE Control
  BY <1>2, PlainSteps, StoppingSteps, CallSteps, ProceedStep, BacktrackingSteps, TryStepReady,
     RestoreSteps, FrameSteps DEF Control
<1>3. CASE Arguments
  BY <1>3, LoadingReady, StartingReady DEF Arguments
<1>4. CASE Unification
  BY <1>4, UnificationReady
<1>5. CASE Structures
  <2>1. mode = "read" \/ mode = "write"
    BY DEF IInv, TypeOK
  <2> QED
    BY <1>5, <2>1, PlainSteps, StoppingSteps, BacktrackingSteps, LoadingReady, StartingReady
       DEF Structures
<1>6. CASE Environments
  BY <1>6, FrameSteps, LoadingReady, StoppingSteps DEF Environments
<1>7. CASE Builtins
  BY <1>7, LoadingReady, PlainSteps, BacktrackingSteps, StoppingSteps DEF Builtins
<1>8. CASE UNCHANGED vars
  <2>1. UNCHANGED <<pc, code, regs, heap, cp, choice, env, status>>
    BY <1>8 DEF vars
  <2>2. Need' = Need /\ Disciplined' /\ ChoicesReady' /\ ReturnsClean'
    BY <2>1, KeepsReturns, ProgramStays DEF IInv
  <2> QED
    BY <2>1, <2>2 DEF Ready, RegsReady, CameBack, CalledByUnifier, Going, Top, Op, Word
<1> QED
  BY <1>1, <1>2, <1>3, <1>4, <1>5, <1>6, <1>7, <1>8 DEF Next, Step, Stopped

(* What the theorems below have in common.                                 *)
LEMMA ReadyAlways ==
  Spec /\ Disciplined /\ []SlotsPoint => [](NoStaleReads /\ NoColdReads)
<1>1. IInv /\ Live /\ Ready /\ SlotsPoint /\ [Next]_vars => Live' /\ Ready'
  BY ReadyReads, NextLive, NextReady
<1>2. IInv /\ Ready /\ SlotsPoint => NoStaleReads /\ NoColdReads
  BY ReadyReads
<1> QED
  BY <1>1, <1>2, InitLive, InitReady, InvariantHolds, PTL DEF Spec

(***************************************************************************)
(* Code that respects the discipline reads no reference that backtracking  *)
(* made stale from a register, and writes none to the heap, whatever the   *)
(* order of calls, choices, cuts and failures.                             *)
(***************************************************************************)
THEOREM DisciplineReadsNothingStale ==
  Spec /\ Disciplined /\ []SlotsPoint => []NoStaleReads
BY ReadyAlways, PTL

(***************************************************************************)
(* Nor does it unify a register that was never written while the heap is   *)
(* empty; its cleared word would refer to a first cell there is not.       *)
(***************************************************************************)
THEOREM DisciplineReadsNothingCold ==
  Spec /\ Disciplined /\ []SlotsPoint => []NoColdReads
BY ReadyAlways, PTL

(***************************************************************************)
(* So its heap stays closed: neither a push nor a binding puts a reference *)
(* into it that leads out, and RETRY and TRUST leave none behind.          *)
(***************************************************************************)
THEOREM DisciplineKeepsHeapClosed ==
  Spec /\ Disciplined /\ []SlotsPoint => []HeapClosed
BY DisciplineReadsNothingStale, HeapStaysClosed, PTL

(***************************************************************************)
(* And deref, a loop inside one instruction, ends: no such code can bind a *)
(* variable to one that leads back to it.                                  *)
(***************************************************************************)
THEOREM DisciplineEndsReferences ==
  Spec /\ Disciplined /\ []SlotsPoint => []DerefEnds
BY DisciplineReadsNothingStale, ReferencesEnd, PTL

(***************************************************************************)
(* And bind (heap.rs:83) indexes the heap with addresses inside it only,   *)
(* so that the machine does not panic there.                               *)
(***************************************************************************)
THEOREM DisciplinePreventsPanics ==
  Spec /\ Disciplined /\ []SlotsPoint => []NoPanic
BY DisciplineReadsNothingStale, DisciplineReadsNothingCold, NoPanics, PTL

=============================================================================
