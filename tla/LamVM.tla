------------------------------- MODULE LamVM --------------------------------
(***************************************************************************)
(* The reference LAM machine of refvm: one action per opcode of            *)
(* refvm/dispatch.rs, one per way an instruction can be refused, and the   *)
(* tick counter of run_vm.  Execution is sequential; a behaviour is one    *)
(* run of one of the Programs.  Unification, which the code runs inside an *)
(* opcode, takes several steps here: nothing else moves meanwhile.         *)
(* The words of a program are those of Code.                               *)
(***************************************************************************)
EXTENDS Code, FiniteSets

CONSTANTS
  Programs,    \* the runs considered: name -> sequence of words
  TickLimit    \* Vm.tick_limit

ASSUME TickAssumption == TickLimit \in Nat

VARIABLES
  prog,      \* which program runs
  code,      \* its words: Vm.code
  pc, cp,    \* program counter, continuation
  regs,      \* A0-A7 are 0 .. 7, X0-X7 are 8 .. 15
  heap, trail,
  choice,    \* choice points, the newest last
  env,       \* environment frames ever allocated
  ep,        \* the current frame is env[ep]; none if 0
  mode, up,  \* the structure being read or written
  out,       \* what was written
  todo,      \* the pairs unify has still to make equal
  status,    \* "run", "unify", "halt", "fail", "panic" or a RunError
  ticks      \* instructions dispatched

program == <<prog, code>>
store  == <<heap, trail>>
stream == <<mode, up>>
frames == <<env, ep>>
vars == <<prog, code, pc, cp, regs, heap, trail, choice, env, ep, mode, up, out,
          todo, status, ticks>>

(* Of whatever text a program is assembled: AssembledCodeLoads.            *)
ASSUME CodeAssumption == \A n \in DOMAIN Programs : WellFormed(Programs[n])

Init ==
  /\ prog \in DOMAIN Programs /\ code = Programs[prog]
  /\ pc = 1 /\ cp = 1
  /\ regs = [r \in Reg |-> ZeroWord]
  /\ heap = <<>> /\ trail = <<>>
  /\ choice = <<>>
  /\ env = <<>> /\ ep = 0
  /\ mode = "read" /\ up = 1
  /\ out = <<>>
  /\ todo = <<>>
  /\ status = "run"
  /\ ticks = 0

-----------------------------------------------------------------------------
(***************************************************************************)
(* Fetching.  An instruction is dispatched when its immediate is there and *)
(* its register operands exist; the three ways it is refused are below.    *)
(***************************************************************************)
Word == code[pc]
Op   == Word[1]
Imm  == code[pc + 1]

Running    == status = "run" /\ ticks < TickLimit
Fetched    == Running /\ pc \in 1 .. Len(code)
HasImm     == Op \in TwoCell => pc < Len(code)
RegsExist  == /\ Op \in Op1IsReg => Word[2] \in Reg
              /\ Op \in Op2IsReg => Word[3] \in Reg

At(op) == Fetched /\ Op = op /\ HasImm /\ RegsExist

Tick    == ticks' = ticks + 1 /\ UNCHANGED <<program, todo>>
Goto(n) == Tick /\ pc' = n /\ UNCHANGED status
Stop(s) == Tick /\ status' = s /\ UNCHANGED pc

(* exec_fail: to the alternative of the newest choice point, or the end.   *)
Top == choice[Len(choice)]

NoMoreChoices == choice = <<>> /\ status' = "fail" /\ UNCHANGED pc
NextChoice    == choice # <<>> /\ status' = "run" /\ pc' = Top.alt

Backtrack == Tick /\ (NoMoreChoices \/ NextChoice)

(***************************************************************************)
(* Refusals.  PUT_VAR allocates its cell before it checks its registers.   *)
(***************************************************************************)
OutOfTicks ==
  /\ status = "run" /\ ticks >= TickLimit
  /\ status' = "TickLimit"
  /\ UNCHANGED <<program, pc, cp, regs, store, choice, frames, stream, out, todo,
                 ticks>>

PcOutOfBounds ==
  /\ Running
  /\ ~(pc \in 1 .. Len(code) /\ HasImm)
  /\ Stop("PcOutOfBounds")
  /\ UNCHANGED <<cp, regs, store, choice, frames, stream, out>>

UnsupportedOpcode ==
  /\ Fetched /\ Op \notin Opcodes
  /\ Stop("UnsupportedOpcode")
  /\ UNCHANGED <<cp, regs, store, choice, frames, stream, out>>

BadRegister ==
  /\ Fetched /\ Op \in Opcodes /\ HasImm /\ ~RegsExist
  /\ Stop("BadRegister")
  /\ heap' = IF Op = "PUT_VAR" THEN AllocUnbound(heap) ELSE heap
  /\ UNCHANGED <<cp, regs, trail, choice, frames, stream, out>>

-----------------------------------------------------------------------------
(* Control.                                                                *)

Nop ==
  /\ At("NOP") /\ Goto(pc + 1)
  /\ UNCHANGED <<cp, regs, store, choice, frames, stream, out>>

Halt ==
  /\ At("HALT")
  /\ Tick /\ pc' = pc + 1 /\ status' = "halt"
  /\ UNCHANGED <<cp, regs, store, choice, frames, stream, out>>

(* Slip (see TrailStore): a jump that takes no tick.                       *)
SlipFreeCall ==
  /\ At("CALL") /\ pc' = Imm[2] /\ cp' = pc + 2
  /\ UNCHANGED <<program, regs, store, choice, frames, stream, out, todo, status,
                 ticks>>

Call ==
  /\ At("CALL") /\ Goto(Imm[2]) /\ cp' = pc + 2
  /\ UNCHANGED <<regs, store, choice, frames, stream, out>>

Execute ==
  /\ At("EXECUTE") /\ Goto(Imm[2])
  /\ UNCHANGED <<cp, regs, store, choice, frames, stream, out>>

Proceed ==
  /\ At("PROCEED") /\ Goto(cp)
  /\ UNCHANGED <<cp, regs, store, choice, frames, stream, out>>

Fail ==
  /\ At("FAIL") /\ Backtrack
  /\ UNCHANGED <<cp, regs, store, choice, frames, stream, out>>

(* A choice point saves the argument registers, never the X registers.     *)
Try ==
  /\ At("TRY") /\ Goto(pc + 2)
  /\ choice' = Append(choice,
       [regs |-> [r \in AReg |-> regs[r]], alt |-> Imm[2], cp |-> cp,
        hp |-> Len(heap), tr |-> Len(trail), ep |-> ep])
  /\ UNCHANGED <<cp, regs, store, frames, stream, out>>

(* Slip: the cells are reset, their entries stay on the trail.             *)
SlipKeepTrail(tr) == UNCHANGED trail

UnwindTrail(tr) == trail' = SubSeq(trail, 1, tr)

Restore(c) ==
  /\ choice # <<>>
  /\ regs' = [r \in Reg |-> IF r \in AReg THEN c.regs[r] ELSE regs[r]]
  /\ heap' = Undo(heap, trail, c.hp, c.tr)
  /\ UnwindTrail(c.tr)
  /\ cp' = c.cp
  /\ UNCHANGED <<env, stream, out>>

(* Slips: the oldest choice point, and a frame that is not put back.       *)
SlipRestoreOldest == Restore(choice[1]) /\ ep' = choice[1].ep
SlipKeepFrame     == Restore(Top) /\ UNCHANGED ep

RestoreTop == Restore(Top) /\ ep' = Top.ep

Retry ==
  /\ At("RETRY") /\ Goto(pc + 2)
  /\ RestoreTop
  /\ choice' = [choice EXCEPT ![Len(choice)].alt = Imm[2]]

Trust ==
  /\ At("TRUST") /\ Goto(pc + 1)
  /\ RestoreTop
  /\ choice' = SubSeq(choice, 1, Len(choice) - 1)

EmptyChoiceStack ==
  /\ At("RETRY") \/ At("TRUST")
  /\ choice = <<>>
  /\ Stop("EmptyChoiceStack")
  /\ UNCHANGED <<cp, regs, store, choice, frames, stream, out>>

(* Slip: only the newest choice point.                                     *)
SlipCutOne ==
  /\ At("CUT") /\ Goto(pc + 1)
  /\ choice' = [i \in 1 .. Len(choice) - 1 |-> choice[i]]
  /\ UNCHANGED <<cp, regs, store, frames, stream, out>>

Cut ==
  /\ At("CUT") /\ Goto(pc + 1)
  /\ choice' = <<>>
  /\ UNCHANGED <<cp, regs, store, frames, stream, out>>

-----------------------------------------------------------------------------
(* Argument registers.                                                     *)

PutVar ==
  /\ At("PUT_VAR") /\ Goto(pc + 1)
  /\ heap' = AllocUnbound(heap)
  /\ regs' = [regs EXCEPT ![Word[2]] = Ref(Len(heap) + 1),
                          ![Word[3]] = Ref(Len(heap) + 1)]
  /\ UNCHANGED <<cp, trail, choice, frames, stream, out>>

PutVal ==
  /\ At("PUT_VAL") /\ Goto(pc + 1)
  /\ regs' = [regs EXCEPT ![Word[3]] = regs[Word[2]]]
  /\ UNCHANGED <<cp, store, choice, frames, stream, out>>

PutConst ==
  /\ At("PUT_CONST") /\ Goto(pc + 2)
  /\ regs' = [regs EXCEPT ![Word[2]] = Imm]
  /\ UNCHANGED <<cp, store, choice, frames, stream, out>>

GetVar ==
  /\ At("GET_VAR") /\ Goto(pc + 1)
  /\ regs' = [regs EXCEPT ![Word[2]] = regs[Word[3]]]
  /\ UNCHANGED <<cp, store, choice, frames, stream, out>>

(* The operand cells go to unify; the instruction ends when unify does.    *)
StartUnify(c1, c2) ==
  /\ todo' = <<<<c1, c2>>>>
  /\ status' = "unify"
  /\ ticks' = ticks + 1
  /\ UNCHANGED <<program, pc>>

GetConst ==
  /\ At("GET_CONST") /\ StartUnify(regs[Word[2]], Imm)
  /\ UNCHANGED <<cp, regs, store, choice, frames, stream, out>>

GetVal ==
  /\ At("GET_VAL") /\ StartUnify(regs[Word[2]], regs[Word[3]])
  /\ UNCHANGED <<cp, regs, store, choice, frames, stream, out>>

-----------------------------------------------------------------------------
(***************************************************************************)
(* heap::unify, one comparison per step.  The recursion of the code visits *)
(* the arguments of two structures from left to right and stops at the     *)
(* first mismatch, which is the order of todo.  Bindings made before a     *)
(* mismatch stay: only backtracking undoes them.  There is no occurs       *)
(* check.  Binding a reference past the end of the heap indexes a Vec out  *)
(* of bounds.                                                              *)
(***************************************************************************)
Left  == Head(todo)[1]
Right == Head(todo)[2]

IsBound(c) == c \in {"REF"} \X (1 .. Len(heap)) /\ ~IsUnbound(heap, c)
Follow(c)  == IF IsBound(c) THEN heap[Val(c)] ELSE c

Comparing == status = "unify" /\ todo # <<>>

(* Slip: the second cell is bound to without being followed first.         *)
SlipDiffer == Comparing /\ ~IsBound(Left) /\ Left # Right

Differ == Comparing /\ ~IsBound(Left) /\ ~IsBound(Right) /\ Left # Right

UnifyDeref ==
  /\ Comparing
  /\ IsBound(Left) \/ IsBound(Right)
  /\ todo' = <<<<Follow(Left), Follow(Right)>>>> \o Tail(todo)
  /\ UNCHANGED <<program, pc, cp, regs, store, choice, frames, stream, out, status,
                 ticks>>

UnifyEqual ==
  /\ Comparing /\ ~IsBound(Left) /\ ~IsBound(Right) /\ Left = Right
  /\ todo' = Tail(todo)
  /\ UNCHANGED <<program, pc, cp, regs, store, choice, frames, stream, out, status,
                 ticks>>

(* Slip: bound without a trail entry.                                      *)
SlipUntrailed(x, y) ==
  /\ IsUnbound(heap, x)
  /\ heap' = [heap EXCEPT ![Val(x)] = y]
  /\ UNCHANGED trail

Bind(x, y) ==
  /\ IsUnbound(heap, x)
  /\ heap' = [heap EXCEPT ![Val(x)] = y]
  /\ trail' = Append(trail, Val(x))

UnifyBind ==
  /\ Differ
  /\ \/ Bind(Left, Right)
     \/ Tag(Left) # "REF" /\ Bind(Right, Left)
  /\ todo' = Tail(todo)
  /\ UNCHANGED <<program, pc, cp, regs, choice, frames, stream, out, status, ticks>>

Dangling(c) == Tag(c) = "REF" /\ ~IsUnbound(heap, c)

UnifyDangling ==
  /\ Differ
  /\ Dangling(Left) \/ (Tag(Left) # "REF" /\ Dangling(Right))
  /\ status' = "panic"
  /\ UNCHANGED <<program, pc, cp, regs, store, choice, frames, stream, out, todo,
                 ticks>>

SameStructure ==
  /\ Tag(Left) = "STR" /\ Tag(Right) = "STR"
  /\ SameFunctor(heap, Val(Left), Val(Right))

UnifyStruct ==
  /\ Differ /\ SameStructure
  /\ todo' = ArgPairs(heap, Val(Left), Val(Right)) \o Tail(todo)
  /\ UNCHANGED <<program, pc, cp, regs, store, choice, frames, stream, out, status,
                 ticks>>

UnifyMismatch ==
  /\ Differ
  /\ Tag(Left) # "REF" /\ Tag(Right) # "REF" /\ ~SameStructure
  /\ todo' = <<>>
  /\ NoMoreChoices \/ NextChoice
  /\ UNCHANGED <<program, cp, regs, store, choice, frames, stream, out, ticks>>

(* The opcode that called unify goes on; a read stream moves by one cell.  *)
UnifyDone ==
  /\ status = "unify" /\ todo = <<>>
  /\ status' = "run"
  /\ pc' = IF Op \in TwoCell THEN pc + 2 ELSE pc + 1
  /\ up' = IF Op \in {"UNIFY_VAL", "UNIFY_CONST"} THEN up + 1 ELSE up
  /\ UNCHANGED <<program, cp, regs, store, choice, frames, mode, out, todo, ticks>>

-----------------------------------------------------------------------------
(* Structures.                                                             *)

Target == Deref(heap, regs[Word[2]])

(* enter_read_mode compares with the arity as it stands in the word, which *)
(* may have bits that a functor cell has no room for.                      *)
Wanted == <<"FUN", Imm[2], Word[3]>>

GetStructRead ==
  /\ At("GET_STRUCT") /\ Target \in {"STR"} \X (1 .. Len(heap))
  /\ heap[Val(Target)] = Wanted
  /\ Goto(pc + 2)
  /\ mode' = "read" /\ up' = Val(Target) + 1
  /\ UNCHANGED <<cp, regs, store, choice, frames, out>>

(***************************************************************************)
(* The functor cell is pushed first, then the variable is bound to it.  A  *)
(* reference past the end of the heap binds outside the Vec, unless it is  *)
(* to the cell that was just pushed.                                       *)
(***************************************************************************)
Bindable(c) == IsUnbound(heap, c) \/ c = Ref(Len(heap) + 1)

GetStructWrite ==
  /\ At("GET_STRUCT") /\ Bindable(Target)
  /\ heap' = [Append(heap, Fun(Imm[2], Word[3]))
                EXCEPT ![Val(Target)] = Str(Len(heap) + 1)]
  /\ trail' = Append(trail, Val(Target))
  /\ Goto(pc + 2)
  /\ regs' = [regs EXCEPT ![Word[2]] = Str(Len(heap) + 1)]
  /\ mode' = "write" /\ up' = Len(heap) + 2
  /\ UNCHANGED <<cp, choice, frames, out>>

GetStructDangling ==
  /\ At("GET_STRUCT") /\ Tag(Target) = "REF" /\ ~Bindable(Target)
  /\ Stop("panic")
  /\ heap' = Append(heap, Fun(Imm[2], Word[3]))
  /\ UNCHANGED <<cp, regs, trail, choice, frames, stream, out>>

GetStructMismatch ==
  /\ At("GET_STRUCT") /\ Tag(Target) # "REF"
  /\ ~(/\ Target \in {"STR"} \X (1 .. Len(heap))
       /\ heap[Val(Target)] = Wanted)
  /\ Backtrack
  /\ UNCHANGED <<cp, regs, store, choice, frames, stream, out>>

(* A read stream that has run off the heap fails.                          *)
StreamEnd ==
  /\ At("UNIFY_VAR") \/ At("UNIFY_VAL") \/ At("UNIFY_CONST")
  /\ mode = "read" /\ up > Len(heap)
  /\ Backtrack
  /\ UNCHANGED <<cp, regs, store, choice, frames, stream, out>>

UnifyVarRead ==
  /\ At("UNIFY_VAR") /\ mode = "read" /\ up <= Len(heap)
  /\ Goto(pc + 1)
  /\ regs' = [regs EXCEPT ![Word[2]] = heap[up]]
  /\ up' = up + 1
  /\ UNCHANGED <<cp, store, choice, frames, mode, out>>

UnifyVarWrite ==
  /\ At("UNIFY_VAR") /\ mode = "write"
  /\ Goto(pc + 1)
  /\ heap' = AllocUnbound(heap)
  /\ regs' = [regs EXCEPT ![Word[2]] = Ref(Len(heap) + 1)]
  /\ up' = Len(heap) + 2
  /\ UNCHANGED <<cp, trail, choice, frames, mode, out>>

UnifyStream(c1, c2) ==
  /\ mode = "read" /\ up <= Len(heap)
  /\ StartUnify(c1, c2)
  /\ UNCHANGED <<cp, regs, store, choice, frames, stream, out>>

WriteStream(c, n) ==
  /\ mode = "write"
  /\ Goto(n)
  /\ heap' = Append(heap, c)
  /\ up' = Len(heap) + 2
  /\ UNCHANGED <<cp, regs, trail, choice, frames, mode, out>>

UnifyVal ==
  /\ At("UNIFY_VAL")
  /\ \/ UnifyStream(regs[Word[2]], heap[up])
     \/ WriteStream(regs[Word[2]], pc + 1)

UnifyConst ==
  /\ At("UNIFY_CONST")
  /\ \/ UnifyStream(heap[up], Imm)
     \/ WriteStream(Imm, pc + 2)

-----------------------------------------------------------------------------
(***************************************************************************)
(* Environments.  ALLOCATE always pushes; DEALLOCATE and backtracking move *)
(* ep only, and nothing is ever popped.                                    *)
(***************************************************************************)
(* Slip: as a WAM without environment protection, above the current frame. *)
SlipReuseFrames ==
  /\ At("ALLOCATE") /\ Goto(pc + 1)
  /\ env' = Append(SubSeq(env, 1, ep),
                   [cp |-> cp, ys |-> [y \in 1 .. Word[2] |-> ZeroWord]])
  /\ ep' = ep + 1
  /\ UNCHANGED <<cp, regs, store, choice, stream, out>>

Allocate ==
  /\ At("ALLOCATE") /\ Goto(pc + 1)
  /\ env' = Append(env, [cp |-> cp, ys |-> [y \in 1 .. Word[2] |-> ZeroWord]])
  /\ ep' = Len(env) + 1
  /\ UNCHANGED <<cp, regs, store, choice, stream, out>>

(* Slip: the frame is popped, though a choice point may need it.           *)
SlipPopFrame ==
  /\ At("DEALLOCATE") /\ ep > 0
  /\ Goto(pc + 1)
  /\ cp' = env[ep].cp
  /\ ep' = ep - 1
  /\ env' = SubSeq(env, 1, ep - 1)
  /\ UNCHANGED <<regs, store, choice, stream, out>>

Deallocate ==
  /\ At("DEALLOCATE") /\ ep > 0
  /\ Goto(pc + 1)
  /\ cp' = env[ep].cp
  /\ ep' = ep - 1
  /\ UNCHANGED <<regs, store, choice, env, stream, out>>

HasSlot == Word[2] < Len(env[ep].ys)

GetYVar ==
  /\ At("GET_Y_VAR") /\ ep > 0 /\ HasSlot
  /\ Goto(pc + 1)
  /\ env' = [env EXCEPT ![ep].ys[Word[2] + 1] = regs[Word[3]]]
  /\ UNCHANGED <<cp, regs, store, choice, ep, stream, out>>

PutYVal ==
  /\ At("PUT_Y_VAL") /\ ep > 0 /\ HasSlot
  /\ Goto(pc + 1)
  /\ regs' = [regs EXCEPT ![Word[3]] = env[ep].ys[Word[2] + 1]]
  /\ UNCHANGED <<cp, store, choice, frames, stream, out>>

EmptyEnvStack ==
  /\ At("DEALLOCATE") \/ At("GET_Y_VAR") \/ At("PUT_Y_VAL")
  /\ ep = 0
  /\ Stop("EmptyEnvStack")
  /\ UNCHANGED <<cp, regs, store, choice, frames, stream, out>>

BadYSlot ==
  /\ At("GET_Y_VAR") \/ At("PUT_Y_VAL")
  /\ ep > 0 /\ ~HasSlot
  /\ Stop("BadYSlot")
  /\ UNCHANGED <<cp, regs, store, choice, frames, stream, out>>

-----------------------------------------------------------------------------
(* Builtins.                                                               *)

(* encode_int keeps the low 21 bits, read back as two's complement.        *)
SlipNoMask(n) == Int21(n)     \* slip: the sum is stored as it is

Encode(n) == Int21(((n - IntMin) % 2097152) + IntMin)

IsInt(a) == Deref(heap, regs[a]) \in {"INT"} \X (IntMin .. IntMax)
IntOf(a) == Val(Deref(heap, regs[a]))

(* A0 := A1 op A2.                                                         *)
BIs(op, r) ==
  /\ At(op) /\ IsInt(1) /\ IsInt(2)
  /\ Goto(pc + 1)
  /\ regs' = [regs EXCEPT ![0] = Encode(r)]
  /\ UNCHANGED <<cp, store, choice, frames, stream, out>>

BIsAdd == BIs("B_IS_ADD", IntOf(1) + IntOf(2))
BIsSub == BIs("B_IS_SUB", IntOf(1) - IntOf(2))

(* Go on when A0 and A1 compare so, else backtrack.                        *)
BCmp(op, holds) ==
  /\ At(op) /\ IsInt(0) /\ IsInt(1)
  /\ IF holds THEN Goto(pc + 1) ELSE Backtrack
  /\ UNCHANGED <<cp, regs, store, choice, frames, stream, out>>

BLt == BCmp("B_LT", IntOf(0) < IntOf(1))
BGt == BCmp("B_GT", IntOf(0) > IntOf(1))

ArithNotInt ==
  /\ \/ At("B_IS_ADD") /\ ~(IsInt(1) /\ IsInt(2))
     \/ At("B_IS_SUB") /\ ~(IsInt(1) /\ IsInt(2))
     \/ At("B_LT") /\ ~(IsInt(0) /\ IsInt(1))
     \/ At("B_GT") /\ ~(IsInt(0) /\ IsInt(1))
  /\ Stop("ArithNotInt")
  /\ UNCHANGED <<cp, regs, store, choice, frames, stream, out>>

(***************************************************************************)
(* write_term: the pieces of text a cell is written as.  The address of an *)
(* unbound variable, which its text _G<address> shows, is left out, and so *)
(* is that of a structure that is none.  From a cell of a list on          *)
(* write_list goes from cell to cell; "first" is written without a comma.  *)
(***************************************************************************)
IsFun(h, a)  == a \in 1 .. Len(h) /\ Tag(h[a]) = "FUN"
IsCons(h, c) == Tag(c) = "STR" /\ IsFun(h, Val(c)) /\ h[Val(c)] = <<"FUN", ".", 2>>

Text(h, c0) ==
  LET text[m \in {"term", "first", "next"}, c \in Cell] ==
        LET d    == Deref(h, c)
            a    == Val(d)
            args[k \in Nat] ==
              IF k = 0 THEN <<>>
              ELSE args[k - 1] \o (IF k = 1 THEN <<>> ELSE <<<<", ">>>>)
                     \o (IF a + k \in 1 .. Len(h) THEN text["term", h[a + k]] ELSE <<<<"oob">>>>)
            tail == Deref(h, h[a + 2])
            rest == CASE IsCons(h, tail)           -> text["next", tail]
                      [] tail = <<"ATOM", "[]">>   -> <<<<"]">>>>
                      [] OTHER -> <<<<" | ">>>> \o text["term", tail] \o <<<<"]">>>>
        IN  CASE m = "term" /\ Tag(d) = "REF" -> <<<<"_G">>>>
              [] m = "term" /\ Tag(d) \in {"ATOM", "INT"} -> <<d>>
              [] m = "term" /\ Tag(d) = "FUN" -> <<<<"unsupported">>>>
              [] m = "term" /\ Tag(d) = "STR" /\ a \notin 1 .. Len(h) -> <<<<"bad_str">>>>
              [] m = "term" /\ Tag(d) = "STR" /\ a \in 1 .. Len(h) /\ ~IsFun(h, a) -> <<<<"not_fun">>>>
              [] m = "term" /\ IsCons(h, d)   -> <<<<"[">>>> \o text["first", d]
              [] m = "term" /\ Tag(d) = "STR" /\ IsFun(h, a) /\ ~IsCons(h, d) ->
                   <<<<"ATOM", h[a][2]>>, <<"(">>>> \o args[h[a][3]] \o <<<<")">>>>
              [] m # "term" /\ a + 2 > Len(h) -> <<<<"]">>>>
              [] OTHER -> (IF m = "next" THEN <<<<", ">>>> ELSE <<>>)
                            \o text["term", h[a + 1]] \o rest
  IN  text["term", c0]

BWrite ==
  /\ At("B_WRITE") /\ Goto(pc + 1)
  /\ out' = out \o Text(heap, regs[Word[2]])
  /\ UNCHANGED <<cp, regs, store, choice, frames, stream>>

BNl ==
  /\ At("B_NL") /\ Goto(pc + 1)
  /\ out' = Append(out, <<"NL">>)
  /\ UNCHANGED <<cp, regs, store, choice, frames, stream>>

(* The writer refuses a piece: the run ends with the pieces before it.     *)
IoError ==
  /\ \/ At("B_NL") /\ UNCHANGED out
     \/ /\ At("B_WRITE")
        /\ \E text \in {Text(heap, regs[Word[2]])} :
             \E k \in 0 .. Len(text) - 1 : out' = out \o SubSeq(text, 1, k)
  /\ Stop("Io")
  /\ UNCHANGED <<cp, regs, store, choice, frames, stream>>

-----------------------------------------------------------------------------

Refuse == OutOfTicks \/ PcOutOfBounds \/ UnsupportedOpcode \/ BadRegister

Control ==
  \/ Nop \/ Halt \/ Call \/ Execute \/ Proceed \/ Fail \/ Try \/ Retry
  \/ Trust \/ EmptyChoiceStack \/ Cut

Arguments == PutVar \/ PutVal \/ PutConst \/ GetVar \/ GetConst \/ GetVal

Unification ==
  \/ UnifyDeref \/ UnifyEqual \/ UnifyBind \/ UnifyDangling \/ UnifyStruct
  \/ UnifyMismatch \/ UnifyDone

Structures ==
  \/ GetStructRead \/ GetStructWrite \/ GetStructDangling
  \/ GetStructMismatch \/ StreamEnd \/ UnifyVarRead \/ UnifyVarWrite \/ UnifyVal \/ UnifyConst

Environments ==
  Allocate \/ Deallocate \/ GetYVar \/ PutYVal \/ EmptyEnvStack \/ BadYSlot

Builtins ==
  BIsAdd \/ BIsSub \/ BLt \/ BGt \/ ArithNotInt \/ BWrite \/ BNl \/ IoError

Step ==
  \/ Refuse \/ Control \/ Arguments \/ Unification \/ Structures
  \/ Environments \/ Builtins

(* run_vm has returned.                                                    *)
Ended   == status \notin {"run", "unify"}
Stopped == Ended /\ UNCHANGED vars

Next == Step \/ Stopped

(* run_vm calls step until it returns: the loop is never suspended.        *)
Spec == Init /\ [][Next]_vars /\ WF_vars(Step)

-----------------------------------------------------------------------------

ChoicePt == [regs : [AReg -> Cell], alt : Nat, cp : Nat, hp : Nat, tr : Nat,
             ep : Nat]
EnvFrame == [cp : Nat, ys : Seq(Cell)]
RunError == {"PcOutOfBounds", "UnsupportedOpcode", "BadRegister",
             "EmptyChoiceStack", "EmptyEnvStack", "BadYSlot", "ArithNotInt",
             "TickLimit", "Io"}

(* Every variable of the machine is of its type.                           *)
TypeOK ==
  /\ prog \in DOMAIN Programs /\ code = Programs[prog]
  /\ pc \in Nat /\ cp \in Nat
  /\ regs \in [Reg -> Cell]
  /\ heap \in Seq(Cell) /\ trail \in Seq(Nat)
  /\ choice \in Seq(ChoicePt)
  /\ env \in Seq(EnvFrame) /\ ep \in Nat
  /\ mode \in {"read", "write"} /\ up \in Nat \ {0}
  /\ todo \in Seq(Cell \X Cell)
  /\ status \in {"run", "unify", "halt", "fail", "panic"} \cup RunError
  /\ ticks \in 0 .. TickLimit

(***************************************************************************)
(* The store inside the machine: TrailStore with the heap and trail marks  *)
(* of the choice points.                                                   *)
(***************************************************************************)
Marks == [i \in 1 .. Len(choice) |-> [hp |-> choice[i].hp, tr |-> choice[i].tr]]

Store == INSTANCE TrailStore WITH choice <- Marks

(* unwind_trail only resets cells of the heap that are bound, each once.   *)
TrailSound == Store!TrailSound

(* Nested choice points remember nested prefixes of heap and trail.        *)
MarksNested == Store!MarksNested

(* RETRY and TRUST put back the memory of the time of the TRY.             *)
ImplementsSnapshots == Store!Snap!Spec

(***************************************************************************)
(* ep and the ep of every choice point name frames that exist: neither     *)
(* DEALLOCATE nor backtracking can reach env[ep - 1] of the code out of    *)
(* bounds.                                                                 *)
(***************************************************************************)
FramesExist ==
  /\ ep \in 0 .. Len(env)
  /\ \A i \in 1 .. Len(choice) : choice[i].ep \in 0 .. Len(env)

(***************************************************************************)
(* No step destroys a frame: the continuation and the slots a frame was    *)
(* allocated with come back into scope when a choice point is restored.    *)
(***************************************************************************)
FramesSurvive ==
  [][/\ Len(env') >= Len(env)
     /\ \A i \in 1 .. Len(env) : /\ env'[i].cp = env[i].cp
                                 /\ Len(env'[i].ys) = Len(env[i].ys)]_vars

(***************************************************************************)
(* Every reference and structure in the heap points into the heap.         *)
(***************************************************************************)
HeapClosed ==
  \A a \in 1 .. Len(heap) :
    Tag(heap[a]) \in {"REF", "STR"} => Val(heap[a]) \in 1 .. Len(heap)

(***************************************************************************)
(* No instruction reads a stale reference from where backtracking does not *)
(* reach: the X registers, which no choice point saves, and the Y slots,   *)
(* which are not put back.  A cleared word is not stale.                   *)
(***************************************************************************)
Stale(c) == c # ZeroWord /\ Tag(c) \in {"REF", "STR"} /\ Val(c) \notin 1 .. Len(heap)

ReadsOp1 == {"PUT_VAL", "GET_VAL", "GET_CONST", "GET_STRUCT", "UNIFY_VAL", "B_WRITE"}
ReadsOp2 == {"GET_VAR", "GET_VAL", "GET_Y_VAR"}

NoStaleReads ==
  /\ \A op \in ReadsOp1 : At(op) /\ Word[2] \notin AReg => ~Stale(regs[Word[2]])
  /\ \A op \in ReadsOp2 : At(op) /\ Word[3] \notin AReg => ~Stale(regs[Word[3]])
  /\ At("PUT_Y_VAL") /\ ep > 0 /\ HasSlot => ~Stale(env[ep].ys[Word[2] + 1])

(***************************************************************************)
(* Nothing is unified that was never written as long as the heap is empty: *)
(* the cleared word refers to the first cell, and there is none to bind.   *)
(***************************************************************************)
NoColdReads ==
  heap = <<>> =>
    /\ At("GET_CONST") \/ At("GET_VAL") => regs[Word[2]] # ZeroWord
    /\ At("GET_VAL") => regs[Word[3]] # ZeroWord

(***************************************************************************)
(* Following references from a cell of the heap ends.  deref loops until   *)
(* it does and takes no tick: on references that form a cycle, as binding  *)
(* a variable to one that leads back to it makes them, the page would hang *)
(* and no limit would end it.  A walk without a cycle has as many steps as *)
(* the heap has cells at most.                                             *)
(***************************************************************************)
DerefEnds ==
  LET ends[walk \in Nat \X Cell] ==
        \/ ~IsBound(walk[2])
        \/ walk[1] > 0 /\ ends[<<walk[1] - 1, heap[Val(walk[2])]>>]
  IN  \A a \in 1 .. Len(heap) : ends[<<Len(heap), heap[a]>>]

(* No instruction indexes the heap out of bounds when it binds.            *)
NoPanic == status # "panic"

(* The run ends by itself, not by the runaway guard.                       *)
NeverRunsAway == status # "TickLimit"

(* run_vm returns.                                                         *)
Terminates == <>Ended
=============================================================================
