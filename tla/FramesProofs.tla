---------------------------- MODULE FramesProofs ----------------------------
(***************************************************************************)
(* The frame discipline holds for every set of well-formed programs: what  *)
(* makes ep - 1 name the caller's frame is the numbering of the frames and *)
(* not what the compiler emits.                                            *)
(***************************************************************************)
EXTENDS Frames, LamVMProofs

(* At most one frame lies on top of frame f.                               *)
Covered(f) == Len(env) <= f + 1

(* The memories beside the machine have an entry for all they stand for,   *)
(* and a frame is younger than the one it was called from.                 *)
GhostsOK ==
  /\ current \in 0 .. Len(env)
  /\ parent \in Seq(Nat) /\ Len(parent) = Len(env)
  /\ \A f \in 1 .. Len(parent) : parent[f] < f
  /\ kept \in Seq(Nat) /\ Len(kept) = Len(choice)
  /\ \A k \in 1 .. Len(kept) : kept[k] <= Len(env)

(* ep is the frame of the clause that runs, and the ep a choice point      *)
(* saved is the frame of the clause that made it.                          *)
Discipline ==
  /\ Covered(current) => ep = current
  /\ \A k \in 1 .. Len(kept) : Covered(kept[k]) => choice[k].ep = kept[k]

FInv == TypeOK /\ FramesExist /\ GhostsOK /\ Discipline

-----------------------------------------------------------------------------
(* The instructions the discipline is about.                               *)
FrameOps == {"ALLOCATE", "DEALLOCATE", "TRY", "RETRY", "TRUST", "CUT"}

(* The action, or the refusal, that a dispatched instruction of these is.  *)
Executes(op) ==
  \/ op = "ALLOCATE" /\ Allocate
  \/ op = "DEALLOCATE" /\ (Deallocate \/ EmptyEnvStack)
  \/ op = "TRY" /\ Try
  \/ op = "RETRY" /\ (Retry \/ EmptyChoiceStack)
  \/ op = "TRUST" /\ (Trust \/ EmptyChoiceStack)
  \/ op = "CUT" /\ Cut

(* A step of the machine at one of these instructions executes it.         *)
LEMMA Dispatched ==
  ASSUME TypeOK, Next, NEW op \in FrameOps, At(op)
  PROVE  Executes(op)
<1>1. /\ status = "run" /\ ticks < TickLimit /\ pc \in 1 .. Len(code)
      /\ Op = op /\ HasImm /\ RegsExist
  BY DEF At, Fetched, Running
<1>2. op \in Opcodes
  BY DEF FrameOps, Opcodes, OneCell, TwoCell
<1>3. ASSUME Refuse
      PROVE  FALSE
  <2>1. ~OutOfTicks
    BY <1>1, TickAssumption DEF OutOfTicks, TypeOK
  <2> QED
    BY <1>1, <1>2, <1>3, <2>1 DEF Refuse, OutOfTicks, PcOutOfBounds, UnsupportedOpcode, BadRegister
<1>4. CASE Control
  BY <1>1, <1>4 DEF Control, FrameOps, Executes, Nop, Halt, Call, Execute, Proceed, Fail,
     Try, Retry, Trust, EmptyChoiceStack, Cut, At
<1>5. ASSUME Arguments
      PROVE  FALSE
  BY <1>1, <1>5 DEF Arguments, FrameOps, PutVar, PutVal, PutConst, GetVar, GetConst, GetVal, At
<1>6. ASSUME Unification
      PROVE  FALSE
  BY <1>1, <1>6 DEF Unification, UnifyDeref, UnifyEqual, UnifyBind, UnifyDangling,
     UnifyStruct, UnifyMismatch, UnifyDone, Differ, Comparing
<1>7. ASSUME Structures
      PROVE  FALSE
  BY <1>1, <1>7 DEF Structures, FrameOps, GetStructRead, GetStructWrite, GetStructDangling,
     GetStructMismatch, StreamEnd, UnifyVarRead, UnifyVarWrite, UnifyVal, UnifyConst, At
<1>8. CASE Environments
  BY <1>1, <1>8 DEF Environments, FrameOps, Executes, Allocate, Deallocate, GetYVar,
     PutYVal, EmptyEnvStack, BadYSlot, At
<1>9. ASSUME Builtins
      PROVE  FALSE
  BY <1>1, <1>9 DEF Builtins, FrameOps, BIsAdd, BIsSub, BIs, BLt, BGt, BCmp, ArithNotInt,
     BWrite, BNl, IoError, At
<1>10. ASSUME Stopped
       PROVE  FALSE
  BY <1>1, <1>10 DEF Stopped, Ended
<1> QED
  BY <1>3, <1>4, <1>5, <1>6, <1>7, <1>8, <1>9, <1>10 DEF Next, Step

(* What an instruction leaves when it is none of these, or is refused.     *)
LEMMA OtherInstructions ==
  ASSUME TypeOK, FramesExist, Next,
         ~(\/ At("ALLOCATE") \/ At("TRY") \/ At("CUT")
           \/ At("DEALLOCATE") /\ ep > 0
           \/ (At("RETRY") \/ At("TRUST")) /\ choice # <<>>)
  PROVE  UNCHANGED <<choice, ep>> /\ Len(env') = Len(env)
<1>1. ~(\/ Try \/ Retry \/ Trust \/ Cut \/ Allocate \/ Deallocate)
  BY DEF Try, Retry, Trust, Cut, Allocate, Deallocate, RestoreTop, Restore
<1>2. CASE GetYVar
  BY <1>2, GetYVarFrames DEF GetYVar
<1>3. CASE ~GetYVar
  BY <1>1, <1>3, FramesAlone
<1> QED
  BY <1>2, <1>3

-----------------------------------------------------------------------------
(* The memories, instruction by instruction.                               *)

(* ALLOCATE pushes the frame of the clause that starts.                    *)
LEMMA AllocateDiscipline ==
  ASSUME FInv, FramesNext, At("ALLOCATE")
  PROVE  GhostsOK' /\ Discipline'
<1>1. Allocate
  BY Dispatched DEF FInv, FramesNext, FrameOps, Executes
<1>2. Len(env) \in Nat /\ Len(env') = Len(env) + 1 /\ ep' = Len(env) + 1
  BY <1>1, AllocateFrames DEF FInv
<1>3. /\ current' = Len(env) + 1 /\ parent' = Append(parent, current)
      /\ kept' = kept /\ choice' = choice
  BY <1>1 DEF FramesNext, Restores, At, Allocate
<1>4. /\ parent' \in Seq(Nat) /\ Len(parent') = Len(parent) + 1
      /\ \A f \in 1 .. Len(parent) : parent'[f] = parent[f]
      /\ parent'[Len(parent) + 1] = current
  BY <1>2, <1>3, AppendProperties DEF FInv, GhostsOK
<1>5. \A k \in 1 .. Len(kept) : kept[k] \in Nat /\ kept[k] <= Len(env)
  BY ElementOfSeq DEF FInv, GhostsOK
<1>6. GhostsOK'
  BY <1>2, <1>3, <1>4, <1>5 DEF FInv, GhostsOK
<1>7. Discipline'
  <2>1. ep' = current'
    BY <1>2, <1>3
  <2>2. \A k \in 1 .. Len(kept) : Len(env) + 1 <= kept[k] + 1 => choice[k].ep = kept[k]
    BY <1>2, <1>5 DEF FInv, Discipline, Covered
  <2> QED
    BY <1>2, <1>3, <2>1, <2>2 DEF Discipline, Covered
<1> QED
  BY <1>6, <1>7

(***************************************************************************)
(* DEALLOCATE returns to the frame the current one was called from.  When  *)
(* at most one frame lies on top of that, it is the current one, which is  *)
(* then the newest, and the caller's is the one before it.                 *)
(***************************************************************************)
LEMMA DeallocateDiscipline ==
  ASSUME FInv, FramesNext, At("DEALLOCATE"), ep > 0
  PROVE  GhostsOK' /\ Discipline'
<1>1. Deallocate
  BY Dispatched DEF FInv, FramesNext, FrameOps, Executes, EmptyEnvStack
<1>2. /\ ep \in Nat /\ Len(env) \in Nat /\ ep' = ep - 1
      /\ env' = env /\ choice' = choice
  BY <1>1, LenProperties DEF FInv, TypeOK, Deallocate
<1>3. /\ current' = IF current # 0 THEN parent[current] ELSE current
      /\ parent' = parent /\ kept' = kept
  BY <1>1 DEF FramesNext, Restores, At, Deallocate
<1>4. CASE current = 0
  <2>1. current' = 0
    BY <1>3, <1>4
  <2>2. ~Covered(0)
    BY <1>2, <1>4 DEF FInv, Discipline, Covered
  <2> QED
    BY <1>2, <1>3, <2>1, <2>2 DEF FInv, GhostsOK, Discipline, Covered
<1>5. CASE current # 0
  <2>1. /\ current \in 1 .. Len(env) /\ current' = parent[current]
        /\ parent[current] \in 0 .. current - 1
    BY <1>2, <1>3, <1>5, ElementOfSeq DEF FInv, GhostsOK
  <2>2. Covered(parent[current]) => parent[current] = current - 1 /\ Covered(current)
    BY <1>2, <2>1 DEF Covered
  <2>3. Covered(current') => ep' = current'
    BY <1>2, <2>1, <2>2 DEF FInv, Discipline
  <2> QED
    BY <1>2, <1>3, <2>1, <2>3 DEF FInv, GhostsOK, Discipline, Covered
<1> QED
  BY <1>4, <1>5

(* TRY keeps the current frame along with ep.                              *)
LEMMA TryDiscipline ==
  ASSUME FInv, FramesNext, At("TRY")
  PROVE  GhostsOK' /\ Discipline'
<1> DEFINE c == [regs |-> [r \in AReg |-> regs[r]], alt |-> Imm[2], cp |-> cp,
                 hp |-> Len(heap), tr |-> Len(trail), ep |-> ep]
<1>1. Try
  BY Dispatched DEF FInv, FramesNext, FrameOps, Executes
<1>2. choice' = Append(choice, c) /\ c.ep = ep /\ UNCHANGED <<env, ep>>
  BY <1>1 DEF Try, frames
<1>3. current' = current /\ parent' = parent /\ kept' = Append(kept, current)
  BY <1>1 DEF FramesNext, Restores, At, Try
<1> HIDE DEF c
<1>4. choice \in Seq(ChoicePt \cup {c}) /\ c \in ChoicePt \cup {c}
  BY SeqMonotonic DEF FInv, TypeOK
<1>5. /\ Len(choice') = Len(choice) + 1
      /\ \A i \in 1 .. Len(choice) : choice'[i] = choice[i]
      /\ choice'[Len(choice) + 1].ep = ep
  BY <1>2, <1>4, AppendProperties
<1>6. current \in Nat /\ kept \in Seq(Nat) /\ Len(kept) = Len(choice) /\ Len(kept) \in Nat
  BY LenProperties DEF FInv, GhostsOK, TypeOK
<1>7. /\ kept' \in Seq(Nat) /\ Len(kept') = Len(kept) + 1
      /\ \A i \in 1 .. Len(kept) : kept'[i] = kept[i]
      /\ kept'[Len(kept) + 1] = current
  BY <1>3, <1>6, AppendProperties
<1>8. GhostsOK'
  BY <1>2, <1>3, <1>5, <1>6, <1>7 DEF FInv, GhostsOK
<1>9. Discipline'
  BY <1>2, <1>3, <1>5, <1>6, <1>7 DEF FInv, Discipline, Covered
<1> QED
  BY <1>8, <1>9

(* RETRY and TRUST put back the pair of them.                              *)
LEMMA RestoreDiscipline ==
  ASSUME FInv, FramesNext, At("RETRY") \/ At("TRUST"), choice # <<>>
  PROVE  GhostsOK' /\ Discipline'
<1> DEFINE n == Len(choice)
<1>1. Retry \/ Trust
  BY Dispatched DEF FInv, FramesNext, FrameOps, Executes, EmptyChoiceStack
<1>2. n \in 1 .. n /\ n \in Nat /\ Len(kept) = n
  BY TopType, LenProperties DEF FInv, GhostsOK, TypeOK
<1>3. ep' = choice[n].ep /\ env' = env
  BY <1>1 DEF Retry, Trust, RestoreTop, Restore, Top
<1>4. /\ current' = kept[n] /\ parent' = parent
      /\ \/ Retry /\ kept' = kept
         \/ Trust /\ kept' = SubSeq(kept, 1, n - 1)
  BY <1>1, <1>2 DEF FramesNext, Restores, At, Retry, Trust
<1>5. /\ kept' \in Seq(Nat) /\ Len(kept') = Len(choice') /\ Len(kept') \in 0 .. n
      /\ \A i \in 1 .. Len(kept') : kept'[i] = kept[i] /\ choice'[i].ep = choice[i].ep
  <2>1. CASE Retry /\ kept' = kept
    BY <1>2, <2>1, RetryLeaves DEF FInv, GhostsOK
  <2>2. CASE Trust /\ kept' = SubSeq(kept, 1, n - 1)
    <3>1. n - 1 \in 0 .. Len(kept)
      BY <1>2
    <3>2. /\ SubSeq(kept, 1, n - 1) \in Seq(Nat) /\ Len(SubSeq(kept, 1, n - 1)) = n - 1
          /\ \A i \in 1 .. n - 1 : SubSeq(kept, 1, n - 1)[i] = kept[i]
      BY <3>1, SP!PrefixFacts DEF FInv, GhostsOK
    <3> QED
      BY <1>2, <2>2, <3>2, TrustLeaves DEF FInv
  <2> QED
    BY <1>4, <2>1, <2>2
<1>6. kept[n] \in Nat /\ kept[n] <= Len(env)
  BY <1>2, ElementOfSeq DEF FInv, GhostsOK
<1>7. Len(env) \in Nat
  BY LenProperties DEF FInv, TypeOK
<1>8. GhostsOK'
  <2>1. \A i \in 1 .. Len(kept') : kept'[i] <= Len(env)
    <3>1. Len(kept) = n /\ Len(kept') \in 0 .. n /\ \A i \in 1 .. Len(kept) : kept[i] <= Len(env)
      BY <1>2, <1>5 DEF FInv, GhostsOK
    <3>2. \A i \in 1 .. Len(kept') : i \in 1 .. Len(kept) /\ kept'[i] = kept[i]
      BY <1>2, <1>5, <3>1
    <3> QED
      BY <3>1, <3>2
  <2>2. current' \in 0 .. Len(env)
    BY <1>4, <1>6, <1>7
  <2> QED
    BY <1>3, <1>4, <1>5, <2>1, <2>2 DEF FInv, GhostsOK
<1>9. Discipline'
  BY <1>2, <1>3, <1>4, <1>5, <1>6 DEF FInv, Discipline, Covered
<1> QED
  BY <1>8, <1>9

(* CUT forgets both.                                                       *)
LEMMA CutDiscipline ==
  ASSUME FInv, FramesNext, At("CUT")
  PROVE  GhostsOK' /\ Discipline'
<1>1. Cut
  BY Dispatched DEF FInv, FramesNext, FrameOps, Executes
<1>2. choice' = <<>> /\ UNCHANGED <<env, ep>>
  BY <1>1 DEF Cut, frames
<1>3. current' = current /\ parent' = parent /\ kept' = <<>>
  BY <1>1 DEF FramesNext, Restores, At, Cut
<1>4. Len(kept') = 0 /\ Len(choice') = 0 /\ kept' \in Seq(Nat)
  BY <1>2, <1>3, EmptySeq
<1> QED
  BY <1>2, <1>3, <1>4 DEF FInv, GhostsOK, Discipline, Covered

(***************************************************************************)
(* No other step moves ep; a DEALLOCATE that is refused ends the run.      *)
(***************************************************************************)
LEMMA OtherDiscipline ==
  ASSUME FInv, FramesNext,
         ~(\/ At("ALLOCATE") \/ At("TRY") \/ At("CUT")
           \/ At("DEALLOCATE") /\ ep > 0
           \/ (At("RETRY") \/ At("TRUST")) /\ choice # <<>>)
  PROVE  GhostsOK' /\ Discipline'
<1>1. UNCHANGED <<choice, ep>> /\ Len(env') = Len(env) /\ Len(env) \in Nat
  BY OtherInstructions, LenProperties DEF FInv, FramesNext, TypeOK
<1>2. parent' = parent /\ kept' = kept
  BY DEF FramesNext, Restores
<1>3. CASE ~(At("DEALLOCATE") /\ current # 0)
  <2>1. current' = current
    BY <1>3 DEF FramesNext, Restores
  <2> QED
    BY <1>1, <1>2, <2>1 DEF FInv, GhostsOK, Discipline, Covered
<1>4. CASE At("DEALLOCATE") /\ current # 0
  <2>1. ep = 0
    BY <1>4 DEF FInv, TypeOK
  <2>2. current' = parent[current]
    BY <1>4 DEF FramesNext, Restores, At
  <2>3. current \in 1 .. Len(env) /\ parent[current] \in 0 .. current - 1
    BY <1>1, <1>4, ElementOfSeq DEF FInv, GhostsOK
  <2>4. ~Covered(parent[current])
    BY <1>1, <2>1, <2>3 DEF FInv, Discipline, Covered
  <2> QED
    BY <1>1, <1>2, <2>2, <2>3, <2>4 DEF FInv, GhostsOK, Discipline, Covered
<1> QED
  BY <1>3, <1>4

-----------------------------------------------------------------------------
(* The memories ride along: the machine is not changed by them.            *)
LEMMA RidesAlong == FramesSpec => Init /\ [][Next]_vars
<1>1. FramesInit => Init
  BY DEF FramesInit
<1>2. [FramesNext]_frameVars => [Next]_vars
  BY DEF FramesNext, frameVars
<1> QED
  BY <1>1, <1>2, PTL DEF FramesSpec

(* The invariant of the machine holds with the memories beside it.         *)
LEMMA MachineInv == FramesSpec => []IInv
<1>1. Init /\ [][Next]_vars => []IInv
  BY InitIInv, NextIInv, PTL
<1> QED
  BY <1>1, RidesAlong, PTL

(* Nothing runs and nothing is remembered at the start.                    *)
LEMMA InitDiscipline == FramesInit => GhostsOK /\ Discipline
  BY EmptySeq DEF FramesInit, Init, GhostsOK, Discipline, Covered

(* Every step preserves the discipline.                                    *)
LEMMA NextDiscipline ==
  IInv /\ GhostsOK /\ Discipline /\ [FramesNext]_frameVars => GhostsOK' /\ Discipline'
<1> SUFFICES ASSUME IInv, GhostsOK, Discipline, [FramesNext]_frameVars
             PROVE  GhostsOK' /\ Discipline'
  OBVIOUS
<1>1. FInv
  BY DEF FInv, IInv
<1>2. CASE FramesNext
  BY <1>1, <1>2, AllocateDiscipline, DeallocateDiscipline, TryDiscipline,
     RestoreDiscipline, CutDiscipline, OtherDiscipline
<1>3. CASE UNCHANGED frameVars
  BY <1>3 DEF frameVars, vars, ghosts, GhostsOK, Discipline, Covered
<1> QED
  BY <1>2, <1>3

(***************************************************************************)
(* For every set of well-formed programs, an instruction that uses a frame *)
(* uses the one of its own clause as long as at most one frame lies on top *)
(* of it: DEALLOCATE of refvm/dispatch.rs never skips a frame there.       *)
(***************************************************************************)
THEOREM FramesAreOwn == FramesSpec => []OwnFrame
<1>1. Discipline => OwnFrame
  BY DEF Discipline, Covered, OwnFrame
<1> QED
  BY <1>1, InitDiscipline, NextDiscipline, MachineInv, PTL DEF FramesSpec
=============================================================================
