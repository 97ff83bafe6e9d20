-------------------------- MODULE LamVMHeapProofs ---------------------------
(***************************************************************************)
(* What becomes of references.  Backtracking cuts the heap back, so a      *)
(* reference may outlive what it points to.                                *)
(*   HeapStaysClosed   the heap itself, the argument registers and all     *)
(*     that a choice point puts back are safe from that, for every set of  *)
(*     well-formed programs, as long as no stale reference is read from an *)
(*     X register or a Y slot, which the machine does not put back         *)
(*     (NoStaleReads; the programs of the compiler are checked for it).    *)
(*     The invariant is Live.                                              *)
(*   ReferencesEnd   references form no cycle: among any cells of the heap *)
(*     there is one that leads to none of the others (NoCycle).  A binding *)
(*     joins two ends, and backtracking only makes more of them.           *)
(*   NoPanics   so that deref stops at the variable it says it stops at,   *)
(*     which is in the heap, and binding it is in bounds.                  *)
(***************************************************************************)
EXTENDS LamVMProofs, FiniteSetTheorems, WellFoundedInduction

(* A cell that points into a heap of n cells, or a cleared word.           *)
LiveIn(n, c) == c = ZeroWord \/ (Tag(c) \in {"REF", "STR"} => Val(c) \in 1 .. n)

(* What a choice point will leave of the heap points into what it leaves.  *)
SavedHeapLive ==
  \A k \in 1 .. Len(choice) : \A a \in 1 .. choice[k].hp :
    a \notin Trailed(trail, choice[k].tr) => LiveIn(choice[k].hp, heap[a])

StoreLive == HeapClosed /\ SavedHeapLive

(* The argument registers, and those a choice point will put back.         *)
ArgsLive ==
  /\ \A r \in AReg : LiveIn(Len(heap), regs[r])
  /\ \A k \in 1 .. Len(choice) : \A r \in AReg : LiveIn(choice[k].hp, choice[k].regs[r])

(* The cells unify has still to compare.                                   *)
WorkLive ==
  /\ status = "run" => todo = <<>>
  /\ status = "unify" => \A i \in 1 .. Len(todo) : /\ LiveIn(Len(heap), todo[i][1])
                                                   /\ LiveIn(Len(heap), todo[i][2])

Live == StoreLive /\ ArgsLive /\ WorkLive

-----------------------------------------------------------------------------
(* Lengths and marks.                                                      *)
LEMMA StoreFacts ==
  ASSUME IInv
  PROVE  /\ Len(heap) \in Nat /\ Len(trail) \in Nat /\ Len(choice) \in Nat
         /\ heap \in Seq(Cell) /\ trail \in Seq(Nat)
         /\ \A a \in 1 .. Len(heap) : heap[a] \in Cell
         /\ \A k \in 1 .. Len(choice) :
              /\ choice[k] \in ChoicePt
              /\ choice[k].hp \in 0 .. Len(heap) /\ choice[k].tr \in 0 .. Len(trail)
         /\ \A i, j \in 1 .. Len(choice) :
              i <= j => choice[i].hp <= choice[j].hp /\ choice[i].tr <= choice[j].tr
<1>1. /\ Len(heap) \in Nat /\ Len(trail) \in Nat /\ Len(choice) \in Nat
      /\ heap \in Seq(Cell) /\ trail \in Seq(Nat)
  BY LenProperties DEF IInv, TypeOK
<1>2. \A a \in 1 .. Len(heap) : heap[a] \in Cell
  BY ElementOfSeq DEF IInv, TypeOK
<1>3. \A k \in 1 .. Len(choice) : choice[k] \in ChoicePt
  BY ElementOfSeq DEF IInv, TypeOK
<1>4. /\ Len(Marks) = Len(choice)
      /\ \A i \in 1 .. Len(choice) : Marks[i].hp = choice[i].hp /\ Marks[i].tr = choice[i].tr
  <2>1. TypeOK
    BY DEF IInv
  <2>2. \A i \in 1 .. Len(choice) : Marks[i] = [hp |-> choice[i].hp, tr |-> choice[i].tr]
    BY <2>1, MarksFacts
  <2>3. ASSUME NEW i \in 1 .. Len(choice)
        PROVE  Marks[i].hp = choice[i].hp /\ Marks[i].tr = choice[i].tr
    <3> DEFINE hp == choice[i].hp
               tr == choice[i].tr
               m == Marks[i]
    <3>1. m = [hp |-> hp, tr |-> tr]
      BY <2>2
    <3> HIDE DEF hp, tr, m
    <3>2. m.hp = hp /\ m.tr = tr
      BY <3>1
    <3> QED
      BY <3>2 DEF hp, tr, m
  <2> QED
    BY <2>1, <2>3, MarksFacts
<1>5. /\ \A i \in 1 .. Len(choice) : Marks[i].hp <= Len(heap) /\ Marks[i].tr <= Len(trail)
      /\ \A i, j \in 1 .. Len(choice) :
           i <= j => Marks[i].hp <= Marks[j].hp /\ Marks[i].tr <= Marks[j].tr
  BY <1>4 DEF IInv, SP!IInv, SP!MarksNested
<1>6. \A k \in 1 .. Len(choice) :
        choice[k].hp \in 0 .. Len(heap) /\ choice[k].tr \in 0 .. Len(trail)
  <2>1. \A k \in 1 .. Len(choice) : choice[k].hp \in Nat /\ choice[k].tr \in Nat
    BY <1>3 DEF ChoicePt
  <2>2. \A k \in 1 .. Len(choice) : choice[k].hp <= Len(heap) /\ choice[k].tr <= Len(trail)
    BY <1>4, <1>5
  <2> QED
    BY <1>1, <2>1, <2>2
<1>7. \A i, j \in 1 .. Len(choice) :
        i <= j => choice[i].hp <= choice[j].hp /\ choice[i].tr <= choice[j].tr
  BY <1>4, <1>5
<1> QED
  BY <1>1, <1>2, <1>3, <1>6, <1>7

(* A longer heap keeps what is live.                                       *)
LEMMA LiveGrows ==
  ASSUME NEW n \in Nat, NEW m \in Nat, n <= m, NEW c, LiveIn(n, c)
  PROVE  LiveIn(m, c)
BY DEF LiveIn

(* In a heap that is not empty a cleared word is a reference to a cell.    *)
LEMMA LiveCloses ==
  ASSUME NEW n \in Nat \ {0}, NEW c
  PROVE  LiveIn(n, c) <=> (Tag(c) \in {"REF", "STR"} => Val(c) \in 1 .. n)
BY DEF LiveIn, ZeroWord, Ref, Tag, Val

(* Cells that refer to nothing are live everywhere.                        *)
LEMMA LiveCells ==
  ASSUME NEW n \in Nat
  PROVE  /\ \A c \in Constant : LiveIn(n, c)
         /\ \A f, m : LiveIn(n, Fun(f, m))
         /\ \A m : LiveIn(n, Int21(m))
         /\ LiveIn(n, ZeroWord)
BY DEF LiveIn, Constant, Fun, Int21, Ref, Str, Tag, Val

(* References and structures in the heap are live.                         *)
LEMMA LivePointers ==
  ASSUME NEW n \in Nat, NEW a \in 1 .. n
  PROVE  LiveIn(n, Ref(a)) /\ LiveIn(n, Str(a))
BY DEF LiveIn, Ref, Str, Tag, Val

(* The trail above a mark, after one more entry.                           *)
LEMMA TrailedAppend ==
  ASSUME NEW t \in Seq(Nat), NEW v \in Nat, NEW tr \in 0 .. Len(t)
  PROVE  /\ v \in Trailed(Append(t, v), tr)
         /\ Trailed(t, tr) \subseteq Trailed(Append(t, v), tr)
<1>1. /\ Len(t) \in Nat /\ Len(Append(t, v)) = Len(t) + 1
      /\ \A i \in 1 .. Len(t) : Append(t, v)[i] = t[i]
      /\ Append(t, v)[Len(t) + 1] = v
  BY AppendProperties, LenProperties
<1> QED
  BY <1>1 DEF Trailed

-----------------------------------------------------------------------------
(* The store, by what is done to it.                                       *)

(* A cell is pushed.                                                       *)
LEMMA PushLive ==
  ASSUME IInv, StoreLive, NEW c \in Cell, LiveIn(Len(heap) + 1, c),
         heap' = Append(heap, c), UNCHANGED <<trail, choice>>
  PROVE  StoreLive' /\ Len(heap') = Len(heap) + 1
<1>1. /\ Len(heap) \in Nat /\ Len(heap') = Len(heap) + 1
      /\ \A a \in 1 .. Len(heap) : heap'[a] = heap[a]
      /\ heap'[Len(heap) + 1] = c
  BY StoreFacts, AppendProperties
<1>2. HeapClosed'
  <2>1. Tag(c) \in {"REF", "STR"} => Val(c) \in 1 .. Len(heap) + 1
    BY <1>1, LiveCloses
  <2> QED
    BY <1>1, <2>1 DEF StoreLive, HeapClosed
<1>3. SavedHeapLive'
  BY <1>1, StoreFacts DEF StoreLive, SavedHeapLive
<1> QED
  BY <1>1, <1>2, <1>3 DEF StoreLive

(* A cell of the heap is overwritten, and its address is trailed.          *)
LEMMA OverwriteLive ==
  ASSUME IInv, NEW h \in Seq(Cell), NEW v \in 1 .. Len(h), NEW y \in Cell,
         \A a \in 1 .. Len(h) : LiveIn(Len(h), h[a]),
         Len(heap) <= Len(h), \A a \in 1 .. Len(heap) : h[a] = heap[a],
         SavedHeapLive, LiveIn(Len(h), y),
         heap' = [h EXCEPT ![v] = y], trail' = Append(trail, v), UNCHANGED choice
  PROVE  StoreLive' /\ Len(heap') = Len(h)
<1>1. /\ Len(h) \in Nat /\ Len(heap') = Len(h)
      /\ \A a \in 1 .. Len(h) : heap'[a] = IF a = v THEN y ELSE h[a]
  BY ExceptSeq, LenProperties
<1>2. HeapClosed'
  <2>1. \A a \in 1 .. Len(heap') : LiveIn(Len(heap'), heap'[a])
    BY <1>1
  <2>2. Len(heap') \in Nat \ {0}
    BY <1>1
  <2> QED
    BY <2>1, <2>2, LiveCloses DEF HeapClosed
<1>3. SavedHeapLive'
  <2> SUFFICES ASSUME NEW k \in 1 .. Len(choice), NEW a \in 1 .. choice[k].hp,
                      a \notin Trailed(trail', choice[k].tr)
               PROVE  LiveIn(choice[k].hp, heap'[a])
    BY DEF SavedHeapLive
  <2>1. a # v /\ a \notin Trailed(trail, choice[k].tr)
    BY StoreFacts, TrailedAppend
  <2>2. a \in 1 .. Len(heap) /\ heap'[a] = heap[a]
    BY <1>1, <2>1, StoreFacts
  <2> QED
    BY <2>1, <2>2 DEF SavedHeapLive
<1> QED
  BY <1>1, <1>2, <1>3 DEF StoreLive

(* Heap and trail stay, the choice points stay or lose the newest ones.    *)
LEMMA SameStoreLive ==
  ASSUME StoreLive, UNCHANGED <<heap, trail>>,
         UNCHANGED choice \/ choice' = <<>>
  PROVE  StoreLive'
<1>1. Len(<<>>) = 0
  BY EmptySeq
<1> QED
  BY <1>1 DEF StoreLive, HeapClosed, SavedHeapLive

(* TRY: what is to be saved is the heap as it is.                          *)
LEMMA TryLive ==
  ASSUME IInv, StoreLive, ArgsLive, Try
  PROVE  StoreLive' /\ ArgsLive'
<1> DEFINE c == [regs |-> [r \in AReg |-> regs[r]], alt |-> Imm[2], cp |-> cp,
                 hp |-> Len(heap), tr |-> Len(trail), ep |-> ep]
<1>1. /\ choice' = Append(choice, c) /\ UNCHANGED <<heap, trail, regs>>
      /\ c.hp = Len(heap) /\ c.tr = Len(trail) /\ \A r \in AReg : c.regs[r] = regs[r]
  BY DEF Try, store
<1> HIDE DEF c
<1>2. choice \in Seq(ChoicePt \cup {c}) /\ c \in ChoicePt \cup {c}
  BY SeqMonotonic DEF IInv, TypeOK
<1>3. /\ Len(choice) \in Nat /\ Len(choice') = Len(choice) + 1
      /\ \A i \in 1 .. Len(choice) : choice'[i] = choice[i]
      /\ choice'[Len(choice) + 1] = c
  BY <1>1, <1>2, AppendProperties, LenProperties
<1>4. \A a \in 1 .. Len(heap) : LiveIn(Len(heap), heap[a])
  BY DEF StoreLive, HeapClosed, LiveIn
<1>5. SavedHeapLive'
  BY <1>1, <1>3, <1>4 DEF StoreLive, SavedHeapLive
<1>6. HeapClosed'
  BY <1>1 DEF StoreLive, HeapClosed
<1>7. ArgsLive'
  BY <1>1, <1>3 DEF ArgsLive
<1> QED
  BY <1>5, <1>6, <1>7 DEF StoreLive

(***************************************************************************)
(* RETRY and TRUST: the saved heap and the saved registers come back, and  *)
(* what the older choice points save is below what comes back.             *)
(***************************************************************************)
LEMMA RestoreLive ==
  ASSUME IInv, StoreLive, ArgsLive, Retry \/ Trust
  PROVE  StoreLive' /\ ArgsLive' /\ Len(heap') = Top.hp
<1> DEFINE n == Len(choice)
           hp == choice[n].hp
           tr == choice[n].tr
           reset == Trailed(trail, tr)
<1>1. /\ n \in 1 .. n /\ n \in Nat /\ choice[n] \in ChoicePt
      /\ hp \in 0 .. Len(heap) /\ tr \in 0 .. Len(trail)
  <2>1. choice # <<>>
    BY DEF Retry, Trust, RestoreTop, Restore
  <2> QED
    BY <2>1, TopType, StoreFacts DEF IInv
<1>2. /\ regs' = [r \in Reg |-> IF r \in AReg THEN choice[n].regs[r] ELSE regs[r]]
      /\ heap' = [a \in 1 .. hp |-> IF a \in reset THEN Ref(a) ELSE heap[a]]
      /\ trail' = SubSeq(trail, 1, tr)
  BY DEF Retry, Trust, RestoreTop, Restore, UnwindTrail, Top, Undo
<1>3. /\ Len(choice') \in 0 .. n
      /\ \A i \in 1 .. Len(choice') : /\ choice'[i].hp = choice[i].hp
                                      /\ choice'[i].tr = choice[i].tr
                                      /\ choice'[i].regs = choice[i].regs
  <2>1. CASE Retry
    BY <1>1, <2>1, RetryLeaves DEF IInv
  <2>2. CASE Trust
    BY <1>1, <2>2, TrustLeaves DEF IInv
  <2> QED
    BY <2>1, <2>2
<1>4. /\ Len(trail') = tr
      /\ \A i \in 1 .. tr : trail'[i] = trail[i]
  BY <1>1, <1>2, StoreFacts, SP!PrefixFacts
<1>5. Len(heap') = hp
  <2>1. Next
    BY DEF Next, Step, Control
  <2>2. IInv'
    BY <2>1, NextIInv
  <2>3. heap' \in Seq(Cell)
    BY <2>2 DEF IInv, TypeOK
  <2> QED
    BY <1>1, <1>2, <2>3, LenProperties
<1>6. \A a \in 1 .. hp : a \in 1 .. Len(heap) /\ (a \notin reset => LiveIn(hp, heap[a]))
  BY <1>1, StoreFacts DEF StoreLive, SavedHeapLive
<1> HIDE DEF hp, tr, reset
<1>7. HeapClosed'
  <2> SUFFICES ASSUME NEW a \in 1 .. hp
               PROVE  Tag(heap'[a]) \in {"REF", "STR"} => Val(heap'[a]) \in 1 .. hp
    BY <1>5 DEF HeapClosed
  <2>1. LiveIn(hp, Ref(a)) /\ hp \in Nat
    BY <1>1, LivePointers
  <2>2. heap'[a] = IF a \in reset THEN Ref(a) ELSE heap[a]
    BY <1>2
  <2>3. LiveIn(hp, heap'[a])
    BY <1>6, <2>1, <2>2
  <2> QED
    BY <1>1, <2>3, LiveCloses
<1>8. SavedHeapLive'
  <2> SUFFICES ASSUME NEW k \in 1 .. Len(choice'), NEW a \in 1 .. choice'[k].hp,
                      a \notin Trailed(trail', choice'[k].tr)
               PROVE  LiveIn(choice'[k].hp, heap'[a])
    BY DEF SavedHeapLive
  <2>1. /\ k \in 1 .. n /\ choice[k].hp \in 0 .. hp /\ choice[k].tr \in 0 .. tr
        /\ a \in 1 .. choice[k].hp /\ a \in 1 .. hp /\ choice[k].hp \in Nat
        /\ choice'[k].hp = choice[k].hp /\ choice'[k].tr = choice[k].tr
    BY <1>1, <1>3, StoreFacts DEF hp, tr
  <2>2. CASE a \in reset
    BY <1>2, <2>1, <2>2, LivePointers
  <2>3. CASE a \notin reset
    <3>1. a \notin Trailed(trail, choice[k].tr)
      BY SMTT(30), <1>1, <1>4, <2>1, <2>3, StoreFacts DEF Trailed, reset
    <3> QED
      BY <1>2, <2>1, <2>3, <3>1 DEF StoreLive, SavedHeapLive
  <2> QED
    BY <2>2, <2>3
<1>9. ArgsLive'
  <2>1. \A r \in AReg : r \in Reg
    BY DEF AReg, Reg
  <2>2. \A r \in AReg : LiveIn(hp, regs'[r])
    BY <1>1, <1>2, <2>1 DEF ArgsLive, hp
  <2>3. \A k \in 1 .. Len(choice') : k \in 1 .. n
    BY <1>1, <1>3
  <2> QED
    BY <1>3, <1>5, <2>2, <2>3 DEF ArgsLive
<1>10. Len(heap') = Top.hp
  BY <1>5 DEF Top, hp
<1> QED
  BY <1>7, <1>8, <1>9, <1>10 DEF StoreLive

-----------------------------------------------------------------------------
(* The registers, by what is done to them.                                 *)

(* They stay, and the heap does not shrink.                                *)
LEMMA SameArgsLive ==
  ASSUME IInv, ArgsLive, Len(heap') \in Nat, Len(heap) <= Len(heap'),
         UNCHANGED regs, UNCHANGED choice \/ choice' = <<>>
  PROVE  ArgsLive'
<1>1. Len(<<>>) = 0 /\ Len(heap) \in Nat
  BY EmptySeq, StoreFacts
<1> QED
  BY <1>1, LiveGrows DEF ArgsLive

(* A live cell is written to some of them.                                 *)
LEMMA WriteArgLive ==
  ASSUME IInv, ArgsLive, Len(heap') \in Nat, Len(heap) <= Len(heap'), UNCHANGED choice,
         NEW c, LiveIn(Len(heap'), c), \A r \in AReg : regs'[r] = regs[r] \/ regs'[r] = c
  PROVE  ArgsLive'
<1>1. Len(heap) \in Nat
  BY StoreFacts
<1>2. \A r \in AReg : regs'[r] = regs[r] \/ regs'[r] = c
  OBVIOUS
<1>3. \A r \in AReg : LiveIn(Len(heap'), regs'[r])
  BY <1>1, <1>2, LiveGrows DEF ArgsLive
<1> QED
  BY <1>3 DEF ArgsLive

(* What an instruction reads from a register is live.                      *)
LEMMA ReadLive ==
  ASSUME IInv, ArgsLive, NoStaleReads
  PROVE  /\ \A op \in ReadsOp1 : At(op) => LiveIn(Len(heap), regs[Word[2]])
         /\ \A op \in ReadsOp2 : At(op) => LiveIn(Len(heap), regs[Word[3]])
<1>1. \A c : ~Stale(c) <=> LiveIn(Len(heap), c)
  BY DEF Stale, LiveIn
<1> QED
  BY <1>1 DEF ArgsLive, NoStaleReads

-----------------------------------------------------------------------------
(* The steps of the machine.                                               *)

(* An instruction that does not call unify.                                *)
LEMMA OwnWork ==
  ASSUME WorkLive, status = "run", UNCHANGED todo, status' # "unify"
  PROVE  WorkLive'
BY DEF WorkLive

(* An instruction that goes on with the next.                              *)
LEMMA GoneOn ==
  ASSUME WorkLive, NEW op, At(op), NEW n, Goto(n)
  PROVE  WorkLive'
BY OwnWork DEF At, Fetched, Running, Goto, Tick

(* A step that touches neither heap nor registers nor choice points.       *)
LEMMA QuietLive ==
  ASSUME IInv, Live, UNCHANGED <<heap, trail, choice, regs>>, WorkLive'
  PROVE  Live'
BY StoreFacts, SameStoreLive, SameArgsLive DEF Live

(* Control, refusals, frames, comparisons and output are such steps.       *)
LEMMA QuietSteps ==
  ASSUME IInv, Live,
         \/ OutOfTicks \/ PcOutOfBounds \/ UnsupportedOpcode
         \/ Nop \/ Halt \/ Call \/ Execute \/ Proceed \/ Fail \/ EmptyChoiceStack
         \/ GetStructRead \/ GetStructMismatch \/ StreamEnd
         \/ Allocate \/ Deallocate \/ GetYVar \/ EmptyEnvStack \/ BadYSlot
         \/ BLt \/ BGt \/ ArithNotInt \/ BWrite \/ BNl \/ IoError
  PROVE  Live'
<1>1. CASE OutOfTicks \/ PcOutOfBounds \/ UnsupportedOpcode \/ EmptyChoiceStack
           \/ EmptyEnvStack \/ BadYSlot \/ ArithNotInt \/ IoError
  <2>1. UNCHANGED <<heap, trail, choice, regs, todo>>
    BY <1>1 DEF OutOfTicks, PcOutOfBounds, UnsupportedOpcode, EmptyChoiceStack,
       EmptyEnvStack, BadYSlot, ArithNotInt, IoError, Stop, Tick, store
  <2>2. status = "run" /\ status' # "unify"
    BY <1>1 DEF OutOfTicks, PcOutOfBounds, UnsupportedOpcode, EmptyChoiceStack,
       EmptyEnvStack, BadYSlot, ArithNotInt, IoError, Stop, At, Fetched, Running
  <2> QED
    BY <2>1, <2>2, OwnWork, QuietLive DEF Live
<1>2. CASE Fail \/ GetStructMismatch \/ StreamEnd \/ BLt \/ BGt \/ Halt
  <2>1. UNCHANGED <<heap, trail, choice, regs, todo>> /\ status = "run" /\ status' # "unify"
    BY <1>2 DEF Fail, GetStructMismatch, StreamEnd, BLt, BGt, BCmp, Halt, Backtrack,
       NoMoreChoices, NextChoice, Goto, Tick, store, At, Fetched, Running
  <2> QED
    BY <2>1, OwnWork, QuietLive DEF Live
<1>3. CASE Nop \/ Call \/ Execute \/ Proceed \/ GetStructRead \/ Allocate \/ Deallocate
           \/ GetYVar \/ BWrite \/ BNl
  <2>1. UNCHANGED <<heap, trail, choice, regs, todo>> /\ status = "run" /\ status' # "unify"
    BY <1>3 DEF Nop, Call, Execute, Proceed, GetStructRead, Allocate, Deallocate, GetYVar,
       BWrite, BNl, Goto, Tick, store, At, Fetched, Running
  <2> QED
    BY <2>1, OwnWork, QuietLive DEF Live
<1> QED
  BY <1>1, <1>2, <1>3

(* Choice points.                                                          *)
LEMMA ChoiceSteps ==
  ASSUME IInv, Live, Try \/ Retry \/ Trust \/ Cut
  PROVE  Live'
<1>1. WorkLive'
  BY GoneOn DEF Try, Retry, Trust, Cut, Live
<1>2. CASE Try
  BY <1>1, <1>2, TryLive DEF Live
<1>3. CASE Retry \/ Trust
  BY <1>1, <1>3, RestoreLive DEF Live
<1>4. CASE Cut
  <2>1. choice' = <<>> /\ UNCHANGED <<heap, trail, regs>>
    BY <1>4 DEF Cut, store
  <2> QED
    BY <1>1, <2>1, StoreFacts, SameStoreLive, SameArgsLive DEF Live
<1> QED
  BY <1>2, <1>3, <1>4

(* An instruction that pushes a cell and may write it to registers.        *)
LEMMA PushedLive ==
  ASSUME IInv, Live, NEW c \in Cell, LiveIn(Len(heap) + 1, c), NEW r1, NEW r2, NEW d,
         LiveIn(Len(heap) + 1, d),
         heap' = Append(heap, c), UNCHANGED <<trail, choice>>, WorkLive',
         \/ UNCHANGED regs
         \/ regs' = [regs EXCEPT ![r1] = d]
         \/ regs' = [regs EXCEPT ![r1] = d, ![r2] = d]
  PROVE  Live'
<1>1. StoreLive' /\ Len(heap') = Len(heap) + 1 /\ Len(heap) \in Nat
  BY PushLive, StoreFacts DEF Live
<1>2. LiveIn(Len(heap'), d) /\ Len(heap') \in Nat /\ Len(heap) <= Len(heap')
  BY <1>1
<1>3. \A r \in AReg : regs'[r] = regs[r] \/ regs'[r] = d
  <2>1. regs \in [Reg -> Cell] /\ \A r \in AReg : r \in Reg
    BY DEF IInv, TypeOK, AReg, Reg
  <2>2. CASE UNCHANGED regs
    BY <2>2
  <2>3. CASE regs' = [regs EXCEPT ![r1] = d]
    BY <2>1, <2>3
  <2>4. CASE regs' = [regs EXCEPT ![r1] = d, ![r2] = d]
    BY <2>1, <2>4
  <2> QED
    BY <2>2, <2>3, <2>4
<1>4. ArgsLive'
  BY <1>2, <1>3, WriteArgLive DEF Live
<1> QED
  BY <1>1, <1>4 DEF Live

(* An instruction that writes a live cell to a register.                   *)
LEMMA LoadedLive ==
  ASSUME IInv, Live, NEW r, NEW c, LiveIn(Len(heap), c),
         regs' = [regs EXCEPT ![r] = c], UNCHANGED <<heap, trail, choice>>, WorkLive'
  PROVE  Live'
<1>1. StoreLive' /\ Len(heap) \in Nat
  BY SameStoreLive, StoreFacts DEF Live
<1>2. LiveIn(Len(heap'), c) /\ Len(heap') \in Nat /\ Len(heap) <= Len(heap')
  BY <1>1
<1>3. \A i \in AReg : regs'[i] = regs[i] \/ regs'[i] = c
  BY DEF IInv, TypeOK, AReg, Reg
<1>4. ArgsLive'
  BY <1>2, <1>3, WriteArgLive DEF Live
<1> QED
  BY <1>1, <1>4 DEF Live

(* PUT_VAR, UNIFY_VAR and UNIFY in write mode, refused PUT_VAR, GET_STRUCT.*)
LEMMA PushingSteps ==
  ASSUME IInv, Live, NoStaleReads,
         \/ PutVar \/ BadRegister \/ UnifyVarWrite \/ GetStructDangling
         \/ (UnifyVal \/ UnifyConst) /\ mode = "write"
  PROVE  Live'
<1> DEFINE n == Len(heap)
<1>1. n \in Nat /\ Ref(n + 1) \in Cell /\ LiveIn(n + 1, Ref(n + 1))
  BY FreshVariable, LivePointers DEF IInv
<1>2. CASE PutVar \/ UnifyVarWrite
  <2>1. WorkLive'
    BY <1>2, GoneOn DEF PutVar, UnifyVarWrite, Live
  <2>2. heap' = Append(heap, Ref(n + 1)) /\ UNCHANGED <<trail, choice>>
    BY <1>2 DEF PutVar, UnifyVarWrite, AllocUnbound
  <2>3. \/ regs' = [regs EXCEPT ![Word[2]] = Ref(n + 1), ![Word[3]] = Ref(n + 1)]
        \/ regs' = [regs EXCEPT ![Word[2]] = Ref(n + 1)]
    BY <1>2 DEF PutVar, UnifyVarWrite
  <2> QED
    BY <1>1, <2>1, <2>2, <2>3, PushedLive
<1>3. CASE BadRegister
  <2>1. /\ UNCHANGED <<trail, choice, regs, todo>> /\ status = "run" /\ status' # "unify"
        /\ heap' = heap \/ heap' = Append(heap, Ref(n + 1))
    BY <1>3 DEF BadRegister, AllocUnbound, Stop, Tick, Fetched, Running
  <2>2. WorkLive'
    BY <2>1, OwnWork DEF Live
  <2> QED
    BY <1>1, <2>1, <2>2, PushedLive, QuietLive
<1>4. CASE GetStructDangling
  <2>1. /\ At("GET_STRUCT") /\ heap' = Append(heap, Fun(Imm[2], Word[3]))
        /\ UNCHANGED <<trail, choice, regs, todo>> /\ status = "run" /\ status' # "unify"
    BY <1>4 DEF GetStructDangling, Stop, Tick, At, Fetched, Running
  <2>2. Fun(Imm[2], Word[3]) \in Cell
    BY <2>1, StructOperands DEF IInv
  <2>3. LiveIn(n + 1, Fun(Imm[2], Word[3]))
    BY <1>1, LiveCells
  <2>4. WorkLive'
    BY <2>1, OwnWork DEF Live
  <2> QED
    BY <1>1, <2>1, <2>2, <2>3, <2>4, PushedLive
<1>5. ASSUME NEW c \in Cell, LiveIn(n, c), NEW k, WriteStream(c, k), NEW op, At(op)
      PROVE  Live'
  <2>1. LiveIn(n + 1, c)
    BY <1>1, <1>5, LiveGrows
  <2>2. WorkLive'
    BY <1>5, GoneOn DEF WriteStream, Live
  <2>3. heap' = Append(heap, c) /\ UNCHANGED <<trail, choice, regs>>
    BY <1>5 DEF WriteStream
  <2> QED
    BY <1>1, <2>1, <2>2, <2>3, PushedLive
<1>6. CASE UnifyVal /\ mode = "write"
  <2>1. At("UNIFY_VAL") /\ WriteStream(regs[Word[2]], pc + 1)
    BY <1>6 DEF UnifyVal, UnifyStream
  <2>2. regs[Word[2]] \in Cell /\ LiveIn(n, regs[Word[2]])
    BY <2>1, StreamOperands, ReadLive DEF IInv, Live, ReadsOp1
  <2> QED
    BY <1>5, <2>1, <2>2
<1>7. CASE UnifyConst /\ mode = "write"
  <2>1. At("UNIFY_CONST") /\ WriteStream(Imm, pc + 2)
    BY <1>7 DEF UnifyConst, UnifyStream
  <2>2. Imm \in Constant /\ Imm \in Cell
    BY <2>1, ConstantOperand DEF IInv
  <2> QED
    BY <1>1, <1>5, <2>1, <2>2, LiveCells
<1> QED
  BY <1>2, <1>3, <1>4, <1>6, <1>7

(* Instructions that load a register.                                      *)
LEMMA LoadingSteps ==
  ASSUME IInv, Live, NoStaleReads,
         \/ PutVal \/ PutConst \/ GetVar \/ UnifyVarRead \/ PutYVal \/ BIsAdd \/ BIsSub
  PROVE  Live'
<1> DEFINE n == Len(heap)
<1>1. n \in Nat
  BY StoreFacts
<1>2. UNCHANGED <<heap, trail, choice>>
  BY DEF PutVal, PutConst, GetVar, UnifyVarRead, PutYVal, BIsAdd, BIsSub, BIs, store
<1>3. WorkLive'
  <2>1. CASE PutVal \/ PutConst \/ GetVar
    BY <2>1, GoneOn DEF PutVal, PutConst, GetVar, Live
  <2>2. CASE UnifyVarRead \/ PutYVal
    BY <2>2, GoneOn DEF UnifyVarRead, PutYVal, Live
  <2>3. CASE BIsAdd \/ BIsSub
    BY <2>3, GoneOn DEF BIsAdd, BIsSub, BIs, Live
  <2> QED
    BY <2>1, <2>2, <2>3
<1>4. CASE PutVal
  <2>1. At("PUT_VAL") /\ regs' = [regs EXCEPT ![Word[3]] = regs[Word[2]]]
    BY <1>4 DEF PutVal
  <2>2. LiveIn(n, regs[Word[2]])
    BY <2>1, ReadLive DEF Live, ReadsOp1
  <2> QED
    BY <1>2, <1>3, <2>1, <2>2, LoadedLive
<1>5. CASE PutConst
  <2>1. At("PUT_CONST") /\ regs' = [regs EXCEPT ![Word[2]] = Imm]
    BY <1>5 DEF PutConst
  <2>2. LiveIn(n, Imm)
    BY <1>1, <2>1, ConstantOperand, LiveCells DEF IInv
  <2> QED
    BY <1>2, <1>3, <2>1, <2>2, LoadedLive
<1>6. CASE GetVar
  <2>1. At("GET_VAR") /\ regs' = [regs EXCEPT ![Word[2]] = regs[Word[3]]]
    BY <1>6 DEF GetVar
  <2>2. LiveIn(n, regs[Word[3]])
    BY <2>1, ReadLive DEF Live, ReadsOp2
  <2> QED
    BY <1>2, <1>3, <2>1, <2>2, LoadedLive
<1>7. CASE UnifyVarRead
  <2>1. up <= n /\ regs' = [regs EXCEPT ![Word[2]] = heap[up]]
    BY <1>7 DEF UnifyVarRead
  <2>2. up \in 1 .. n
    BY <1>1, <2>1 DEF IInv, TypeOK
  <2>3. LiveIn(n, heap[up])
    BY <2>2 DEF Live, StoreLive, HeapClosed, LiveIn
  <2> QED
    BY <1>2, <1>3, <2>1, <2>3, LoadedLive
<1>8. CASE PutYVal
  <2> DEFINE c == env[ep].ys[Word[2] + 1]
  <2>1. At("PUT_Y_VAL") /\ ep > 0 /\ HasSlot /\ regs' = [regs EXCEPT ![Word[3]] = c]
    BY <1>8 DEF PutYVal
  <2> HIDE DEF c
  <2>2. LiveIn(n, c)
    BY <2>1 DEF NoStaleReads, Stale, LiveIn, c
  <2> QED
    BY <1>2, <1>3, <2>1, <2>2, LoadedLive
<1>9. ASSUME NEW op, NEW m, BIs(op, m)
      PROVE  Live'
  <2>1. regs' = [regs EXCEPT ![0] = Encode(m)] /\ LiveIn(n, Encode(m))
    BY <1>1, <1>9, LiveCells DEF BIs, Encode
  <2> QED
    BY <1>2, <1>3, <2>1, LoadedLive
<1> QED
  BY <1>4, <1>5, <1>6, <1>7, <1>8, <1>9 DEF BIsAdd, BIsSub

-----------------------------------------------------------------------------
(* Unification.                                                            *)

(* An instruction that calls unify on two live cells.                      *)
LEMMA StartedLive ==
  ASSUME IInv, Live, NEW c1, NEW c2, LiveIn(Len(heap), c1), LiveIn(Len(heap), c2),
         StartUnify(c1, c2), UNCHANGED <<regs, store, choice>>
  PROVE  Live'
<1>1. UNCHANGED <<heap, trail, choice, regs>> /\ todo' = <<<<c1, c2>>>> /\ status' = "unify"
  BY DEF StartUnify, store
<1>2. Len(todo') = 1 /\ todo'[1] = <<c1, c2>>
  BY <1>1
<1>3. WorkLive'
  BY <1>1, <1>2 DEF WorkLive
<1> QED
  BY <1>1, <1>3, QuietLive

(* A cell of the heap is live.                                             *)
LEMMA HeapCellLive ==
  ASSUME IInv, StoreLive, NEW a \in 1 .. Len(heap)
  PROVE  LiveIn(Len(heap), heap[a])
BY DEF StoreLive, HeapClosed, LiveIn

(* The instructions that call it.                                          *)
LEMMA StartingSteps ==
  ASSUME IInv, Live, NoStaleReads,
         GetConst \/ GetVal \/ ((UnifyVal \/ UnifyConst) /\ mode = "read")
  PROVE  Live'
<1>1. Len(heap) \in Nat
  BY StoreFacts
<1>2. CASE GetConst
  <2>1. At("GET_CONST") /\ StartUnify(regs[Word[2]], Imm) /\ UNCHANGED <<regs, store, choice>>
    BY <1>2 DEF GetConst
  <2>2. LiveIn(Len(heap), regs[Word[2]]) /\ LiveIn(Len(heap), Imm)
    BY <1>1, <2>1, ReadLive, ConstantOperand, LiveCells DEF IInv, Live, ReadsOp1
  <2> QED
    BY <2>1, <2>2, StartedLive
<1>3. CASE GetVal
  <2>1. /\ At("GET_VAL") /\ StartUnify(regs[Word[2]], regs[Word[3]])
        /\ UNCHANGED <<regs, store, choice>>
    BY <1>3 DEF GetVal
  <2>2. LiveIn(Len(heap), regs[Word[2]]) /\ LiveIn(Len(heap), regs[Word[3]])
    BY <2>1, ReadLive DEF Live, ReadsOp1, ReadsOp2
  <2> QED
    BY <2>1, <2>2, StartedLive
<1>4. CASE UnifyVal /\ mode = "read"
  <2>1. /\ At("UNIFY_VAL") /\ StartUnify(regs[Word[2]], heap[up]) /\ up <= Len(heap)
        /\ UNCHANGED <<regs, store, choice>>
    BY <1>4 DEF UnifyVal, UnifyStream, WriteStream
  <2>2. LiveIn(Len(heap), regs[Word[2]])
    BY <2>1, ReadLive DEF Live, ReadsOp1
  <2>3. up \in 1 .. Len(heap)
    BY <1>1, <2>1 DEF IInv, TypeOK
  <2> QED
    BY <2>1, <2>2, <2>3, HeapCellLive, StartedLive DEF Live
<1>5. CASE UnifyConst /\ mode = "read"
  <2>1. /\ At("UNIFY_CONST") /\ StartUnify(heap[up], Imm) /\ up <= Len(heap)
        /\ UNCHANGED <<regs, store, choice>>
    BY <1>5 DEF UnifyConst, UnifyStream, WriteStream
  <2>2. LiveIn(Len(heap), Imm)
    BY <1>1, <2>1, ConstantOperand, LiveCells DEF IInv
  <2>3. up \in 1 .. Len(heap)
    BY <1>1, <2>1 DEF IInv, TypeOK
  <2> QED
    BY <2>1, <2>2, <2>3, HeapCellLive, StartedLive DEF Live
<1> QED
  BY <1>2, <1>3, <1>4, <1>5

(* The two cells that are compared are live, and so is what is left.       *)
LEMMA ComparedLive ==
  ASSUME IInv, Live, Comparing
  PROVE  /\ LiveIn(Len(heap), Left) /\ LiveIn(Len(heap), Right)
         /\ Left \in Cell /\ Right \in Cell
         /\ Tail(todo) \in Seq(Cell \X Cell)
         /\ \A i \in 1 .. Len(Tail(todo)) : /\ LiveIn(Len(heap), Tail(todo)[i][1])
                                            /\ LiveIn(Len(heap), Tail(todo)[i][2])
<1>1. todo \in Seq(Cell \X Cell) /\ todo # <<>> /\ status = "unify"
  BY DEF IInv, TypeOK, Comparing
<1>2. /\ Head(todo) = todo[1] /\ Tail(todo) \in Seq(Cell \X Cell) /\ Len(todo) \in Nat
      /\ Len(Tail(todo)) = Len(todo) - 1
      /\ \A i \in 1 .. Len(Tail(todo)) : Tail(todo)[i] = todo[i + 1]
  BY <1>1, HeadTailProperties, LenProperties
<1>3. 1 \in 1 .. Len(todo)
  BY <1>1, <1>2, EmptySeq
<1>4. /\ \A i \in 1 .. Len(todo) : /\ LiveIn(Len(heap), todo[i][1])
                                   /\ LiveIn(Len(heap), todo[i][2])
  BY <1>1 DEF Live, WorkLive
<1>5. LiveIn(Len(heap), Left) /\ LiveIn(Len(heap), Right)
  BY <1>2, <1>3, <1>4 DEF Left, Right
<1>6. \A i \in 1 .. Len(Tail(todo)) : /\ LiveIn(Len(heap), Tail(todo)[i][1])
                                      /\ LiveIn(Len(heap), Tail(todo)[i][2])
  BY <1>2, <1>4
<1> QED
  BY <1>2, <1>5, <1>6, Compared DEF IInv

(* Live pairs in front of what is left.                                    *)
LEMMA PairsInFront ==
  ASSUME IInv, Live, Comparing, NEW s \in Seq(Cell \X Cell),
         \A i \in 1 .. Len(s) : LiveIn(Len(heap), s[i][1]) /\ LiveIn(Len(heap), s[i][2]),
         todo' = s \o Tail(todo), UNCHANGED <<status, heap, trail, choice, regs>>
  PROVE  Live'
<1> DEFINE t == Tail(todo)
<1>1. /\ t \in Seq(Cell \X Cell)
      /\ \A i \in 1 .. Len(t) : LiveIn(Len(heap), t[i][1]) /\ LiveIn(Len(heap), t[i][2])
  BY ComparedLive
<1> HIDE DEF t
<1>2. /\ Len(s \o t) = Len(s) + Len(t) /\ Len(s) \in Nat /\ Len(t) \in Nat
      /\ \A i \in 1 .. Len(s) + Len(t) :
           (s \o t)[i] = IF i <= Len(s) THEN s[i] ELSE t[i - Len(s)]
  BY <1>1, ConcatProperties, LenProperties
<1>3. \A i \in 1 .. Len(s \o t) : /\ LiveIn(Len(heap), (s \o t)[i][1])
                                  /\ LiveIn(Len(heap), (s \o t)[i][2])
  <2> SUFFICES ASSUME NEW i \in 1 .. Len(s) + Len(t)
               PROVE  /\ LiveIn(Len(heap), (s \o t)[i][1])
                      /\ LiveIn(Len(heap), (s \o t)[i][2])
    BY <1>2
  <2>1. CASE i <= Len(s)
    BY <1>2, <2>1
  <2>2. CASE ~(i <= Len(s))
    <3>1. i - Len(s) \in 1 .. Len(t) /\ (s \o t)[i] = t[i - Len(s)]
      BY <1>2, <2>2
    <3> QED
      BY <1>1, <3>1
  <2> QED
    BY <2>1, <2>2
<1>4. WorkLive'
  BY <1>3 DEF WorkLive, Comparing, t
<1> QED
  BY <1>4, QuietLive

(* unify_struct goes on with the arguments, or cleared words.              *)
LEMMA ArgumentsLive ==
  ASSUME IInv, Live, SameStructure
  PROVE  LET s == ArgPairs(heap, Val(Left), Val(Right))
         IN  \A i \in 1 .. Len(s) : LiveIn(Len(heap), s[i][1]) /\ LiveIn(Len(heap), s[i][2])
<1> DEFINE a == Val(Left)
           b == Val(Right)
           s == ArgPairs(heap, a, b)
<1>1. s \in Seq(Cell \X Cell) /\ Len(s) \in Nat
  BY ArgPairsType, LenProperties DEF IInv
<1>2. \A k : LiveIn(Len(heap), ArgCell(heap, k))
  BY StoreFacts, HeapCellLive, LiveCells DEF ArgCell, Live
<1>3. \A i \in 1 .. Len(s) : s[i] = <<ArgCell(heap, a + i), ArgCell(heap, b + i)>>
  <2>1. DOMAIN s = 1 .. Len(s)
    BY <1>1, LenProperties
  <2> QED
    BY <2>1 DEF ArgPairs
<1> HIDE DEF s
<1>4. \A i \in 1 .. Len(s) : LiveIn(Len(heap), s[i][1]) /\ LiveIn(Len(heap), s[i][2])
  BY <1>2, <1>3
<1> QED
  BY <1>4 DEF s

(* Binding an unbound variable of the heap to a live cell.                 *)
LEMMA BoundLive ==
  ASSUME IInv, StoreLive, NEW x \in Cell, NEW y \in Cell, LiveIn(Len(heap), y),
         Bind(x, y), UNCHANGED choice
  PROVE  StoreLive' /\ Len(heap') = Len(heap)
<1> DEFINE v == Val(x)
<1>1. v \in 1 .. Len(heap) /\ heap' = [heap EXCEPT ![v] = y] /\ trail' = Append(trail, v)
  BY DEF Bind, IsUnbound
<1>2. \A a \in 1 .. Len(heap) : LiveIn(Len(heap), heap[a])
  BY HeapCellLive
<1> HIDE DEF v
<1>3. heap \in Seq(Cell) /\ Len(heap) <= Len(heap)
  BY StoreFacts
<1> QED
  BY <1>1, <1>2, <1>3, OverwriteLive DEF StoreLive

(* The steps of unify.                                                     *)
LEMMA UnificationLive ==
  ASSUME IInv, Live, Unification
  PROVE  Live'
<1>1. CASE UnifyDeref
  <2>1. /\ Comparing /\ todo' = <<<<Follow(Left), Follow(Right)>>>> \o Tail(todo)
        /\ UNCHANGED <<status, heap, trail, choice, regs>>
    BY <1>1 DEF UnifyDeref, store
  <2>2. ASSUME NEW c, LiveIn(Len(heap), c)
        PROVE  LiveIn(Len(heap), Follow(c))
    <3>1. CASE IsBound(c)
      <4>1. Val(c) \in 1 .. Len(heap)
        BY <3>1 DEF IsBound, Val
      <4> QED
        BY <3>1, <4>1, HeapCellLive DEF Follow, Live
    <3>2. CASE ~IsBound(c)
      BY <2>2, <3>2 DEF Follow
    <3> QED
      BY <3>1, <3>2
  <2> DEFINE l == Follow(Left)
             r == Follow(Right)
             s == <<<<l, r>>>>
  <2>3. l \in Cell /\ r \in Cell /\ LiveIn(Len(heap), l) /\ LiveIn(Len(heap), r)
    BY <2>1, <2>2, ComparedLive, FollowType DEF IInv
  <2> HIDE DEF l, r
  <2>4. s \in Seq(Cell \X Cell) /\ Len(s) = 1 /\ s[1][1] = l /\ s[1][2] = r
    BY <2>3, OnePair
  <2>5. todo' = s \o Tail(todo)
    BY <2>1 DEF l, r
  <2> HIDE DEF s
  <2>6. \A i \in 1 .. Len(s) : LiveIn(Len(heap), s[i][1]) /\ LiveIn(Len(heap), s[i][2])
    BY <2>3, <2>4
  <2> QED
    BY <2>1, <2>4, <2>5, <2>6, PairsInFront
<1>2. CASE UnifyEqual
  <2>1. Comparing /\ todo' = Tail(todo) /\ UNCHANGED <<status, heap, trail, choice, regs>>
    BY <1>2 DEF UnifyEqual, store
  <2>2. WorkLive'
    BY <2>1, ComparedLive DEF WorkLive, Comparing
  <2> QED
    BY <2>1, <2>2, QuietLive
<1>3. CASE UnifyBind
  <2>1. /\ Comparing
        /\ Bind(Left, Right) \/ Bind(Right, Left)
        /\ todo' = Tail(todo) /\ UNCHANGED <<status, choice, regs>>
    BY <1>3 DEF UnifyBind, Differ
  <2>2. StoreLive' /\ Len(heap') = Len(heap) /\ Len(heap) \in Nat
    <3>1. /\ LiveIn(Len(heap), Left) /\ LiveIn(Len(heap), Right)
          /\ Left \in Cell /\ Right \in Cell
      BY <2>1, ComparedLive
    <3>2. CASE Bind(Left, Right)
      BY <2>1, <3>1, <3>2, BoundLive, StoreFacts DEF Live
    <3>3. CASE Bind(Right, Left)
      BY <2>1, <3>1, <3>3, BoundLive, StoreFacts DEF Live
    <3> QED
      BY <2>1, <3>2, <3>3
  <2>3. WorkLive'
    BY <2>1, <2>2, ComparedLive DEF WorkLive, Comparing
  <2>4. ArgsLive'
    BY <2>1, <2>2, SameArgsLive DEF Live
  <2> QED
    BY <2>2, <2>3, <2>4 DEF Live
<1>4. CASE UnifyDangling
  <2>1. status' = "panic" /\ UNCHANGED <<heap, trail, choice, regs>>
    BY <1>4 DEF UnifyDangling, store
  <2> QED
    BY <2>1, QuietLive DEF WorkLive
<1>5. CASE UnifyStruct
  <2> DEFINE s == ArgPairs(heap, Val(Left), Val(Right))
  <2>1. /\ Comparing /\ SameStructure /\ todo' = s \o Tail(todo)
        /\ UNCHANGED <<status, heap, trail, choice, regs>>
    BY <1>5 DEF UnifyStruct, Differ, store
  <2>2. s \in Seq(Cell \X Cell)
    BY <2>1, ArgPairsType DEF IInv
  <2>3. \A i \in 1 .. Len(s) : LiveIn(Len(heap), s[i][1]) /\ LiveIn(Len(heap), s[i][2])
    BY <2>1, ArgumentsLive
  <2> HIDE DEF s
  <2> QED
    BY <2>1, <2>2, <2>3, PairsInFront
<1>6. CASE UnifyMismatch
  <2>1. /\ todo' = <<>> /\ status' # "unify" /\ UNCHANGED <<heap, trail, choice, regs>>
    BY <1>6 DEF UnifyMismatch, NoMoreChoices, NextChoice, store
  <2> QED
    BY <2>1, QuietLive DEF WorkLive
<1>7. CASE UnifyDone
  <2>1. /\ todo = <<>> /\ status' = "run" /\ UNCHANGED <<heap, trail, choice, regs, todo>>
    BY <1>7 DEF UnifyDone, store
  <2> QED
    BY <2>1, QuietLive DEF WorkLive
<1> QED
  BY <1>1, <1>2, <1>3, <1>4, <1>5, <1>6, <1>7 DEF Unification

(* GET_STRUCT on a variable.                                               *)
LEMMA GetStructWriteLive ==
  ASSUME IInv, Live, GetStructWrite
  PROVE  Live' /\ Len(heap') = Len(heap) + 1
<1> DEFINE n == Len(heap)
           f == Fun(Imm[2], Word[3])
           h == Append(heap, f)
           v == Val(Target)
           c == Str(n + 1)
<1>1. /\ At("GET_STRUCT") /\ Bindable(Target) /\ heap' = [h EXCEPT ![v] = c]
      /\ trail' = Append(trail, v) /\ regs' = [regs EXCEPT ![Word[2]] = c]
      /\ UNCHANGED choice /\ Goto(pc + 2)
  BY DEF GetStructWrite
<1>2. n \in Nat /\ f \in Cell /\ c \in Cell /\ LiveIn(n + 1, c) /\ LiveIn(n + 1, f)
  <2>1. n \in Nat /\ f \in Cell
    BY <1>1, StoreFacts, StructOperands DEF IInv
  <2>2. c \in Cell
    BY <2>1 DEF Str, Cell
  <2> QED
    BY <2>1, <2>2, LivePointers, LiveCells
<1>3. v \in 1 .. n + 1
  <2>1. CASE IsUnbound(heap, Target)
    BY <1>2, <2>1 DEF IsUnbound
  <2>2. CASE Target = Ref(n + 1)
    BY <1>2, <2>2 DEF Ref, Val
  <2> QED
    BY <1>1, <2>1, <2>2 DEF Bindable
<1>4. /\ h \in Seq(Cell) /\ Len(h) = n + 1
      /\ \A a \in 1 .. n : h[a] = heap[a]
      /\ h[n + 1] = f
  BY <1>2, StoreFacts, AppendProperties
<1> HIDE DEF f, h, v, c
<1>5. \A a \in 1 .. Len(h) : LiveIn(Len(h), h[a])
  <2>1. \A a \in 1 .. n : LiveIn(n + 1, heap[a])
    BY <1>2, HeapCellLive, LiveGrows DEF Live
  <2> QED
    BY <1>2, <1>4, <2>1
<1>6. StoreLive' /\ Len(heap') = n + 1
  <2>1. /\ v \in 1 .. Len(h) /\ Len(heap) <= Len(h) /\ SavedHeapLive /\ LiveIn(Len(h), c)
        /\ h \in Seq(Cell) /\ c \in Cell
    BY <1>2, <1>3, <1>4 DEF Live, StoreLive
  <2>2. \A a \in 1 .. Len(heap) : h[a] = heap[a]
    BY <1>4
  <2>3. heap' = [h EXCEPT ![v] = c] /\ trail' = Append(trail, v) /\ UNCHANGED choice
    BY <1>1
  <2>4. StoreLive' /\ Len(heap') = Len(h)
    BY <1>5, <2>1, <2>2, <2>3, OverwriteLive
  <2> QED
    BY <1>4, <2>4
<1>7. WorkLive'
  BY <1>1, GoneOn DEF Live
<1>8. \A r \in AReg : regs'[r] = regs[r] \/ regs'[r] = c
  BY <1>1 DEF IInv, TypeOK, AReg, Reg
<1>9. ArgsLive'
  BY <1>1, <1>2, <1>6, <1>8, WriteArgLive DEF Live
<1> QED
  BY <1>6, <1>7, <1>9 DEF Live

-----------------------------------------------------------------------------
(* Nothing is live or stale in the beginning: there are cleared words only.*)
LEMMA InitLive == Init => Live
<1> SUFFICES ASSUME Init
             PROVE  Live
  OBVIOUS
<1>1. /\ Len(heap) = 0 /\ Len(choice) = 0 /\ todo = <<>> /\ status = "run"
      /\ \A r \in AReg : regs[r] = ZeroWord
  BY EmptySeq DEF Init, AReg, Reg
<1> QED
  BY <1>1 DEF Live, StoreLive, HeapClosed, SavedHeapLive, ArgsLive, WorkLive, LiveIn

(* No step leaves a reference past the end of the heap where it matters.   *)
LEMMA NextLive ==
  ASSUME IInv, Live, NoStaleReads, [Next]_vars
  PROVE  Live'
<1>1. CASE Refuse
  BY <1>1, QuietSteps, PushingSteps DEF Refuse
<1>2. CASE Control
  BY <1>2, QuietSteps, ChoiceSteps DEF Control
<1>3. CASE Arguments
  BY <1>3, PushingSteps, LoadingSteps, StartingSteps DEF Arguments
<1>4. CASE Unification
  BY <1>4, UnificationLive
<1>5. CASE Structures
  <2>1. mode = "read" \/ mode = "write"
    BY DEF IInv, TypeOK
  <2> QED
    BY <1>5, <2>1, QuietSteps, PushingSteps, LoadingSteps, StartingSteps,
       GetStructWriteLive DEF Structures
<1>6. CASE Environments
  BY <1>6, QuietSteps, LoadingSteps DEF Environments
<1>7. CASE Builtins
  BY <1>7, QuietSteps, LoadingSteps DEF Builtins
<1>8. CASE UNCHANGED vars
  BY <1>8, QuietLive DEF vars, Live, WorkLive
<1> QED
  BY <1>1, <1>2, <1>3, <1>4, <1>5, <1>6, <1>7, <1>8 DEF Next, Step, Stopped

(***************************************************************************)
(* As long as no stale reference is read from an X register or a Y slot,   *)
(* every reference in the heap points into the heap, through backtracking, *)
(* cut, and unification that fails halfway.                                *)
(***************************************************************************)
THEOREM HeapStaysClosed == Spec /\ []NoStaleReads => []HeapClosed
<1>1. IInv /\ Live /\ NoStaleReads /\ [Next]_vars => Live'
  BY NextLive
<1>2. Live => HeapClosed
  BY DEF Live, StoreLive
<1> QED
  BY <1>1, <1>2, InitLive, InvariantHolds, PTL DEF Spec

-----------------------------------------------------------------------------
(***************************************************************************)
(* References form no cycle: among any cells there is one that holds no    *)
(* reference to another of them.                                           *)
(***************************************************************************)
Leads(a, S) == Tag(heap[a]) = "REF" /\ Val(heap[a]) \in S \ {a}

NoCycle == \A S \in SUBSET (1 .. Len(heap)) : S # {} => \E a \in S : ~Leads(a, S)

(* All that steps do to the heap.                                          *)
LEMMA HeapChanges ==
  ASSUME [Next]_vars
  PROVE  \/ UNCHANGED heap
         \/ \E c : heap' = Append(heap, c)
         \/ UnifyBind \/ GetStructWrite \/ Retry \/ Trust
<1>1. CASE Refuse
  BY <1>1 DEF Refuse, OutOfTicks, PcOutOfBounds, UnsupportedOpcode, BadRegister, AllocUnbound, store
<1>2. CASE Control
  BY <1>2 DEF Control, Nop, Halt, Call, Execute, Proceed, Fail, Try, EmptyChoiceStack, Cut, store
<1>3. CASE Arguments
  BY <1>3 DEF Arguments, PutVar, PutVal, PutConst, GetVar, GetConst, GetVal, AllocUnbound, store
<1>4. CASE Unification
  BY <1>4 DEF Unification, UnifyDeref, UnifyEqual, UnifyDangling, UnifyStruct, UnifyMismatch,
     UnifyDone, store
<1>5. CASE Structures
  BY <1>5 DEF Structures, GetStructRead, GetStructDangling, GetStructMismatch, StreamEnd,
     UnifyVarRead, UnifyVarWrite, UnifyVal, UnifyConst, UnifyStream, WriteStream, AllocUnbound, store
<1>6. CASE Environments
  BY <1>6 DEF Environments, Allocate, Deallocate, GetYVar, PutYVal, EmptyEnvStack, BadYSlot, store
<1>7. CASE Builtins
  BY <1>7 DEF Builtins, BIsAdd, BIsSub, BIs, BLt, BGt, BCmp, ArithNotInt, BWrite, BNl, IoError, store
<1>8. CASE UNCHANGED vars
  BY <1>8 DEF vars
<1> QED
  BY <1>1, <1>2, <1>3, <1>4, <1>5, <1>6, <1>7, <1>8 DEF Next, Step, Stopped

(* A cell that is pushed is referred to by none but itself.                *)
LEMMA PushNoCycle ==
  ASSUME IInv, HeapClosed, NoCycle, NEW c, heap' = Append(heap, c)
  PROVE  NoCycle'
<1> DEFINE n == Len(heap)
<1>1. /\ n \in Nat /\ Len(heap') = n + 1
      /\ \A a \in 1 .. n : heap'[a] = heap[a]
  <2>1. heap \in Seq(Cell \cup {c})
    BY StoreFacts
  <2> QED
    BY <2>1, StoreFacts, AppendProperties
<1> SUFFICES ASSUME NEW S \in SUBSET (1 .. n + 1), S # {}, \A a \in S : Leads(a, S)'
             PROVE  FALSE
  BY <1>1 DEF NoCycle
<1> DEFINE T == S \ {n + 1}
<1>2. T \in SUBSET (1 .. n)
  <2>1. ASSUME NEW a \in T PROVE a \in 1 .. n
    <3>1. a \in 1 .. n + 1 /\ a # n + 1
      OBVIOUS
    <3> QED
      BY <1>1, <3>1
  <2> QED
    BY <2>1
<1>3. \A a \in T : Leads(a, T)
  <2> TAKE a \in T
  <2>1. a \in 1 .. n /\ Tag(heap[a]) = "REF" /\ Val(heap[a]) \in S \ {a}
    BY <1>1, <1>2 DEF Leads
  <2>2. Val(heap[a]) \in 1 .. n
    BY <2>1 DEF HeapClosed
  <2> QED
    BY <1>1, <2>1, <2>2 DEF Leads
<1>4. T = {}
  BY <1>2, <1>3 DEF NoCycle
<1>5. S = {n + 1}
  BY <1>4
<1> QED
  BY <1>5 DEF Leads

(* A cell that holds no reference to another ends every way through it.    *)
LEMMA EndedNoCycle ==
  ASSUME NoCycle,
         \A a \in 1 .. Len(heap') :
           \/ a \in 1 .. Len(heap) /\ heap'[a] = heap[a]
           \/ Tag(heap'[a]) # "REF"
           \/ Val(heap'[a]) = a
           \/ LET b == Val(heap'[a]) IN Tag(heap'[b]) # "REF" \/ Val(heap'[b]) = b
  PROVE  NoCycle'
<1> SUFFICES ASSUME NEW S \in SUBSET (1 .. Len(heap')), S # {}, \A a \in S : Leads(a, S)'
             PROVE  FALSE
  BY DEF NoCycle
<1>1. \A a \in S : Tag(heap'[a]) = "REF" /\ Val(heap'[a]) \in S \ {a}
  BY DEF Leads
<1>2. \A a \in S : a \in 1 .. Len(heap) /\ heap'[a] = heap[a]
  BY <1>1
<1>3. \A a \in S : Leads(a, S)
  BY <1>1, <1>2 DEF Leads
<1> QED
  BY <1>2, <1>3 DEF NoCycle

(* Retry and trust make variables of some cells and keep the others.       *)
LEMMA RestoreNoCycle ==
  ASSUME IInv, NoCycle, Retry \/ Trust
  PROVE  NoCycle'
<1> DEFINE n == Len(choice)
           hp == choice[n].hp
           reset == Trailed(trail, choice[n].tr)
<1>1. n \in 1 .. n /\ hp \in 0 .. Len(heap) /\ Len(heap) \in Nat
  <2>1. choice # <<>>
    BY DEF Retry, Trust, RestoreTop, Restore
  <2> QED
    BY <2>1, TopType, StoreFacts DEF IInv
<1>2. heap' = [a \in 1 .. hp |-> IF a \in reset THEN Ref(a) ELSE heap[a]]
  BY DEF Retry, Trust, RestoreTop, Restore, Top, Undo
<1>3. Len(heap') = hp
  BY <1>1, <1>2
<1>4. ASSUME NEW a \in 1 .. Len(heap')
      PROVE  \/ a \in 1 .. Len(heap) /\ heap'[a] = heap[a]
             \/ Val(heap'[a]) = a
  <2>1. a \in 1 .. hp /\ a \in 1 .. Len(heap)
    BY <1>1, <1>3
  <2> QED
    BY <1>2, <2>1 DEF Ref, Val
<1> QED
  BY <1>4, EndedNoCycle

(* A variable is bound to a value, or to another variable.                 *)
LEMMA BindNoCycle ==
  ASSUME IInv, Live, NoCycle, UnifyBind
  PROVE  NoCycle'
<1> DEFINE n == Len(heap)
<1>1. /\ LiveIn(n, Left) /\ LiveIn(n, Right) /\ Left \in Cell /\ Right \in Cell
      /\ ~IsBound(Left) /\ ~IsBound(Right) /\ Left # Right
      /\ Bind(Left, Right) \/ Bind(Right, Left)
  BY ComparedLive DEF UnifyBind, Differ
<1>2. heap \in Seq(Cell) /\ n \in Nat
  BY StoreFacts
<1>3. ASSUME NEW x \in Cell, NEW y \in Cell, LiveIn(n, y), ~IsBound(y), x # y, Bind(x, y)
      PROVE  NoCycle'
  <2> DEFINE v == Val(x)
             b == Val(y)
  <2>1. v \in 1 .. n /\ Tag(x) = "REF" /\ heap[v] = x /\ heap' = [heap EXCEPT ![v] = y]
    BY <1>3 DEF Bind, IsUnbound
  <2>2. Len(heap') = n /\ \A a \in 1 .. n : heap'[a] = IF a = v THEN y ELSE heap[a]
    BY <1>2, <1>3, <2>1
  <2>3. ASSUME Tag(y) = "REF"
        PROVE  b \in 1 .. n /\ heap[b] = y /\ b # v
    <3>1. b \in 1 .. n
      <4>1. n \in Nat \ {0}
        BY <1>2, <2>1
      <4> QED
        BY <1>3, <2>3, <4>1, LiveCloses
    <3>2. y \in {"REF"} \X (1 .. n)
      BY <1>3, <2>3, <3>1 DEF Cell, Tag, Val
    <3>3. heap[b] = y
      BY <1>3, <3>2 DEF IsBound, IsUnbound
    <3> QED
      BY <1>3, <2>1, <3>1, <3>3
  <2> HIDE DEF v, b
  <2>4. ASSUME NEW a \in 1 .. Len(heap')
        PROVE  \/ a \in 1 .. n /\ heap'[a] = heap[a]
               \/ Tag(heap'[a]) # "REF"
               \/ LET d == Val(heap'[a]) IN Val(heap'[d]) = d
    <3>1. CASE a # v
      BY <2>2, <3>1
    <3>2. CASE a = v /\ Tag(y) = "REF"
      <4>1. heap'[a] = y /\ Val(y) = b /\ heap'[b] = y
        BY <2>2, <2>3, <3>2 DEF b
      <4> QED
        BY <4>1
    <3>3. CASE a = v /\ Tag(y) # "REF"
      BY <2>2, <3>3
    <3> QED
      BY <3>1, <3>2, <3>3
  <2> QED
    BY <2>4, EndedNoCycle
<1> QED
  BY <1>1, <1>3

(* A variable is bound to the structure that is built.                     *)
LEMMA GetStructNoCycle ==
  ASSUME IInv, NoCycle, GetStructWrite
  PROVE  NoCycle'
<1> DEFINE n == Len(heap)
           f == Fun(Imm[2], Word[3])
           h == Append(heap, f)
           v == Val(Target)
           c == Str(n + 1)
<1>1. At("GET_STRUCT") /\ heap' = [h EXCEPT ![v] = c]
  BY DEF GetStructWrite
<1>2. n \in Nat /\ f \in Cell /\ c \in Cell /\ Tag(f) # "REF" /\ Tag(c) # "REF"
  <2>1. n \in Nat /\ f \in Cell
    BY <1>1, StoreFacts, StructOperands DEF IInv
  <2> QED
    BY <2>1 DEF Str, Fun, Cell, Tag
<1>3. /\ h \in Seq(Cell) /\ Len(h) = n + 1
      /\ \A a \in 1 .. n : h[a] = heap[a]
      /\ h[n + 1] = f
  BY <1>2, StoreFacts, AppendProperties
<1> HIDE DEF f, h, c, v
<1>4. Len(heap') = n + 1 /\ \A a \in 1 .. n + 1 : heap'[a] = c \/ heap'[a] = h[a]
  BY <1>1, <1>2, <1>3
<1>5. ASSUME NEW a \in 1 .. Len(heap')
      PROVE  \/ a \in 1 .. n /\ heap'[a] = heap[a]
             \/ Tag(heap'[a]) # "REF"
  BY <1>2, <1>3, <1>4
<1> QED
  BY <1>5, EndedNoCycle

LEMMA NextNoCycle ==
  ASSUME IInv, Live, NoCycle, [Next]_vars
  PROVE  NoCycle'
<1>1. CASE UNCHANGED heap
  BY <1>1 DEF NoCycle, Leads
<1>2. CASE \E c : heap' = Append(heap, c)
  BY <1>2, PushNoCycle DEF Live, StoreLive
<1> QED
  BY <1>1, <1>2, HeapChanges, BindNoCycle, GetStructNoCycle, RestoreNoCycle

-----------------------------------------------------------------------------
(* Walks.                                                                  *)
LEMMA Least ==
  ASSUME NEW S, S \subseteq Nat, S # {}
  PROVE  \E x \in S : \A y \in S : x <= y
<1>1. PICK x \in S : \A y \in S : ~(<<y, x>> \in OpToRel(<, Nat))
  BY NatLessThanWellFounded, WFMin
<1>2. OpToRel(<, Nat) = {ss \in Nat \X Nat : ss[1] < ss[2]}
  BY Zenon DEF OpToRel
<1>3. \A y \in S : <<y, x>> \notin {ss \in Nat \X Nat : ss[1] < ss[2]}
  BY <1>1, <1>2
<1>4. ASSUME NEW y \in S PROVE x <= y
  <2>1. x \in Nat /\ y \in Nat /\ <<y, x>> \in Nat \X Nat
    OBVIOUS
  <2>2. ~(y < x)
    BY <1>3, <2>1
  <2> QED
    BY <2>1, <2>2
<1> QED
  BY <1>4

(* The first k cells of a walk, at the end of which deref stops; and the   *)
(* function that DerefEnds follows references with.                        *)
Walks(k, c, p) ==
  /\ p \in [0 .. k -> Cell] /\ p[0] = c
  /\ \A i \in 0 .. k - 1 : p[i + 1] = Follow(p[i])
  /\ ~IsBound(p[k])

Arrives(k, c) == \E p : Walks(k, c, p)

EndsIn ==
  LET ends[walk \in Nat \X Cell] ==
        \/ ~IsBound(walk[2])
        \/ walk[1] > 0 /\ ends[<<walk[1] - 1, heap[Val(walk[2])]>>]
  IN  ends

LEMMA FollowsOne ==
  ASSUME IInv, NEW c \in Cell
  PROVE  /\ IsBound(c) => Val(c) \in 1 .. Len(heap) /\ Follow(c) = heap[Val(c)]
         /\ ~IsBound(c) => Follow(c) = c
         /\ Follow(c) \in Cell
<1>1. IsBound(c) => Val(c) \in 1 .. Len(heap)
  BY DEF IsBound, Val
<1> QED
  BY <1>1, StoreFacts DEF Follow

(* A walk is a step and a walk.                                            *)
LEMMA ArrivesEquation ==
  ASSUME IInv, NEW k \in Nat, NEW c \in Cell
  PROVE  Arrives(k, c) <=> ~IsBound(c) \/ (k > 0 /\ Arrives(k - 1, heap[Val(c)]))
<1>1. ASSUME ~IsBound(c)
      PROVE  Arrives(k, c)
  <2> DEFINE p == [i \in 0 .. k |-> c]
  <2>1. Follow(c) = c
    BY <1>1, FollowsOne
  <2>2. Walks(k, c, p)
    BY <1>1, <2>1 DEF Walks
  <2> QED
    BY <2>2 DEF Arrives
<1>2. ASSUME IsBound(c), k > 0, Arrives(k - 1, heap[Val(c)])
      PROVE  Arrives(k, c)
  <2>1. PICK q : Walks(k - 1, heap[Val(c)], q)
    BY <1>2 DEF Arrives
  <2> DEFINE p == [i \in 0 .. k |-> IF i = 0 THEN c ELSE q[i - 1]]
  <2>2. Follow(c) = heap[Val(c)]
    BY <1>2, FollowsOne
  <2>3. /\ q \in [0 .. k - 1 -> Cell] /\ q[0] = heap[Val(c)] /\ ~IsBound(q[k - 1])
        /\ \A i \in 0 .. k - 2 : q[i + 1] = Follow(q[i])
    <3>1. (k - 1) - 1 = k - 2
      OBVIOUS
    <3> QED
      BY <2>1, <3>1 DEF Walks
  <2>4. p \in [0 .. k -> Cell] /\ p[0] = c /\ p[k] = q[k - 1]
    BY <1>2, <2>3
  <2>5. ASSUME NEW i \in 0 .. k - 1 PROVE p[i + 1] = Follow(p[i])
    <3>1. p[i + 1] = q[i]
      BY <1>2
    <3>2. CASE i = 0
      BY <2>2, <2>3, <3>1, <3>2
    <3>3. CASE i # 0
      <4>1. i - 1 \in 0 .. k - 2 /\ (i - 1) + 1 = i /\ p[i] = q[i - 1]
        BY <3>3
      <4> QED
        BY <2>3, <3>1, <4>1
    <3> QED
      BY <3>2, <3>3
  <2> HIDE DEF p
  <2>6. Walks(k, c, p)
    BY <2>3, <2>4, <2>5 DEF Walks
  <2> QED
    BY <2>6 DEF Arrives
<1>3. ASSUME IsBound(c), Arrives(k, c)
      PROVE  k > 0 /\ Arrives(k - 1, heap[Val(c)])
  <2>1. PICK p : Walks(k, c, p)
    BY <1>3 DEF Arrives
  <2>2. k > 0
    BY <1>3, <2>1 DEF Walks
  <2> DEFINE q == [i \in 0 .. k - 1 |-> p[i + 1]]
  <2>3. /\ p \in [0 .. k -> Cell] /\ p[0] = c /\ ~IsBound(p[k])
        /\ \A i \in 0 .. k - 1 : p[i + 1] = Follow(p[i])
    BY <2>1 DEF Walks
  <2>4. q \in [0 .. k - 1 -> Cell] /\ q[0] = heap[Val(c)] /\ q[k - 1] = p[k]
    <3>1. p[0 + 1] = Follow(p[0]) /\ Follow(c) = heap[Val(c)]
      BY <1>3, <2>2, <2>3, FollowsOne
    <3>2. q[0] = p[0 + 1]
      BY <2>2
    <3> QED
      BY <2>2, <2>3, <3>1, <3>2
  <2>5. ASSUME NEW i \in 0 .. (k - 1) - 1 PROVE q[i + 1] = Follow(q[i])
    <3>1. i + 1 \in 0 .. k - 1 /\ i \in 0 .. k - 1
      OBVIOUS
    <3> QED
      BY <2>3, <3>1
  <2> HIDE DEF q
  <2>6. Walks(k - 1, heap[Val(c)], q)
    BY <2>3, <2>4, <2>5 DEF Walks
  <2> QED
    BY <2>2, <2>6 DEF Arrives
<1> QED
  BY <1>1, <1>2, <1>3

(* Hence there is a function that satisfies the equation of EndsIn.        *)
LEMMA EndsEquation ==
  ASSUME IInv, NEW k \in Nat, NEW c \in Cell
  PROVE  EndsIn[<<k, c>>] <=> ~IsBound(c) \/ (k > 0 /\ EndsIn[<<k - 1, heap[Val(c)]>>])
<1> DEFINE Is(f) ==
             f = [walk \in Nat \X Cell |->
                    \/ ~IsBound(walk[2])
                    \/ walk[1] > 0 /\ f[<<walk[1] - 1, heap[Val(walk[2])]>>]]
           g == [walk \in Nat \X Cell |-> Arrives(walk[1], walk[2])]
<1>1. ASSUME NEW walk \in Nat \X Cell
      PROVE  Arrives(walk[1], walk[2]) <=>
               \/ ~IsBound(walk[2])
               \/ walk[1] > 0 /\ g[<<walk[1] - 1, heap[Val(walk[2])]>>]
  <2> DEFINE n == walk[1]
             d == walk[2]
  <2>1. n \in Nat /\ d \in Cell
    OBVIOUS
  <2>2. Arrives(n, d) <=> ~IsBound(d) \/ (n > 0 /\ Arrives(n - 1, heap[Val(d)]))
    BY <2>1, ArrivesEquation
  <2>3. ASSUME IsBound(d), n > 0
        PROVE  g[<<n - 1, heap[Val(d)]>>] = Arrives(n - 1, heap[Val(d)])
    <3>1. n - 1 \in Nat /\ heap[Val(d)] \in Cell
      BY <2>1, <2>3, FollowsOne
    <3> QED
      BY <3>1
  <2> HIDE DEF g, n, d
  <2>4. Arrives(n, d) <=> ~IsBound(d) \/ (n > 0 /\ g[<<n - 1, heap[Val(d)]>>])
    BY <2>2, <2>3
  <2> QED
    BY <2>4 DEF n, d
<1>2. Is(g)
  <2> DEFINE R(walk) ==
               \/ ~IsBound(walk[2])
               \/ walk[1] > 0 /\ g[<<walk[1] - 1, heap[Val(walk[2])]>>]
  <2>1. \A walk \in Nat \X Cell : Arrives(walk[1], walk[2]) = R(walk)
    BY <1>1 DEF Arrives
  <2> HIDE DEF R
  <2>2. g = [walk \in Nat \X Cell |-> R(walk)]
    BY <2>1
  <2> HIDE DEF g
  <2> QED
    BY <2>2 DEF R
<1>3. EndsIn = CHOOSE f : Is(f)
  BY DEF EndsIn
<1> HIDE DEF g
<1>4. Is(CHOOSE f : Is(f))
  <2> HIDE DEF Is
  <2> QED
    BY <1>2
<1>5. Is(EndsIn)
  <2> HIDE DEF Is
  <2> QED
    BY <1>3, <1>4
<1>6. <<k, c>> \in Nat \X Cell
  OBVIOUS
<1> QED
  BY <1>5, <1>6

(* A walk that may be longer ends as well.                                 *)
LEMMA EndsLonger ==
  ASSUME IInv
  PROVE  \A k \in Nat : \A c \in Cell : EndsIn[<<k, c>>] => EndsIn[<<k + 1, c>>]
<1> DEFINE Bad == {k \in Nat : \E c \in Cell : EndsIn[<<k, c>>] /\ ~EndsIn[<<k + 1, c>>]}
<1>1. ASSUME Bad # {}
      PROVE  FALSE
  <2>1. Bad \subseteq Nat
    OBVIOUS
  <2>2. PICK k \in Bad : \A j \in Bad : k <= j
    BY <1>1, <2>1, Least
  <2>3. PICK c \in Cell : EndsIn[<<k, c>>] /\ ~EndsIn[<<k + 1, c>>]
    BY <2>2
  <2>4. k \in Nat /\ k + 1 \in Nat /\ (k + 1) - 1 = k
    BY <2>1, <2>2
  <2>5. IsBound(c) /\ k > 0 /\ EndsIn[<<k - 1, heap[Val(c)]>>] /\ ~EndsIn[<<k, heap[Val(c)]>>]
    <3>1. EndsIn[<<k + 1, c>>] <=> ~IsBound(c) \/ (k + 1 > 0 /\ EndsIn[<<k, heap[Val(c)]>>])
      BY <2>4, EndsEquation
    <3>2. EndsIn[<<k, c>>] <=> ~IsBound(c) \/ (k > 0 /\ EndsIn[<<k - 1, heap[Val(c)]>>])
      BY <2>4, EndsEquation
    <3>3. k + 1 > 0
      BY <2>4
    <3> QED
      BY <2>3, <3>1, <3>2, <3>3
  <2>6. heap[Val(c)] \in Cell /\ k - 1 \in Nat /\ (k - 1) + 1 = k
    BY <2>4, <2>5, FollowsOne
  <2>7. k - 1 \in Bad
    <3>1. EndsIn[<<k - 1, heap[Val(c)]>>] /\ ~EndsIn[<<(k - 1) + 1, heap[Val(c)]>>]
      BY <2>5, <2>6
    <3> QED
      BY <2>6, <3>1
  <2>8. k <= k - 1
    BY <2>2, <2>7
  <2> QED
    BY <2>4, <2>8
<1> QED
  BY <1>1

(***************************************************************************)
(* Where there is no cycle, of the cells from which a walk of k steps does *)
(* not end, one leads to none of the others: it ends in k + 1.  So there   *)
(* are fewer for every step, and for the length of the heap none.          *)
(***************************************************************************)
LEMMA WalksEnd == IInv /\ NoCycle => DerefEnds
<1> SUFFICES ASSUME IInv, NoCycle
             PROVE  DerefEnds
  OBVIOUS
<1> DEFINE n == Len(heap)
           Open(k) == {a \in 1 .. n : ~EndsIn[<<k, heap[a]>>]}
           Bad == {k \in 0 .. n : ~(Cardinality(Open(k)) <= n - k)}
<1>1. n \in Nat /\ \A a \in 1 .. n : heap[a] \in Cell
  BY StoreFacts
<1>2. IsFiniteSet(1 .. n) /\ Cardinality(1 .. n) = n
  BY <1>1, FS_Interval
<1>3. \A k : IsFiniteSet(Open(k)) /\ Cardinality(Open(k)) \in Nat /\ Cardinality(Open(k)) <= n
  BY <1>2, FS_Subset, FS_CardinalityType
<1>4. ASSUME NEW k \in Nat, Open(k) # {}
      PROVE  Cardinality(Open(k + 1)) <= Cardinality(Open(k)) - 1
  <2> DEFINE S == Open(k)
             T == Open(k + 1)
  <2>1. PICK a \in S : ~Leads(a, S)
    BY <1>4 DEF NoCycle
  <2>2. T \subseteq S
    BY <1>1, EndsLonger
  <2>3. a \in 1 .. n /\ heap[a] \in Cell /\ ~EndsIn[<<k, heap[a]>>]
    BY <1>1, <2>1
  <2>4. a \notin T
    <3> SUFFICES ASSUME ~EndsIn[<<k + 1, heap[a]>>]
                 PROVE  FALSE
      OBVIOUS
    <3> DEFINE b == Val(heap[a])
    <3>1. IsBound(heap[a]) /\ ~EndsIn[<<k, heap[b]>>]
      <4>1. k + 1 \in Nat /\ k + 1 > 0 /\ (k + 1) - 1 = k
        OBVIOUS
      <4>2. EndsIn[<<k + 1, heap[a]>>] <=>
              ~IsBound(heap[a]) \/ (k + 1 > 0 /\ EndsIn[<<k, heap[b]>>])
        BY <2>3, <4>1, EndsEquation
      <4> QED
        BY <4>1, <4>2
    <3>2. Tag(heap[a]) = "REF" /\ b \in 1 .. n /\ b # a
      <4>1. heap[a] \in {"REF"} \X (1 .. n) /\ ~IsUnbound(heap, heap[a])
        BY <3>1 DEF IsBound
      <4>2. Tag(heap[a]) = "REF" /\ b \in 1 .. n
        BY <4>1 DEF Tag, Val
      <4> QED
        BY <4>1, <4>2 DEF IsUnbound
    <3>3. b \in S
      BY <3>1, <3>2
    <3> HIDE DEF S
    <3> QED
      BY <2>1, <3>2, <3>3 DEF Leads
  <2> HIDE DEF S, T
  <2>5. IsFiniteSet(S) /\ IsFiniteSet(T) /\ Cardinality(S) \in Nat /\ Cardinality(T) \in Nat
    BY <1>3 DEF S, T
  <2>6. IsFiniteSet(S \ {a}) /\ Cardinality(S \ {a}) = Cardinality(S) - 1
    BY <2>1, <2>5, FS_RemoveElement
  <2>7. T \subseteq S \ {a}
    BY <2>2, <2>4
  <2>8. Cardinality(T) <= Cardinality(S \ {a})
    BY <2>6, <2>7, FS_Subset
  <2>9. Cardinality(T) <= Cardinality(S) - 1
    BY <2>6, <2>8
  <2> QED
    BY <2>9 DEF S, T
<1>5. \A k \in Nat : Open(k) = {} => Open(k + 1) = {}
  BY <1>1, EndsLonger
<1> HIDE DEF Open
<1>6. ASSUME Bad # {}
      PROVE  FALSE
  <2>1. Bad \subseteq Nat
    OBVIOUS
  <2>2. PICK k \in Bad : \A j \in Bad : k <= j
    BY <1>6, <2>1, Least
  <2>3. k \in 0 .. n /\ ~(Cardinality(Open(k)) <= n - k)
    BY <2>2
  <2>4. k # 0
    BY <1>1, <1>3, <2>3
  <2>5. k - 1 \in Nat /\ k - 1 \in 0 .. n /\ (k - 1) + 1 = k
    BY <1>1, <2>3, <2>4
  <2>6. k - 1 \notin Bad
    BY <2>2, <2>3, <2>5
  <2>7. Cardinality(Open(k - 1)) <= n - (k - 1)
    BY <2>5, <2>6
  <2>8. CASE Open(k - 1) = {}
    <3>1. Open(k) = {}
      BY <1>5, <2>5, <2>8
    <3>2. Cardinality(Open(k)) = 0
      BY <3>1, FS_EmptySet
    <3> QED
      BY <1>1, <2>3, <3>2
  <2>9. CASE Open(k - 1) # {}
    <3>1. Cardinality(Open((k - 1) + 1)) <= Cardinality(Open(k - 1)) - 1
      BY <1>4, <2>5, <2>9
    <3>2. Cardinality(Open(k)) <= Cardinality(Open(k - 1)) - 1
      BY <2>5, <3>1
    <3> QED
      BY <1>1, <1>3, <2>3, <2>7, <3>2
  <2> QED
    BY <2>8, <2>9
<1>7. Cardinality(Open(n)) = 0
  <2>1. n \in 0 .. n /\ n \notin Bad
    BY <1>1, <1>6
  <2>2. Cardinality(Open(n)) <= n - n
    BY <2>1
  <2> QED
    BY <1>1, <1>3, <2>2
<1>8. Open(n) = {}
  BY <1>3, <1>7, FS_EmptySet
<1>9. \A a \in 1 .. n : EndsIn[<<n, heap[a]>>]
  BY <1>8 DEF Open
<1> QED
  BY <1>9 DEF DerefEnds, EndsIn

LEMMA InitNoCycle == Init => NoCycle
<1>1. SUFFICES ASSUME Init,
                      NEW S \in SUBSET (1 .. Len(heap)), S # {}
               PROVE  FALSE
  BY DEF NoCycle
<1>2. Len(heap) = 0
  BY <1>1, EmptySeq DEF Init
<1>3. PICK a \in S : TRUE
  BY <1>1
<1>4. a \in 1 .. 0
  BY <1>1, <1>2, <1>3
<1> QED
  BY <1>4

(***************************************************************************)
(* As long as no stale reference is read, following references ends: no    *)
(* binding makes a variable lead back to itself, and neither does what     *)
(* backtracking leaves of the bindings.                                    *)
(***************************************************************************)
THEOREM ReferencesEnd == Spec /\ []NoStaleReads => []DerefEnds
<1>1. IInv /\ Live /\ NoStaleReads /\ [Next]_vars => Live'
  BY NextLive
<1>2. IInv /\ Live /\ NoCycle /\ [Next]_vars => NoCycle'
  BY NextNoCycle
<1> QED
  BY <1>1, <1>2, InitLive, InitNoCycle, InvariantHolds, WalksEnd, PTL DEF Spec

-----------------------------------------------------------------------------
(* The function deref follows references with, and where it may stop.      *)
Followed ==
  LET step[c \in Cell] ==
        IF \/ Tag(c) # "REF"
           \/ Val(c) \notin 1 .. Len(heap)
           \/ heap[Val(c)] = c
        THEN c
        ELSE step[heap[Val(c)]]
  IN  step

StopsAt(c) == {d \in Cell : ~IsBound(d) /\ \E k \in Nat : \E p : Walks(k, c, p) /\ p[k] = d}

(* A walk of k steps that stops at d, by its first step.                   *)
LEMMA StopsEquation ==
  ASSUME IInv, NEW c \in Cell
  PROVE  /\ ~IsBound(c) => StopsAt(c) = {c}
         /\ IsBound(c) => StopsAt(c) = StopsAt(heap[Val(c)])
<1>1. ASSUME ~IsBound(c)
      PROVE  StopsAt(c) = {c}
  <2>1. c \in StopsAt(c)
    <3> DEFINE p == [i \in 0 .. 0 |-> c]
    <3>1. Walks(0, c, p) /\ p[0] = c
      BY <1>1 DEF Walks
    <3> QED
      BY <1>1, <3>1 DEF StopsAt
  <2>2. ASSUME NEW k \in Nat, NEW p, Walks(k, c, p)
        PROVE  p[k] = c
    <3> DEFINE Off == {i \in 0 .. k : p[i] # c}
    <3>1. ASSUME Off # {}
          PROVE  FALSE
      <4>1. Off \subseteq Nat
        OBVIOUS
      <4>2. PICK i \in Off : \A j \in Off : i <= j
        BY <3>1, <4>1, Least
      <4>3. i \in 1 .. k
        BY <2>2, <4>2 DEF Walks
      <4>4. i - 1 \in 0 .. k - 1 /\ i - 1 \in 0 .. k /\ (i - 1) + 1 = i /\ ~(i <= i - 1)
        BY <4>3
      <4>5. p[i - 1] = c
        BY <4>2, <4>4
      <4>6. p[i] = Follow(p[i - 1])
        BY <2>2, <4>4 DEF Walks
      <4> QED
        BY <1>1, <4>2, <4>5, <4>6, FollowsOne
    <3> QED
      BY <3>1
  <2>3. \A d \in StopsAt(c) : d = c
    BY <2>2 DEF StopsAt
  <2> QED
    BY <2>1, <2>3
<1>2. ASSUME IsBound(c)
      PROVE  StopsAt(c) = StopsAt(heap[Val(c)])
  <2> DEFINE b == heap[Val(c)]
  <2>1. Follow(c) = b /\ b \in Cell
    BY <1>2, FollowsOne
  <2> HIDE DEF b
  <2>2. ASSUME NEW d \in Cell, ~IsBound(d), NEW k \in Nat, NEW q, Walks(k, b, q), q[k] = d
        PROVE  d \in StopsAt(c)
    <3> DEFINE p == [i \in 0 .. k + 1 |-> IF i = 0 THEN c ELSE q[i - 1]]
    <3>1. /\ q \in [0 .. k -> Cell] /\ q[0] = b /\ ~IsBound(q[k])
          /\ \A i \in 0 .. k - 1 : q[i + 1] = Follow(q[i])
      BY <2>2 DEF Walks
    <3>2. p \in [0 .. k + 1 -> Cell] /\ p[0] = c /\ p[k + 1] = q[k]
      BY <3>1
    <3>3. ASSUME NEW i \in 0 .. k PROVE p[i + 1] = Follow(p[i])
      <4>1. p[i + 1] = q[i]
        OBVIOUS
      <4>2. CASE i = 0
        BY <2>1, <3>1, <4>1, <4>2
      <4>3. CASE i # 0
        <5>1. i - 1 \in 0 .. k - 1 /\ (i - 1) + 1 = i /\ p[i] = q[i - 1]
          BY <4>3
        <5> QED
          BY <3>1, <4>1, <5>1
      <4> QED
        BY <4>2, <4>3
    <3> HIDE DEF p
    <3>4. k + 1 \in Nat /\ (k + 1) - 1 = k
      OBVIOUS
    <3>5. Walks(k + 1, c, p) /\ p[k + 1] = d
      BY <2>2, <3>1, <3>2, <3>3, <3>4 DEF Walks
    <3> QED
      BY <2>2, <3>4, <3>5 DEF StopsAt
  <2>3. ASSUME NEW d \in Cell, ~IsBound(d), NEW k \in Nat, NEW p, Walks(k, c, p), p[k] = d
        PROVE  d \in StopsAt(b)
    <3>1. /\ p \in [0 .. k -> Cell] /\ p[0] = c /\ ~IsBound(p[k])
          /\ \A i \in 0 .. k - 1 : p[i + 1] = Follow(p[i])
      BY <2>3 DEF Walks
    <3>2. k > 0
      BY <1>2, <3>1
    <3> DEFINE q == [i \in 0 .. k - 1 |-> p[i + 1]]
    <3>3. q \in [0 .. k - 1 -> Cell] /\ q[0] = b /\ q[k - 1] = p[k]
      <4>1. p[0 + 1] = Follow(p[0]) /\ q[0] = p[0 + 1]
        BY <3>1, <3>2
      <4> QED
        BY <2>1, <3>1, <3>2, <4>1
    <3>4. ASSUME NEW i \in 0 .. (k - 1) - 1 PROVE q[i + 1] = Follow(q[i])
      <4>1. i + 1 \in 0 .. k - 1 /\ i \in 0 .. k - 1
        OBVIOUS
      <4> QED
        BY <3>1, <4>1
    <3> HIDE DEF q
    <3>5. k - 1 \in Nat /\ Walks(k - 1, b, q) /\ q[k - 1] = d
      BY <2>3, <3>1, <3>2, <3>3, <3>4 DEF Walks
    <3> QED
      BY <2>3, <3>5 DEF StopsAt
  <2>4. StopsAt(c) \subseteq StopsAt(b)
    BY <2>3 DEF StopsAt
  <2>5. StopsAt(b) \subseteq StopsAt(c)
    BY <2>2 DEF StopsAt
  <2> QED
    BY <2>4, <2>5 DEF b
<1> QED
  BY <1>1, <1>2

(* Hence there is a function that satisfies the equation of deref.         *)
LEMMA FollowedEquation ==
  ASSUME IInv, NEW c \in Cell
  PROVE  /\ ~IsBound(c) => Followed[c] = c
         /\ IsBound(c) => Followed[c] = Followed[heap[Val(c)]]
<1> DEFINE Stops(d) == \/ Tag(d) # "REF"
                       \/ Val(d) \notin 1 .. Len(heap)
                       \/ heap[Val(d)] = d
           Is(f) == f = [d \in Cell |-> IF \/ Tag(d) # "REF"
                                           \/ Val(d) \notin 1 .. Len(heap)
                                           \/ heap[Val(d)] = d
                                        THEN d
                                        ELSE f[heap[Val(d)]]]
           g == [d \in Cell |-> CHOOSE e : e \in StopsAt(d)]
<1>1. ASSUME NEW d \in Cell
      PROVE  Stops(d) <=> ~IsBound(d)
  BY DEF IsBound, IsUnbound, Tag, Val, Cell
<1> HIDE DEF g
<1>2. ASSUME NEW d \in Cell
      PROVE  g[d] = IF Stops(d) THEN d ELSE g[heap[Val(d)]]
  <2>1. CASE ~IsBound(d)
    <3>1. StopsAt(d) = {d} /\ Stops(d)
      BY <1>1, <2>1, StopsEquation
    <3>2. g[d] = CHOOSE e : e \in {d}
      BY <3>1 DEF g
    <3> QED
      BY <3>1, <3>2
  <2>2. CASE IsBound(d)
    <3>1. StopsAt(d) = StopsAt(heap[Val(d)]) /\ ~Stops(d) /\ heap[Val(d)] \in Cell
      BY <1>1, <2>2, StopsEquation, FollowsOne
    <3>2. /\ g[d] = CHOOSE e : e \in StopsAt(d)
          /\ g[heap[Val(d)]] = CHOOSE e : e \in StopsAt(heap[Val(d)])
      BY <3>1 DEF g
    <3>3. g[d] = g[heap[Val(d)]]
      BY <3>1, <3>2
    <3> QED
      BY <3>1, <3>3
  <2> QED
    BY <2>1, <2>2
<1>3. Is(g)
  <2> DEFINE R(d) == IF Stops(d) THEN d ELSE g[heap[Val(d)]]
  <2>1. g = [d \in Cell |-> g[d]]
    BY DEF g
  <2>2. \A d \in Cell : g[d] = R(d)
    BY <1>2
  <2> HIDE DEF R
  <2>3. g = [d \in Cell |-> R(d)]
    BY <2>1, <2>2
  <2> QED
    BY <2>3 DEF R
<1>4. Followed = CHOOSE f : Is(f)
  BY DEF Followed
<1>5. Is(Followed)
  <2> HIDE DEF Is
  <2> QED
    BY <1>3, <1>4
<1>6. Followed[c] = IF Stops(c) THEN c ELSE Followed[heap[Val(c)]]
  BY <1>5
<1> QED
  BY <1>1, <1>6

-----------------------------------------------------------------------------
(***************************************************************************)
(* Where there is no cycle and no reference leaves the heap, deref never   *)
(* stops at a reference that is not an unbound variable: of the cells from *)
(* which it did, one would lead to none of the others.                     *)
(***************************************************************************)
Ends(d) == Tag(d) = "REF" => IsUnbound(heap, d)

LEMMA HeapCellEnds ==
  ASSUME IInv, HeapClosed, NoCycle, NEW a \in 1 .. Len(heap)
  PROVE  Ends(Followed[heap[a]])
<1> DEFINE S == {b \in 1 .. Len(heap) : ~Ends(Followed[heap[b]])}
<1>1. ASSUME S # {}
      PROVE  FALSE
  <2>1. PICK b \in S : ~Leads(b, S)
    BY <1>1 DEF NoCycle
  <2>2. b \in 1 .. Len(heap) /\ heap[b] \in Cell /\ ~Ends(Followed[heap[b]])
    BY <2>1, StoreFacts
  <2>3. CASE ~IsBound(heap[b])
    <3>1. Followed[heap[b]] = heap[b]
      BY <2>2, <2>3, FollowedEquation
    <3>2. Tag(heap[b]) = "REF" /\ ~IsUnbound(heap, heap[b])
      BY <2>2, <3>1 DEF Ends
    <3>3. Val(heap[b]) \in 1 .. Len(heap)
      BY <2>2, <3>2 DEF HeapClosed
    <3>4. heap[b] \in {"REF"} \X (1 .. Len(heap))
      BY <2>2, <3>2, <3>3 DEF Cell, Tag, Val
    <3> QED
      BY <2>3, <3>2, <3>4 DEF IsBound
  <2>4. CASE IsBound(heap[b])
    <3> DEFINE v == Val(heap[b])
    <3>1. v \in 1 .. Len(heap) /\ Tag(heap[b]) = "REF" /\ ~IsUnbound(heap, heap[b])
      BY <2>4 DEF IsBound, Tag, Val
    <3>2. v # b
      BY <2>2, <3>1 DEF IsUnbound
    <3>3. v \notin S
      BY <2>1, <3>1, <3>2 DEF Leads
    <3>4. Followed[heap[b]] = Followed[heap[v]]
      BY <2>2, <2>4, FollowedEquation
    <3> QED
      BY <2>2, <3>1, <3>3, <3>4
  <2> QED
    BY <2>3, <2>4
<1> QED
  BY <1>1

(* So GET_STRUCT binds inside the heap, or the functor cell it has pushed. *)
LEMMA TargetBinds ==
  ASSUME IInv, Live, NoStaleReads, NoCycle, At("GET_STRUCT"), Tag(Target) = "REF"
  PROVE  Bindable(Target)
<1> DEFINE c == regs[Word[2]]
<1>1. Target = Followed[c]
  BY DEF Target, Deref, Followed
<1>2. c \in Cell /\ LiveIn(Len(heap), c)
  <2>1. "GET_STRUCT" \in Opcodes \cap Op1IsReg
    BY DEF Opcodes, TwoCell, Op1IsReg
  <2>2. c \in Cell
    BY <2>1, RegOperands DEF IInv
  <2> QED
    BY <2>2, ReadLive DEF Live, ReadsOp1
<1> HIDE DEF c
<1>3. CASE IsBound(c)
  <2>1. Val(c) \in 1 .. Len(heap) /\ Followed[c] = Followed[heap[Val(c)]]
    BY <1>2, <1>3, FollowsOne, FollowedEquation
  <2>2. Ends(Target)
    BY <1>1, <2>1, HeapCellEnds DEF Live, StoreLive
  <2> QED
    BY <2>2 DEF Ends, Bindable
<1>4. CASE ~IsBound(c)
  <2>1. Target = c
    BY <1>1, <1>2, <1>4, FollowedEquation
  <2>2. CASE Val(c) \in 1 .. Len(heap)
    <3>1. c \in {"REF"} \X (1 .. Len(heap))
      BY <1>2, <2>1, <2>2 DEF Cell, Tag, Val
    <3> QED
      BY <1>4, <2>1, <3>1 DEF IsBound, Bindable
  <2>3. CASE Val(c) \notin 1 .. Len(heap)
    <3>1. c = Ref(1)
      BY <1>2, <2>1, <2>3 DEF LiveIn, ZeroWord
    <3>2. Len(heap) = 0
      BY <2>3, <3>1, StoreFacts DEF Ref, Val
    <3> QED
      BY <2>1, <3>1, <3>2 DEF Bindable
  <2> QED
    BY <2>2, <2>3
<1> QED
  BY <1>3, <1>4

(***************************************************************************)
(* While the heap is empty, unify is not given a cleared word: it would    *)
(* bind the first cell, and there is none.                                 *)
(***************************************************************************)
Warm ==
  status = "unify" /\ Len(heap) = 0 =>
    \A i \in 1 .. Len(todo) : todo[i][1] # ZeroWord /\ todo[i][2] # ZeroWord

(* Steps after which unify is at work: it was at work, or is called.       *)
LEMMA UnifySteps ==
  ASSUME [Next]_vars, status' = "unify"
  PROVE  \/ UNCHANGED <<status, heap, todo>>
         \/ UnifyDeref \/ UnifyEqual \/ UnifyBind \/ UnifyStruct
         \/ GetConst \/ GetVal
         \/ mode = "read" /\ up <= Len(heap) /\ UNCHANGED heap
<1>1. CASE Refuse
  BY <1>1 DEF Refuse, OutOfTicks, PcOutOfBounds, UnsupportedOpcode, BadRegister, Stop
<1>2. CASE Control
  BY <1>2 DEF Control, Nop, Halt, Call, Execute, Proceed, Fail, Try, Retry, Trust,
     EmptyChoiceStack, Cut, Goto, Stop, Backtrack, NoMoreChoices, NextChoice, At, Fetched, Running
<1>3. CASE Arguments
  BY <1>3 DEF Arguments, PutVar, PutVal, PutConst, GetVar, Goto, At, Fetched, Running
<1>4. CASE Unification
  BY <1>4 DEF Unification, UnifyDangling, UnifyMismatch, UnifyDone, NoMoreChoices, NextChoice
<1>5. CASE Structures
  BY <1>5 DEF Structures, GetStructRead, GetStructWrite, GetStructDangling, GetStructMismatch,
     StreamEnd, UnifyVarRead, UnifyVarWrite, UnifyVal, UnifyConst, UnifyStream, WriteStream,
     Goto, Stop, Backtrack, NoMoreChoices, NextChoice, At, Fetched, Running, store
<1>6. CASE Environments
  BY <1>6 DEF Environments, Allocate, Deallocate, GetYVar, PutYVal, EmptyEnvStack, BadYSlot,
     Goto, Stop, At, Fetched, Running
<1>7. CASE Builtins
  BY <1>7 DEF Builtins, BIsAdd, BIsSub, BIs, BLt, BGt, BCmp, ArithNotInt, BWrite, BNl, IoError,
     Goto, Stop, Backtrack, NoMoreChoices, NextChoice, At, Fetched, Running
<1>8. CASE UNCHANGED vars
  BY <1>8 DEF vars
<1> QED
  BY <1>1, <1>2, <1>3, <1>4, <1>5, <1>6, <1>7, <1>8 DEF Next, Step, Stopped

LEMMA NextWarm ==
  ASSUME IInv, Live, NoColdReads, Warm, [Next]_vars
  PROVE  Warm'
<1>1. SUFFICES ASSUME status' = "unify", Len(heap') = 0,
                      NEW i \in 1 .. Len(todo')
               PROVE  todo'[i][1] # ZeroWord /\ todo'[i][2] # ZeroWord
  BY DEF Warm
<1>2. heap \in Seq(Cell) /\ Len(heap) \in Nat
  BY StoreFacts
<1>3. CASE UNCHANGED <<status, heap, todo>>
  BY <1>1, <1>3 DEF Warm
<1>4. CASE UnifyEqual
  <2>1. Comparing /\ todo' = Tail(todo) /\ UNCHANGED <<status, heap>>
    BY <1>4 DEF UnifyEqual, store
  <2>2. /\ todo \in Seq(Cell \X Cell) /\ todo # <<>>
    BY <2>1 DEF IInv, TypeOK, Comparing
  <2>3. i + 1 \in 1 .. Len(todo) /\ todo'[i] = todo[i + 1]
    BY <1>1, <2>1, <2>2, HeadTailProperties, LenProperties
  <2> QED
    BY <1>1, <2>1, <2>3 DEF Warm
<1>5. CASE GetConst \/ GetVal
  <2>1. PICK c1, c2 : /\ StartUnify(c1, c2) /\ UNCHANGED heap
                      /\ c1 # ZeroWord /\ c2 # ZeroWord
    <3>1. UNCHANGED heap
      BY <1>5 DEF GetConst, GetVal, store
    <3>2. heap = <<>>
      BY <1>1, <1>2, <3>1, EmptySeq
    <3>3. CASE GetConst
      <4>1. At("GET_CONST") /\ StartUnify(regs[Word[2]], Imm)
        BY <3>3 DEF GetConst
      <4>2. Imm # ZeroWord
        BY <4>1, ConstantOperand DEF IInv, Constant, ZeroWord, Ref
      <4> QED
        BY <3>1, <3>2, <4>1, <4>2 DEF NoColdReads
    <3>4. CASE GetVal
      BY <3>1, <3>2, <3>4 DEF GetVal, NoColdReads
    <3> QED
      BY <1>5, <3>3, <3>4
  <2>2. Len(todo') = 1 /\ todo'[1] = <<c1, c2>>
    BY <2>1 DEF StartUnify
  <2>3. i = 1
    BY <1>1, <2>2
  <2> QED
    BY <2>1, <2>2, <2>3
<1>6. CASE mode = "read" /\ up <= Len(heap) /\ UNCHANGED heap
  BY <1>1, <1>2, <1>6 DEF IInv, TypeOK
<1>7. CASE UnifyDeref \/ UnifyStruct
  <2>1. UNCHANGED heap /\ Len(heap) # 0
    BY <1>2, <1>7 DEF UnifyDeref, UnifyStruct, SameStructure, SameFunctor, IsBound, store
  <2> QED
    BY <1>1, <2>1
<1>8. CASE UnifyBind
  <2>1. \E a \in 1 .. Len(heap) : \E y : heap' = [heap EXCEPT ![a] = y]
    BY <1>8 DEF UnifyBind, Bind, IsUnbound
  <2>2. Len(heap') = Len(heap) /\ Len(heap) # 0
    BY <1>2, <2>1, LenProperties
  <2> QED
    BY <1>1, <2>2
<1> QED
  BY <1>1, <1>3, <1>4, <1>5, <1>6, <1>7, <1>8, UnifySteps

(* The two ways to bind outside the heap are closed.                       *)
LEMMA NoneDangles ==
  ASSUME IInv, Live, Warm, NoStaleReads, NoCycle
  PROVE  ~UnifyDangling /\ ~GetStructDangling
<1>1. ASSUME UnifyDangling
      PROVE  FALSE
  <2>1. PICK c \in {Left, Right} : ~IsBound(c) /\ Dangling(c)
    BY <1>1 DEF UnifyDangling, Differ
  <2>2. Comparing
    BY <1>1 DEF UnifyDangling, Differ
  <2>3. c \in Cell /\ LiveIn(Len(heap), c)
    BY <2>1, <2>2, ComparedLive
  <2>4. Tag(c) = "REF" /\ ~IsUnbound(heap, c)
    BY <2>1 DEF Dangling
  <2>5. Val(c) \notin 1 .. Len(heap)
    BY <2>1, <2>3, <2>4 DEF IsBound, Cell, Tag, Val
  <2>6. c = ZeroWord
    BY <2>3, <2>4, <2>5 DEF LiveIn
  <2>7. Len(heap) = 0
    BY <2>5, <2>6, StoreFacts DEF ZeroWord, Ref, Val
  <2>8. Left # ZeroWord /\ Right # ZeroWord
    <3>1. status = "unify" /\ todo # <<>> /\ todo \in Seq(Cell \X Cell)
      BY <2>2 DEF Comparing, IInv, TypeOK
    <3>2. Head(todo) = todo[1] /\ 1 \in 1 .. Len(todo)
      BY <3>1, HeadTailProperties, LenProperties, EmptySeq
    <3> QED
      BY <2>7, <3>1, <3>2 DEF Warm, Left, Right
  <2> QED
    BY <2>1, <2>6, <2>8
<1>2. ASSUME GetStructDangling
      PROVE  FALSE
  BY <1>2, TargetBinds DEF GetStructDangling
<1> QED
  BY <1>1, <1>2

(* And no other step panics.                                               *)
LEMMA OthersGoOn ==
  ASSUME [Next]_vars, NoPanic, ~UnifyDangling, ~GetStructDangling
  PROVE  NoPanic'
<1>1. CASE Refuse
  BY <1>1 DEF Refuse, OutOfTicks, PcOutOfBounds, UnsupportedOpcode, BadRegister, Stop, NoPanic
<1>2. CASE Control
  BY <1>2 DEF Control, Nop, Halt, Call, Execute, Proceed, Fail, Try, Retry, Trust,
     EmptyChoiceStack, Cut, Goto, Stop, Backtrack, NoMoreChoices, NextChoice, NoPanic
<1>3. CASE Arguments
  BY <1>3 DEF Arguments, PutVar, PutVal, PutConst, GetVar, GetConst, GetVal, StartUnify, Goto, NoPanic
<1>4. CASE Unification
  BY <1>4 DEF Unification, UnifyDeref, UnifyEqual, UnifyBind, UnifyStruct, UnifyMismatch, UnifyDone,
     NoMoreChoices, NextChoice, NoPanic
<1>5. CASE Structures
  BY <1>5 DEF Structures, GetStructRead, GetStructWrite, GetStructMismatch,
     StreamEnd, UnifyVarRead, UnifyVarWrite, UnifyVal, UnifyConst, UnifyStream, WriteStream,
     StartUnify, Goto, Backtrack, NoMoreChoices, NextChoice, NoPanic
<1>6. CASE Environments
  BY <1>6 DEF Environments, Allocate, Deallocate, GetYVar, PutYVal, EmptyEnvStack, BadYSlot,
     Goto, Stop, NoPanic
<1>7. CASE Builtins
  BY <1>7 DEF Builtins, BIsAdd, BIsSub, BIs, BLt, BGt, BCmp, ArithNotInt, BWrite, BNl, IoError,
     Goto, Stop, Backtrack, NoMoreChoices, NextChoice, NoPanic
<1>8. CASE UNCHANGED vars
  BY <1>8 DEF vars, NoPanic
<1> QED
  BY <1>1, <1>2, <1>3, <1>4, <1>5, <1>6, <1>7, <1>8 DEF Next, Step, Stopped

(***************************************************************************)
(* As long as no stale reference is read, and nothing that was never       *)
(* written is unified on an empty heap, no instruction binds a cell        *)
(* outside the heap: the machine does not panic.                           *)
(***************************************************************************)
THEOREM NoPanics == Spec /\ []NoStaleReads /\ []NoColdReads => []NoPanic
<1>1. IInv /\ Live /\ NoStaleReads /\ [Next]_vars => Live'
  BY NextLive
<1>2. IInv /\ Live /\ NoCycle /\ [Next]_vars => NoCycle'
  BY NextNoCycle
<1>3. IInv /\ Live /\ NoColdReads /\ Warm /\ [Next]_vars => Warm'
  BY NextWarm
<1>4. IInv /\ Live /\ Warm /\ NoStaleReads /\ NoCycle /\ NoPanic /\ [Next]_vars => NoPanic'
  BY NoneDangles, OthersGoOn
<1>5. Init => Warm /\ NoPanic
  BY DEF Init, Warm, NoPanic
<1> QED
  BY <1>1, <1>2, <1>3, <1>4, <1>5, InitLive, InitNoCycle, InvariantHolds, PTL DEF Spec

=============================================================================
