----------------------------- MODULE TrailStore -----------------------------
(***************************************************************************)
(* The store of the machine as refvm/heap.rs and refvm/choice.rs keep it:  *)
(* a heap, a trail of the addresses that were bound, and for each choice   *)
(* point the lengths of both when it was made.  Each action is one call    *)
(* of those two files, in any order a program can cause.                   *)
(***************************************************************************)
EXTENDS Heap

VARIABLES
  heap,     \* Vm.heap
  trail,    \* Vm.trail
  choice    \* saved_hp and saved_tr of Vm.choice, the newest last

vars == <<heap, trail, choice>>

Init == heap = <<>> /\ trail = <<>> /\ choice = <<>>

Top == choice[Len(choice)]

Push(c) ==
  /\ heap' = Append(heap, c)
  /\ UNCHANGED <<trail, choice>>

(***************************************************************************)
(* The operators named Slip... are what the definition after each would be *)
(* with a plausible mistake; the properties below notice every one.        *)
(* Here: trail only what is older than the newest choice point, off by one.*)
(***************************************************************************)
SlipTrailOnlyOlder(a, c) ==
  /\ IsUnbound(heap, Ref(a))
  /\ c # Ref(a)
  /\ heap' = [heap EXCEPT ![a] = c]
  /\ trail' = IF choice # <<>> /\ a < Top.hp THEN Append(trail, a) ELSE trail
  /\ UNCHANGED choice

(* Every caller of bind dereferences first, so the cell is unbound.        *)
BindCell(a, c) ==
  /\ IsUnbound(heap, Ref(a))
  /\ c # Ref(a)
  /\ heap' = [heap EXCEPT ![a] = c]
  /\ trail' = Append(trail, a)
  /\ UNCHANGED choice

(***************************************************************************)
(* enter_write_mode: a functor cell is pushed, then the variable is bound  *)
(* to it.  A dangling reference to the next free address is no variable    *)
(* yet; the push makes a cell of it, and the binding then replaces that.   *)
(***************************************************************************)
BindNew(a, f, n) ==
  /\ IsUnbound(heap, Ref(a)) \/ a = Len(heap) + 1
  /\ heap' = [Append(heap, Fun(f, n)) EXCEPT ![a] = Str(Len(heap) + 1)]
  /\ trail' = Append(trail, a)
  /\ UNCHANGED choice

(* Remember the last index in place of the length.                         *)
SlipLastIndex ==
  /\ choice' = Append(choice, [hp |-> Len(heap) - 1, tr |-> Len(trail) - 1])
  /\ UNCHANGED <<heap, trail>>

PushChoice ==
  /\ choice' = Append(choice, [hp |-> Len(heap), tr |-> Len(trail)])
  /\ UNCHANGED <<heap, trail>>

(* Reset the cells and leave the trail as it is.                           *)
SlipKeepTrail ==
  /\ choice # <<>>
  /\ heap' = Undo(heap, trail, Top.hp, Top.tr)
  /\ UNCHANGED trail

(* Restore the oldest choice point.                                        *)
SlipRestoreOldest ==
  /\ choice # <<>>
  /\ heap' = Undo(heap, trail, choice[1].hp, choice[1].tr)
  /\ trail' = SubSeq(trail, 1, choice[1].tr)

RestoreTop ==
  /\ choice # <<>>
  /\ heap' = Undo(heap, trail, Top.hp, Top.tr)
  /\ trail' = SubSeq(trail, 1, Top.tr)

Retry == RestoreTop /\ UNCHANGED choice

Trust == RestoreTop /\ choice' = SubSeq(choice, 1, Len(choice) - 1)

Cut == choice' = <<>> /\ UNCHANGED <<heap, trail>>

Next ==
  \/ \E c \in Cell : Push(c)
  \/ \E a \in 1 .. Len(heap), c \in Cell : BindCell(a, c)
  \/ \E a \in 1 .. Len(heap) + 1, f \in Atoms, n \in Nat : BindNew(a, f, n)
  \/ PushChoice
  \/ Retry
  \/ Trust
  \/ Cut

Spec == Init /\ [][Next]_vars

-----------------------------------------------------------------------------

Mark == [hp : Nat, tr : Nat]

(* Cells, trailed addresses and marks are of their types.                  *)
TypeOK ==
  /\ heap \in Seq(Cell)
  /\ trail \in Seq(Nat)
  /\ choice \in Seq(Mark)

(***************************************************************************)
(* The trail names only cells of the heap, each at most once, and every    *)
(* cell it names is bound: unwind_trail never indexes past the heap and    *)
(* never resets a cell twice.                                              *)
(***************************************************************************)
TrailSound ==
  /\ \A i \in 1 .. Len(trail) : trail[i] \in 1 .. Len(heap)
  /\ \A i \in 1 .. Len(trail) : heap[trail[i]] # Ref(trail[i])
  /\ \A i, j \in 1 .. Len(trail) : trail[i] = trail[j] => i = j

(***************************************************************************)
(* A newer choice point never remembers less heap or trail than an older   *)
(* one, none remembers more than there is, and what was trailed before a   *)
(* choice point was made lies below its heap mark: popping entries in      *)
(* stack order never disturbs what an older choice point needs.            *)
(***************************************************************************)
MarksNested ==
  /\ \A i \in 1 .. Len(choice) :
       /\ choice[i].hp <= Len(heap)
       /\ choice[i].tr <= Len(trail)
       /\ \A j \in 1 .. choice[i].tr : trail[j] <= choice[i].hp
  /\ \A i, j \in 1 .. Len(choice) :
       i <= j => choice[i].hp <= choice[j].hp /\ choice[i].tr <= choice[j].tr

(***************************************************************************)
(* The memory a choice point would restore, computed from the trail, is    *)
(* the copy the abstract store keeps.                                      *)
(***************************************************************************)
Recovered ==
  [i \in 1 .. Len(choice) |-> Undo(heap, trail, choice[i].hp, choice[i].tr)]

Snap == INSTANCE SnapshotStore WITH snaps <- Recovered

(* Backtracking through the trail restores exactly the saved memory.       *)
ImplementsSnapshots == Snap!Spec
=============================================================================
