--------------------------- MODULE SnapshotStore ----------------------------
(***************************************************************************)
(* What the heap, the trail and the choice stack promise together: a       *)
(* single-assignment memory with a stack of saved copies.  Work only adds  *)
(* cells and gives values to unbound ones; backtracking puts back exactly  *)
(* the memory of the time the choice point was made.  There is no trail    *)
(* here: how a copy is recovered is the business of the refinements.       *)
(***************************************************************************)
EXTENDS Heap

VARIABLES
  heap,    \* the memory
  snaps    \* the copies, one per choice point, the newest last

storeVars == <<heap, snaps>>

Init == heap = <<>> /\ snaps = <<>>

(* Any amount of forward work: nothing that has a value changes.           *)
Work ==
  /\ Len(heap') >= Len(heap)
  /\ \A a \in 1 .. Len(heap) : heap[a] # Ref(a) => heap'[a] = heap[a]
  /\ UNCHANGED snaps

Save == snaps' = Append(snaps, heap) /\ UNCHANGED heap

Restore ==
  /\ snaps # <<>>
  /\ heap' = snaps[Len(snaps)]
  /\ UNCHANGED snaps

RestoreAndPop ==
  /\ snaps # <<>>
  /\ heap' = snaps[Len(snaps)]
  /\ snaps' = SubSeq(snaps, 1, Len(snaps) - 1)

Commit == snaps' = <<>> /\ UNCHANGED heap

Next == Work \/ Save \/ Restore \/ RestoreAndPop \/ Commit

Spec == Init /\ [][Next]_storeVars
=============================================================================
