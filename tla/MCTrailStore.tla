---------------------------- MODULE MCTrailStore ----------------------------
(***************************************************************************)
(* The actions of the store over finite parameters: a bounded heap, a      *)
(* bounded choice stack, and the cells a program can store while the heap  *)
(* holds n of them.                                                        *)
(***************************************************************************)
EXTENDS TrailStore

CONSTANTS
  MaxHeap,     \* no cell is pushed past this length
  MaxChoice    \* nor a choice point past this depth

Storable(n) ==
  {Ref(a) : a \in 1 .. n} \cup {Str(a) : a \in 1 .. n}
    \cup {Atom(f) : f \in Atoms} \cup {Fun(f, 1) : f \in Atoms}

MCPush ==
  /\ Len(heap) < MaxHeap
  /\ \E c \in Storable(Len(heap) + 1) : Push(c)

MCBindCell == \E a \in 1 .. Len(heap) : \E c \in Storable(Len(heap)) : BindCell(a, c)

MCBindNew ==
  /\ Len(heap) < MaxHeap
  /\ \E a \in 1 .. Len(heap) + 1, f \in Atoms : BindNew(a, f, 1)

MCPushChoice == Len(choice) < MaxChoice /\ PushChoice

MCNext ==
  MCPush \/ MCBindCell \/ MCBindNew \/ MCPushChoice \/ Retry \/ Trust \/ Cut

MCSpec == Init /\ [][MCNext]_vars
=============================================================================
