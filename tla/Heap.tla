-------------------------------- MODULE Heap --------------------------------
(***************************************************************************)
(* Tagged cells, dereferencing, undoing and the tests of unification: the  *)
(* pure part of refvm/heap.rs.                                             *)
(*                                                                         *)
(* A cell of the code is a 24-bit word: three bits of tag, 21 of payload.  *)
(* Here it is a tuple that starts with its tag.  Addresses count from 1    *)
(* where the code counts from 0, so that a heap is a sequence and the cell *)
(* the code calls heap[a] is heap[a + 1].  LIST cells (tag 4) are never    *)
(* built by the machine and are left out.                                  *)
(***************************************************************************)
EXTENDS Integers, Sequences

CONSTANT Atoms   \* the names of the atom table

(* The range of a 21-bit payload read as two's complement.                 *)
IntMin == -1048576
IntMax == 1048575

Ref(a)    == <<"REF", a>>
Str(a)    == <<"STR", a>>
Int21(n)  == <<"INT", n>>
Atom(f)   == <<"ATOM", f>>

(* A functor cell has five bits for the arity; the sixteen for the atom    *)
(* hold every id of the atom table.                                        *)
Arities   == 0 .. 31
Fun(f, n) == <<"FUN", f, n % 32>>

Cell ==
  ({"REF", "STR"} \X Nat) \cup ({"INT"} \X (IntMin .. IntMax))
    \cup ({"ATOM"} \X Atoms) \cup ({"FUN"} \X Atoms \X Arities)

Tag(c) == c[1]
Val(c) == c[2]

(***************************************************************************)
(* A cleared word, what registers and Y slots hold before their first      *)
(* write: the word 0 is a reference to the first heap cell.                *)
(***************************************************************************)
ZeroWord == Ref(1)

IsUnbound(h, c) == Tag(c) = "REF" /\ Val(c) \in 1 .. Len(h) /\ h[Val(c)] = c

(***************************************************************************)
(* Following references stops at a value, at an unbound variable or at a   *)
(* reference past the end of the heap, which the code returns as it is.    *)
(***************************************************************************)
Deref(h, c0) ==
  LET step[c \in Cell] ==
        IF \/ Tag(c) # "REF"
           \/ Val(c) \notin 1 .. Len(h)
           \/ h[Val(c)] = c
        THEN c
        ELSE step[h[Val(c)]]
  IN  step[c0]

(* Slip (see TrailStore): the address taken after the push.                *)
SlipAllocAfterPush(h) == Append(h, Ref(Len(h) + 2))

AllocUnbound(h) == Append(h, Ref(Len(h) + 1))

(***************************************************************************)
(* Undoing the trail above length tr and cutting the heap back to hp: the  *)
(* effect of unwind_trail followed by the truncation of restore_top.       *)
(***************************************************************************)
Trailed(t, tr) == {t[i] : i \in (tr + 1) .. Len(t)}

Undo(h, t, hp, tr) ==
  [a \in 1 .. hp |-> IF a \in Trailed(t, tr) THEN Ref(a) ELSE h[a]]

(***************************************************************************)
(* unify_struct: two structures unify argument by argument when their      *)
(* functor cells agree; an argument past the end of the heap reads as 0.   *)
(***************************************************************************)
ArgCell(h, a) == IF a \in 1 .. Len(h) THEN h[a] ELSE ZeroWord

SameFunctor(h, a, b) ==
  /\ a \in 1 .. Len(h) /\ b \in 1 .. Len(h)
  /\ Tag(h[a]) = "FUN"
  /\ h[a] = h[b]

ArgPairs(h, a, b) ==
  [i \in 1 .. h[a][3] |-> <<ArgCell(h, a + i), ArgCell(h, b + i)>>]
=============================================================================
