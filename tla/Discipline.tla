----------------------------- MODULE Discipline -----------------------------
(***************************************************************************)
(* A condition on code, decided without running it, under which the        *)
(* machine of LamVM reads no register that was not written, or that        *)
(* backtracking made stale.  A choice point saves the argument registers,  *)
(* a call saves none, and negation comes back by backtracking: what code   *)
(* reads it must have written since the last of these.                     *)
(*                                                                         *)
(* needed[n] is the set of the registers that the code from word n on      *)
(* reads before it writes them, up to the next call.                       *)
(***************************************************************************)
EXTENDS LamVM

Restoring(c, n) == n \in DOMAIN c /\ c[n][1] \in {"RETRY", "TRUST"}

(* The immediate as an address, for the instructions that have one.        *)
Jump(c, n) == IF n + 1 \in DOMAIN c THEN {c[n + 1][2]} ELSE {}

(* Where the instruction at n goes on to when it succeeds, and where it    *)
(* has backtracking go on.                                                 *)
Goes(c, n) ==
  CASE c[n][1] \in {"CALL", "EXECUTE"}         -> Jump(c, n)
    [] c[n][1] \in {"PROCEED", "HALT", "FAIL"} -> {}
    [] c[n][1] \in TwoCell \ {"CALL", "EXECUTE"} -> {n + 2}
    [] OTHER                                   -> {n + 1}

Alternatives(c, n) == IF c[n][1] \in {"TRY", "RETRY"} THEN Jump(c, n) ELSE {}

Reads(w) ==
  Reg \cap
  CASE w[1] \in ReadsOp1 \ ReadsOp2        -> {w[2]}
    [] w[1] \in ReadsOp2 \ ReadsOp1        -> {w[3]}
    [] w[1] \in ReadsOp1 \cap ReadsOp2     -> {w[2], w[3]}
    [] w[1] \in {"B_IS_ADD", "B_IS_SUB"}   -> {1, 2}
    [] w[1] \in {"B_LT", "B_GT"}           -> {0, 1}
    [] OTHER                               -> {}

Writes(w) ==
  CASE w[1] = "PUT_VAR"                             -> {w[2], w[3]}
    [] w[1] \in {"PUT_VAL", "PUT_Y_VAL"}            -> {w[3]}
    [] w[1] \in {"PUT_CONST", "GET_VAR", "UNIFY_VAR"} -> {w[2]}
    [] w[1] \in {"B_IS_ADD", "B_IS_SUB"}            -> {0}
    [] OTHER                                        -> {}

(* What is needed at n: by code that is gone on to, in the registers; by   *)
(* code that backtracking comes to, in the newest choice point.            *)
At0(needed, n)         == IF n \in DOMAIN needed THEN needed[n] ELSE {}
InRegs(c, needed, n)   == IF Restoring(c, n) THEN {} ELSE At0(needed, n)
InChoice(c, needed, n) == IF Restoring(c, n) THEN At0(needed, n) ELSE {}

Requires(c, needed, n) ==
  IF c[n][1] \notin Opcodes THEN {}
  ELSE Reads(c[n])
         \cup ((UNION {InRegs(c, needed, m) : m \in Goes(c, n)}) \ Writes(c[n]))
         \cup (UNION {At0(needed, m) : m \in Alternatives(c, n)})

(* The least such sets: grown from nothing until they no longer grow.      *)
Needed(c) ==
  LET grown(l) == [n \in DOMAIN c |-> Requires(c, l, n)]
      least[l \in [DOMAIN c -> SUBSET Reg]] == IF grown(l) = l THEN l ELSE least[grown(l)]
  IN  least[[n \in DOMAIN c |-> {}]]

(***************************************************************************)
(* needed is large enough; nothing is needed at the start and after a      *)
(* call; backtracking brings what is needed where it goes, and goes        *)
(* nowhere else that needs something; and what backtracking must bring is  *)
(* not needed by code that is gone on to.                                  *)
(***************************************************************************)
Respects(c, needed) ==
  /\ needed \in [DOMAIN c -> SUBSET Reg]
  /\ \A n \in DOMAIN c : Requires(c, needed, n) \subseteq needed[n]
  /\ At0(needed, 1) = {}
  /\ \A n \in DOMAIN c : c[n][1] = "CALL" => At0(needed, n + 2) = {}
  /\ \A n \in DOMAIN c : InChoice(c, needed, n) \subseteq AReg
  /\ \A n \in DOMAIN c : \A m \in Alternatives(c, n) : InRegs(c, needed, m) = {}
  /\ \A n \in DOMAIN c : c[n][1] \in Opcodes =>
       \A m \in Goes(c, n) : InChoice(c, needed, m) = {}

Disciplined == Respects(code, Needed(code))

(***************************************************************************)
(* A Y slot that is read holds no reference out of the heap.  This part of *)
(* the discipline is not one of code alone: which frame a slot is in       *)
(* depends on the calls before.                                            *)
(***************************************************************************)
SlotsPoint ==
  At("PUT_Y_VAL") /\ ep > 0 /\ HasSlot =>
    LET c == env[ep].ys[Word[2] + 1]
    IN  Tag(c) \in {"REF", "STR"} => Val(c) \in 1 .. Len(heap)
=============================================================================
