------------------------------- MODULE Limits --------------------------------
(***************************************************************************)
(* What a program takes of the tables of the parser, the compiler and the  *)
(* assembler, counted on the program, and whether they have that.          *)
(***************************************************************************)
EXTENDS Integers, Sequences, FiniteSetsExt, SequencesExt

CONSTANTS
  MaxAtoms, MaxClauseVars, MaxSubterms, MaxBody, MaxClauses, MaxArgs,  \* parser
  Registers,                                                           \* of X and of Y
  MaxLabels                                                            \* assembler

C == INSTANCE Compile WITH MaxInstr <- 0

RECURSIVE Subterms(_), MostArgs(_)
Subterms(t) ==
  IF t[1] # "STR" THEN 0 ELSE FoldLeft(LAMBDA n, u : n + 1 + Subterms(u), 0, t[3])

MostArgs(t) ==
  IF t[1] # "STR" THEN 0
  ELSE Max({Len(t[3])} \cup {MostArgs(t[3][i]) : i \in DOMAIN t[3]})

Total(s) == FoldLeft(LAMBDA n, k : n + k, 0, s)

RootsOf(c) == <<c.head>> \o c.body

ParserFits(p) ==
  /\ Len(p) <= MaxClauses
  /\ Cardinality(C!AtomTable(p)) <= MaxAtoms
  /\ \A k \in DOMAIN p :
       LET roots == RootsOf(p[k])
       IN  /\ Len(p[k].body) <= MaxBody
           /\ Cardinality(ToSet(C!Occurrences(p[k]))) <= MaxClauseVars
           /\ Total([i \in DOMAIN roots |-> Subterms(roots[i])]) <= MaxSubterms
           /\ \A i \in DOMAIN roots : MostArgs(roots[i]) <= MaxArgs

-----------------------------------------------------------------------------
(***************************************************************************)
(* Registers.  A variable is permanent when it is needed after a call that *)
(* it precedes.  A list takes two registers to build; an equation one, and *)
(* so does a permanent variable that is new in an argument.                *)
(***************************************************************************)
Needs(c, i) == ToSet(C!Vars(RootsOf(c)[i]))

Permanent(c) ==
  {v \in ToSet(C!Occurrences(c)) :
     \E j \in {k \in DOMAIN c.body : ~C!IsInline(c.body[k])} :
       /\ \E i \in 1 .. j + 1 : v \in Needs(c, i)
       /\ \E i \in j + 2 .. Len(c.body) + 1 : v \in Needs(c, i)}

RECURSIVE HasList(_), HasEquation(_)
HasList(g) == /\ g[1] = "STR"
              /\ \/ g[2] = "\\+" /\ HasList(g[3][1])
                 \/ \E i \in DOMAIN g[3] : C!IsStr(g[3][i], ".", 2)
HasEquation(g) == C!IsStr(g, "=", 2) \/ (C!IsStr(g, "\\+", 1) /\ HasEquation(g[3][1]))

(* The value of an is is bound, not passed.                                *)
PutFirst(c, v) ==
  \E i \in DOMAIN c.body :
    /\ v \in Needs(c, i + 1) /\ \A k \in 1 .. i : v \notin Needs(c, k)
    /\ C!IsStr(c.body[i], "is", 2) => v \in ToSet(C!Vars(c.body[i][3][2]))

Extra(c) ==
  CASE \E i \in DOMAIN c.body : HasList(c.body[i])                -> 2
    [] /\ \A i \in DOMAIN c.body : ~HasList(c.body[i])
       /\ \/ \E i \in DOMAIN c.body : HasEquation(c.body[i])
          \/ \E v \in Permanent(c) : PutFirst(c, v)              -> 1
    [] OTHER                                                     -> 0

RegistersFit(c) ==
  /\ Cardinality(Permanent(c)) <= Registers
  /\ Cardinality(ToSet(C!Occurrences(c)) \ Permanent(c)) + Extra(c) <= Registers

(* Two labels for every clause, one for the query and for each negation.   *)
LabelsFit(p) ==
  2 * (Len(p) - 1) + 1
    + Total([k \in DOMAIN p |-> Total([i \in DOMAIN p[k].body |-> C!Negations(p[k].body[i])])])
  <= MaxLabels

Fits(p) == ParserFits(p) /\ LabelsFit(p) /\ \A k \in DOMAIN p : RegistersFit(p[k])
=============================================================================
