------------------------------- MODULE Family -------------------------------
(***************************************************************************)
(* Every body of one or two goals for p(X), over facts with one and two    *)
(* clauses, a rule, unification, output, cut and negation; the query asks  *)
(* for all solutions and writes them.  Two kinds of body are left out,     *)
(* which docs/limitations.md and refvm/mod.rs name as not working: the     *)
(* negation of a predicate with two clauses, and a call that is not the    *)
(* last goal of a rule without permanent variables.                        *)
(***************************************************************************)
EXTENDS Integers, Sequences

Ex == INSTANCE Examples

P(f, v) == Ex!F(f, <<Ex!V(v)>>)
X == Ex!V("X")
Y == Ex!V("Y")

(* The goals, calls first.                                                *)
Goals ==
  <<P("q", "X"), P("q", "Y"), P("r", "X"), P("r", "Y"), P("s", "X"), P("s", "Y"),
    Ex!Infix(X, "=", Y), Ex!Infix(X, "=", Ex!a), Ex!Write(Y), Ex!Cut,
    Ex!Not(P("s", "X")), Ex!Not(P("r", "X")), Ex!Not(P("r", "Y")),
    Ex!Not(Ex!Infix(X, "=", Y))>>

IsCall(g)  == g \in 1 .. 6

(* The variables of each goal.                                             *)
Names ==
  <<{"X"}, {"Y"}, {"X"}, {"Y"}, {"X"}, {"Y"}, {"X", "Y"}, {"X"}, {"Y"}, {}, {"X"}, {"X"}, {"Y"},
    {"X", "Y"}>>

SharesVariable(g, h) == Names[h] \cap ({"X"} \cup Names[g]) # {}

Bodies ==
  {<<g>> : g \in DOMAIN Goals} \cup
  {body \in (DOMAIN Goals) \X (DOMAIN Goals) :
     IsCall(body[1]) => SharesVariable(body[1], body[2])}

ProgramOf(body) ==
  <<Ex!Fact(Ex!F("q", <<Ex!a>>)), Ex!Fact(Ex!F("q", <<Ex!b>>)),
    Ex!Fact(Ex!F("r", <<Ex!b>>)),
    Ex!Rule(P("s", "X"), <<Ex!Infix(X, "=", Y), Ex!Infix(Y, "=", Ex!b)>>),
    Ex!Rule(P("p", "X"), [i \in DOMAIN body |-> Goals[body[i]]]),
    Ex!Ask(<<P("p", "X"), Ex!Write(X), Ex!Nl, Ex!Fail>>)>>
=============================================================================
