------------------------------ MODULE Examples ------------------------------
(* The programs of examples/ as the parser leaves them.                    *)
EXTENDS Integers, Sequences

V(x)    == <<"VAR", x>>
At0(a)  == <<"ATOM", a>>
N(n)    == <<"INT", n>>
Nil     == <<"NIL">>
F(f, s) == <<"STR", f, s>>
Cons(h, t)  == F(".", <<h, t>>)
List(s)     == LET l[i \in 1 .. Len(s) + 1] ==
                     IF i > Len(s) THEN Nil ELSE Cons(s[i], l[i + 1])
               IN  l[1]
Infix(l, f, r) == F(f, <<l, r>>)
Not(g)      == F("\\+", <<g>>)
Write(t)    == F("write", <<t>>)
Nl   == At0("nl")
Fail == At0("fail")
Cut  == At0("!")

Fact(h)    == [kind |-> "fact", head |-> h, body |-> <<>>]
Rule(h, b) == [kind |-> "rule", head |-> h, body |-> b]
Ask(b)     == [kind |-> "query", head |-> Nil, body |-> b]

a == At0("a")
b == At0("b")
c == At0("c")
d == At0("d")

Ancestor ==
  <<Fact(F("parent", <<At0("bob"), At0("ann")>>)),
    Fact(F("parent", <<At0("ann"), At0("liz")>>)),
    Rule(F("ancestor", <<V("X"), V("Y")>>), <<F("parent", <<V("X"), V("Y")>>)>>),
    Rule(F("ancestor", <<V("X"), V("Y")>>),
         <<F("parent", <<V("X"), V("Z")>>), F("ancestor", <<V("Z"), V("Y")>>)>>),
    Ask(<<F("ancestor", <<At0("bob"), At0("liz")>>)>>)>>

Color ==
  <<Fact(F("color", <<At0("red")>>)),
    Fact(F("color", <<At0("green")>>)),
    Fact(F("color", <<At0("blue")>>)),
    Ask(<<F("color", <<V("X")>>), Write(V("X")), Nl, Fail>>)>>

Member ==
  <<Fact(F("member", <<V("X"), Cons(V("X"), V("_"))>>)),
    Rule(F("member", <<V("X"), Cons(V("_"), V("T"))>>),
         <<F("member", <<V("X"), V("T")>>)>>),
    Ask(<<F("member", <<V("X"), List(<<a, b, c>>)>>), Write(V("X")), Nl, Fail>>)>>

Sum ==
  <<Fact(F("sum", <<N(0), V("Acc"), V("Acc")>>)),
    Rule(F("sum", <<V("N"), V("Acc"), V("Res")>>),
         <<Infix(V("N"), ">", N(0)),
           Infix(V("NewAcc"), "is", Infix(V("Acc"), "+", V("N"))),
           Infix(V("N1"), "is", Infix(V("N"), "-", N(1))),
           F("sum", <<V("N1"), V("NewAcc"), V("Res")>>)>>),
    Ask(<<F("sum", <<N(3), N(0), V("X")>>), Write(V("X")), Nl>>)>>

Max ==
  <<Rule(F("max", <<V("X"), V("Y"), V("X")>>), <<Infix(V("X"), ">", V("Y")), Cut>>),
    Fact(F("max", <<V("_"), V("Y"), V("Y")>>)),
    Ask(<<F("max", <<N(5), N(3), V("M")>>), Write(V("M")), Nl, Fail>>)>>

Neq ==
  <<Rule(F("ne", <<V("X"), V("Y")>>), <<Not(Infix(V("X"), "=", V("Y")))>>),
    Ask(<<F("ne", <<At0("red"), At0("red")>>), Write(At0("ok")), Nl>>)>>

NeqOk ==
  <<Rule(F("ne", <<V("X"), V("Y")>>), <<Not(Infix(V("X"), "=", V("Y")))>>),
    Ask(<<F("ne", <<At0("red"), At0("blue")>>), Write(At0("ok")), Nl>>)>>

AppendLists ==
  <<Fact(F("append", <<Nil, V("L"), V("L")>>)),
    Rule(F("append", <<Cons(V("H"), V("T")), V("L"), Cons(V("H"), V("R"))>>),
         <<F("append", <<V("T"), V("L"), V("R")>>)>>),
    Ask(<<F("append", <<List(<<a, b>>), List(<<c, d, At0("e")>>), V("X")>>), Write(V("X")), Nl>>)>>

Edges ==
  <<Fact(F("edge", <<a, b>>)), Fact(F("edge", <<b, c>>)),
    Fact(F("edge", <<a, d>>)), Fact(F("edge", <<d, c>>))>>

Path ==
  Edges \o
  <<Rule(F("path", <<V("X"), V("Y")>>), <<F("edge", <<V("X"), V("Y")>>)>>),
    Rule(F("path", <<V("X"), V("Y")>>),
         <<F("edge", <<V("X"), V("Z")>>), F("path", <<V("Z"), V("Y")>>)>>),
    Ask(<<F("path", <<a, c>>), Write(At0("yes")), Nl>>)>>

PathShow ==
  Edges \o
  <<Rule(F("show_path", <<V("X"), V("X")>>), <<Write(V("X")), Nl>>),
    Rule(F("show_path", <<V("X"), V("Y")>>),
         <<F("edge", <<V("X"), V("Z")>>), Write(V("X")), Nl,
           F("show_path", <<V("Z"), V("Y")>>)>>),
    Ask(<<F("show_path", <<a, c>>), Write(At0("done")), Nl, Fail>>)>>

Fib ==
  <<Fact(F("fib", <<N(0), V("A"), V("_"), V("A")>>)),
    Rule(F("fib", <<V("N"), V("A"), V("B"), V("R")>>),
         <<Infix(V("N"), ">", N(0)),
           Infix(V("NewB"), "is", Infix(V("A"), "+", V("B"))),
           Infix(V("N1"), "is", Infix(V("N"), "-", N(1))),
           F("fib", <<V("N1"), V("B"), V("NewB"), V("R")>>)>>),
    Ask(<<F("fib", <<N(10), N(0), N(1), V("F")>>), Write(V("F")), Nl>>)>>

(* The liar puzzle: facts of one argument, of two, and the two-day rules.  *)
Facts(f, names) == [i \in DOMAIN names |-> Fact(F(f, <<At0(names[i])>>))]

Yesterday ==
  LET pairs == <<<<"monday", "sunday">>, <<"tuesday", "monday">>,
                 <<"wednesday", "tuesday">>, <<"thursday", "wednesday">>,
                 <<"friday", "thursday">>, <<"saturday", "friday">>,
                 <<"sunday", "saturday">>>>
  IN  [i \in DOMAIN pairs |->
         Fact(F("yesterday", <<At0(pairs[i][1]), At0(pairs[i][2])>>))]

Says(f, truth, lies) ==
  LET rule(p, q) ==
        Rule(F(f, <<V("Today")>>),
             <<F("yesterday", <<V("Today"), V("Yday")>>),
               F(p, <<V("Today")>>), F(q, <<V("Yday")>>)>>)
  IN  <<rule(truth, lies), rule(lies, truth)>>

Liar ==
  Facts("day", <<"monday", "tuesday", "wednesday", "thursday", "friday",
                 "saturday", "sunday">>)
    \o Facts("lion_lies", <<"monday", "tuesday", "wednesday">>)
    \o Facts("lion_truth", <<"thursday", "friday", "saturday", "sunday">>)
    \o Facts("unicorn_lies", <<"thursday", "friday", "saturday">>)
    \o Facts("unicorn_truth", <<"sunday", "monday", "tuesday", "wednesday">>)
    \o Yesterday
    \o Says("lion_says_yesterday_lied", "lion_truth", "lion_lies")
    \o Says("unicorn_says_yesterday_lied", "unicorn_truth", "unicorn_lies")
    \o <<Ask(<<F("day", <<V("Today")>>),
               F("lion_says_yesterday_lied", <<V("Today")>>),
               F("unicorn_says_yesterday_lied", <<V("Today")>>),
               Write(V("Today")), Nl>>)>>

-----------------------------------------------------------------------------
(* Small programs of the classes docs/limitations.md speaks of.            *)

Parents ==
  <<Fact(F("parent", <<a, b>>)), Fact(F("parent", <<b, c>>)),
    Fact(F("parent", <<c, d>>))>>

Chain(f, g, h) ==
  Rule(F(f, <<V("X"), V("Z")>>),
       <<F(g, <<V("X"), V("Y")>>), F(h, <<V("Y"), V("Z")>>)>>)

(* Two-hop reasoning, and a rule that calls one such rule before its end.  *)
Grandparent ==
  Parents \o
  <<Chain("grandparent", "parent", "parent"),
    Chain("great", "grandparent", "parent"),
    Ask(<<F("great", <<a, V("X")>>), Write(V("X")), Nl, Fail>>)>>

(* A rule that calls two such rules before its last goal.                  *)
Hops ==
  Parents \o <<Fact(F("parent", <<d, a>>)), Fact(F("parent", <<a, c>>))>> \o
  <<Chain("grandparent", "parent", "parent"),
    Rule(F("hops", <<V("X"), V("W")>>),
         <<F("grandparent", <<V("X"), V("Y")>>),
           F("grandparent", <<V("Y"), V("Z")>>),
           F("parent", <<V("Z"), V("W")>>)>>),
    Ask(<<F("hops", <<a, V("X")>>), Write(V("X")), Nl>>)>>

(* A call that is not the last goal, in a rule without permanent variables. *)
CallFirst ==
  <<Fact(F("q", <<a>>)),
    Rule(At0("go"), <<F("q", <<a>>), Write(At0("yes"))>>),
    Ask(<<At0("go"), Nl>>)>>

(* Negation of a single-clause predicate, with a variable that stays free. *)
NegateFree ==
  <<Rule(F("p", <<V("X")>>), <<Fail>>),
    Fact(F("q", <<b>>)),
    Rule(At0("r"), <<Not(F("p", <<V("Z")>>)), F("q", <<V("Z")>>)>>),
    Ask(<<At0("r"), Write(At0("yes")), Nl>>)>>

(* A clause that fails after it made its frame, and one that needs none.   *)
Retried ==
  <<Fact(F("q", <<a>>)), Fact(F("r", <<b>>)),
    Rule(F("p", <<V("X")>>), <<F("q", <<V("X")>>), F("r", <<V("X")>>)>>),
    Fact(F("p", <<c>>)),
    Ask(<<F("p", <<V("X")>>), F("p", <<V("Y")>>), Write(V("X")), Write(V("Y")), Nl>>)>>

(* Integers at the edges of 21 bits and past them, written and computed.   *)
Edge == 2^20

Numbers ==
  <<Fact(F("n", <<N(Edge - 1)>>)), Fact(F("n", <<N(Edge)>>)), Fact(F("n", <<N(-Edge)>>)),
    Fact(F("n", <<N(-Edge - 1)>>)), Fact(F("n", <<N(2 * Edge - 1)>>)), Fact(F("n", <<N(3 * Edge)>>)),
    Rule(F("up", <<V("X"), V("Z")>>),
         <<Infix(V("X"), "<", N(0)), Infix(V("Z"), "is", Infix(V("X"), "-", N(1)))>>),
    Rule(F("up", <<V("X"), V("Z")>>),
         <<Infix(V("X"), ">", N(-2)), Infix(V("Z"), "is", Infix(V("X"), "+", N(1)))>>),
    Ask(<<F("n", <<V("X")>>), F("up", <<V("X"), V("Z")>>), Write(V("X")), Write(V("Z")), Nl, Fail>>)>>

(* A cut with clauses of a caller left: the program of limitations.md:123  *)
(* with facts for it, asked once and asked for all.                        *)
Inner ==
  <<Fact(F("p", <<a>>)), Fact(F("p", <<b>>)), Fact(F("q", <<b>>)),
    Fact(F("r", <<c>>)), Fact(F("r", <<d>>)), Fact(F("s", <<c>>)),
    Rule(At0("outer"), <<F("p", <<V("X")>>), At0("inner"), F("q", <<V("X")>>)>>),
    Rule(At0("inner"), <<F("r", <<V("Y")>>), Cut, F("s", <<V("Y")>>)>>)>>

Outer    == Inner \o <<Ask(<<At0("outer"), Write(At0("yes")), Nl>>)>>
OuterAll == Inner \o <<Ask(<<F("p", <<V("X")>>), At0("inner"), Write(V("X")), Nl, Fail>>)>>

(* Lists that agree in an unbound element and differ in the one behind it, *)
(* before a clause that has another value for the first.                   *)
Clash ==
  <<Fact(F("same", <<V("X"), V("X")>>)),
    Rule(F("t", <<V("A")>>), <<F("same", <<List(<<V("A"), a>>), List(<<b, c>>)>>)>>),
    Fact(F("t", <<d>>)),
    Ask(<<F("t", <<V("A")>>), Write(V("A")), Nl>>)>>

(* Two terms that contain themselves.                                      *)
Cyclic ==
  <<Fact(F("p", <<V("X"), F("f", <<V("X")>>)>>)),
    Ask(<<F("p", <<V("A"), V("A")>>), F("p", <<V("B"), V("B")>>), Infix(V("A"), "=", V("B"))>>)>>

(* Two predicates of one name.                                             *)
Arities ==
  <<Fact(F("p", <<a>>)), Fact(F("p", <<a, b>>)),
    Ask(<<F("p", <<a, c>>), Write(At0("yes")), Nl>>)>>

Hello ==
  <<Rule(At0("hello"), <<Write(At0("hello_world")), Nl>>), Ask(<<At0("hello")>>)>>

(* Lists that end in no [], and a structure with unbound arguments.        *)
Shapes ==
  <<Fact(F("last", <<Cons(V("H"), V("T")), V("H"), V("T")>>)),
    Fact(F("shape", <<F("pair", <<V("X"), V("Y")>>)>>)),
    Ask(<<F("last", <<V("X"), a, b>>), F("last", <<V("Y"), c, V("X")>>), Write(V("Y")), Nl,
          F("shape", <<V("Z")>>), Write(V("Z")), F("last", <<V("W"), V("U"), V("Z")>>),
          Write(V("W")), Write(List(<<a, b>>)), Write(V("V")), Nl>>)>>

-----------------------------------------------------------------------------
(* Programs on both sides of a limit.                                      *)

(* Labels and clauses: k facts, and n negations in a rule.                 *)
Crowd(k, n) ==
  [i \in 1 .. k |-> Fact(F("p", <<a>>))]
    \o <<Rule(At0("go"), [i \in 1 .. n |-> Not(Infix(a, "=", b))]),
         Ask(<<At0("go"), Write(a)>>)>>

(* X registers: n variables in a row, and one that an equation needs.      *)
Name == <<"A", "B", "C", "D", "E", "G", "H", "I", "J">>

Equations(n) ==
  <<Rule(At0("go"), [i \in 1 .. n |-> Infix(V(Name[i]), "=", IF i = 1 THEN a ELSE V(Name[i - 1]))]
                      \o <<Write(V(Name[n]))>>),
    Ask(<<At0("go")>>)>>

(* Two variables made equal both ways round, then one of them bound.       *)
Twins ==
  <<Rule(At0("go"), <<Infix(V("A"), "=", V("B")), Infix(V("B"), "=", V("A")), Infix(V("A"), "=", a),
                      Write(V("B"))>>),
    Ask(<<At0("go")>>)>>

(* X registers: n variables and a list.                                    *)
Listed(n) ==
  <<Fact(F("p", <<V("X")>>)),
    Rule(F("go", [i \in 1 .. n |-> V(Name[i])]), <<F("p", <<List(<<a, V("A")>>)>>)>>),
    Ask(<<F("go", [i \in 1 .. n |-> b]), Write(a)>>)>>

(* Y registers: n variables of two goals.                                  *)
Threads(n) ==
  <<Fact(F("p", <<V("X"), V("Y"), V("Z")>>)),
    Rule(At0("go"), [i \in 1 .. n + 1 |->
                       F("p", [k \in 1 .. 3 |-> V(Name[((i + k) % n) + 1])])]),
    Ask(<<At0("go"), Write(a)>>)>>
=============================================================================
