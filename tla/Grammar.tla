------------------------------- MODULE Grammar -------------------------------
(***************************************************************************)
(* The grammar of programs, said without a parser: what a whole sequence   *)
(* of tokens can be read as, by any way to cut it.  Each operator maps a   *)
(* sequence to the set of its readings.  Operators bind as docs/           *)
(* limitations.md says: is, then < > =, then + -, then terms; + and - to   *)
(* the left, the others not at all; and \+ takes all that follows it       *)
(* except an is.                                                           *)
(***************************************************************************)
EXTENDS Integers, Sequences

From(s, i) == SubSeq(s, i, Len(s))
Upto(s, i) == SubSeq(s, 1, i)

(* The places where s can be cut at a token of the kinds.                  *)
CutsAt(s, kinds) == {i \in 2 .. Len(s) - 1 : s[i][1] \in kinds}

OpName == [Plus |-> "+", Minus |-> "-", Lt |-> "<", Gt |-> ">", Eq |-> "="]

RECURSIVE Terms(_), Listed(_), ListEnds(_)

(* The sequences of terms that commas separate in s.                       *)
Listed(s) ==
  {<<t>> : t \in Terms(s)}
    \cup UNION {{<<t>> \o ts : t \in Terms(Upto(s, i - 1)), ts \in Listed(From(s, i + 1))} :
                i \in CutsAt(s, {"Comma"})}

(* What may stand between the brackets of a list that is not empty.        *)
ListEnds(s) ==
  {<<"STR", ".", <<t, <<"NIL">>>>>> : t \in Terms(s)}
    \cup UNION {{<<"STR", ".", <<t, u>>>> : t \in Terms(Upto(s, i - 1)), u \in Terms(From(s, i + 1))} :
                i \in CutsAt(s, {"Pipe"})}
    \cup UNION {{<<"STR", ".", <<t, u>>>> : t \in Terms(Upto(s, i - 1)), u \in ListEnds(From(s, i + 1))} :
                i \in CutsAt(s, {"Comma"})}

Terms(s) ==
  LET n == Len(s)
  IN  CASE n = 0 -> {}
        [] n = 1 -> {<<"ATOM", x[2]>> : x \in {y \in {s[1]} : y[1] = "Atom"}}
                      \cup {<<"VAR", x[2]>> : x \in {y \in {s[1]} : y[1] = "Var"}}
                      \cup {<<"INT", x[2]>> : x \in {y \in {s[1]} : y[1] = "Int"}}
        [] n = 2 -> {<<"NIL">> : x \in {y \in {s} : y = <<<<"LBracket">>, <<"RBracket">>>>}}
        [] n > 2 -> IF s[1][1] = "LBracket" /\ s[n][1] = "RBracket"
                      THEN ListEnds(SubSeq(s, 2, n - 1))
                    ELSE IF s[1][1] = "Atom" /\ s[2][1] = "LParen" /\ s[n][1] = "RParen"
                      THEN {<<"STR", s[1][2], ts>> : ts \in Listed(SubSeq(s, 3, n - 1))}
                    ELSE {}

(* Expressions.  One that ends in a \+ would take in what follows it, so   *)
(* it can only come last: "open" says whether this one does.               *)
RECURSIVE Goals(_, _), Sums(_, _), Comparisons(_, _)

Goals(s, open) ==
  Terms(s)
    \cup {<<"ATOM", "!">> : x \in {y \in {s} : y = <<<<"Cut">>>>}}
    \cup IF open /\ Len(s) > 1 /\ s[1][1] = "Not"
           THEN {<<"STR", "\\+", <<t>>>> : t \in Comparisons(Tail(s), TRUE)}
           ELSE {}

Sums(s, open) ==
  Goals(s, open)
    \cup UNION {{<<"STR", OpName[s[i][1]], <<l, r>>>> :
                   l \in Sums(Upto(s, i - 1), FALSE), r \in Goals(From(s, i + 1), open)} :
                i \in CutsAt(s, {"Plus", "Minus"})}

Comparisons(s, open) ==
  Sums(s, open)
    \cup UNION {{<<"STR", OpName[s[i][1]], <<l, r>>>> :
                   l \in Sums(Upto(s, i - 1), FALSE), r \in Sums(From(s, i + 1), open)} :
                i \in CutsAt(s, {"Lt", "Gt", "Eq"})}

Expressions(s) ==
  Comparisons(s, TRUE)
    \cup UNION {{<<"STR", "is", <<l, r>>>> :
                   l \in Comparisons(Upto(s, i - 1), TRUE), r \in Sums(From(s, i + 1), TRUE)} :
                i \in {j \in CutsAt(s, {"Atom"}) : s[j][2] = "is"}}

RECURSIVE Bodies(_)
Bodies(s) ==
  {<<g>> : g \in Expressions(s)}
    \cup UNION {{<<g>> \o gs : g \in Expressions(Upto(s, i - 1)), gs \in Bodies(From(s, i + 1))} :
                i \in CutsAt(s, {"Comma"})}

(* A clause without its dot, and a program, without the end of the input.  *)
Clauses(s) ==
  {[kind |-> "fact", head |-> h, body |-> <<>>] : h \in Terms(s)}
    \cup UNION {{[kind |-> "rule", head |-> h, body |-> b] :
                   h \in Terms(Upto(s, i - 1)), b \in Bodies(From(s, i + 1))} :
                i \in CutsAt(s, {"Neck"})}
    \cup IF s # <<>> /\ s[1][1] = "Query"
           THEN {[kind |-> "query", head |-> <<"NIL">>, body |-> b] : b \in Bodies(Tail(s))}
           ELSE {}

RECURSIVE Programs(_)
Programs(s) ==
  IF s = <<>> THEN {<<>>}
  ELSE UNION {{<<c>> \o p : c \in Clauses(Upto(s, i - 1)), p \in Programs(From(s, i + 1))} :
              i \in {j \in 2 .. Len(s) : s[j][1] = "Dot"}}
=============================================================================
