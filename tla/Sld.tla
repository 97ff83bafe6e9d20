-------------------------------- MODULE Sld ---------------------------------
(***************************************************************************)
(* What a program means: the depth-first SLD search of Prolog with cut,    *)
(* negation as failure and integer arithmetic, over the clauses Compile    *)
(* takes.  It knows nothing of registers, cells, labels or frames, and is  *)
(* what the machine's output is compared with.                             *)
(*                                                                         *)
(* A search is the goals left to prove, the bindings, and the states to go *)
(* back to, the newest last.  A goal carries the number of states that     *)
(* were there when its clause was entered: what a cut keeps in Prolog.  A  *)
(* search that ran a cut with some to keep is deep.                        *)
(***************************************************************************)
EXTENDS Integers, Sequences, SequencesExt, TLC

CONSTANT ScopedCut   \* TRUE if a cut keeps them, FALSE if it keeps nothing

(* Integers have 21 bits, whether they are written or computed.            *)
Int21(n) == <<"INT", ((n + 2^20) % 2^21) - 2^20>>

(* The clauses as seen by activation n: variables are renamed apart.       *)
RECURSIVE Rename(_, _)
Rename(t, n) ==
  CASE t[1] = "VAR" -> <<"VAR", <<n, t[2]>>>>
    [] t[1] = "INT" -> Int21(t[2])
    [] t[1] = "STR" -> <<"STR", t[2], [i \in DOMAIN t[3] |-> Rename(t[3][i], n)]>>
    [] OTHER        -> t

RECURSIVE Walk(_, _)
Walk(b, t) ==
  IF t[1] = "VAR" /\ t[2] \in DOMAIN b THEN Walk(b, b[t[2]]) ELSE t

NoUnifier == [ok |-> FALSE, b |-> <<>>]

RECURSIVE Mgu(_, _)
Mgu(pairs, b) ==
  IF pairs = <<>> THEN [ok |-> TRUE, b |-> b]
  ELSE LET l == Walk(b, Head(pairs)[1])
           r == Walk(b, Head(pairs)[2])
       IN  CASE l = r         -> Mgu(Tail(pairs), b)
             [] l # r /\ l[1] = "VAR" -> Mgu(Tail(pairs), (l[2] :> r) @@ b)
             [] l # r /\ l[1] # "VAR" /\ r[1] = "VAR" ->
                  Mgu(Tail(pairs), (r[2] :> l) @@ b)
             [] /\ l # r /\ l[1] = "STR" /\ r[1] = "STR"
                /\ l[2] = r[2] /\ Len(l[3]) = Len(r[3]) ->
                  Mgu([i \in DOMAIN l[3] |-> <<l[3][i], r[3][i]>>] \o Tail(pairs), b)
             [] OTHER         -> NoUnifier

(***************************************************************************)
(* The text of a term, in pieces: a list is its elements between brackets, *)
(* with what follows the last one after a bar unless it is [], another     *)
(* term its functor and its arguments; an unbound variable has no name.    *)
(***************************************************************************)
IsList(t) == t[1] = "STR" /\ t[2] = "." /\ Len(t[3]) = 2

Separated(texts) ==
  FoldLeft(LAMBDA s, t : s \o (IF s = <<>> THEN t ELSE <<<<", ">>>> \o t), <<>>, texts)

RECURSIVE Elements(_, _), EndOf(_, _), Written(_, _)
Elements(b, t) == IF IsList(t) THEN <<t[3][1]>> \o Elements(b, Walk(b, t[3][2])) ELSE <<>>
EndOf(b, t)    == IF IsList(t) THEN EndOf(b, Walk(b, t[3][2])) ELSE t

Texts(b, terms) == Separated([i \in DOMAIN terms |-> Written(b, terms[i])])

Written(b, t) ==
  LET w == Walk(b, t)
      e == EndOf(b, w)
  IN  CASE w[1] = "VAR" -> <<<<"_G">>>>
        [] w[1] = "NIL" -> <<<<"ATOM", "[]">>>>
        [] w[1] \in {"ATOM", "INT"} -> <<w>>
        [] IsList(w) ->
             <<<<"[">>>> \o Texts(b, Elements(b, w))
               \o (IF e = <<"NIL">> THEN <<>> ELSE <<<<" | ">>>> \o Written(b, e)) \o <<<<"]">>>>
        [] w[1] = "STR" /\ ~IsList(w) ->
             <<<<"ATOM", w[2]>>, <<"(">>>> \o Texts(b, w[3]) \o <<<<")">>>>

(* A flat expression; an operand that is not an integer makes it no number. *)
Number(b, t) == LET w == Walk(b, t) IN IF w[1] = "INT" THEN w ELSE <<"NAN">>

Eval(b, t) ==
  LET l == Number(b, t[3][1])
      r == Number(b, t[3][2])
  IN  IF l[1] # "INT" \/ r[1] # "INT" THEN <<"NAN">>
      ELSE Int21(IF t[2] = "+" THEN l[2] + r[2] ELSE l[2] - r[2])

-----------------------------------------------------------------------------

Frames(body, cut) == [i \in DOMAIN body |-> [goal |-> body[i], cut |-> cut]]

Backtrack(s) ==
  IF s.alts = <<>> THEN [s EXCEPT !.status = "fail"]
  ELSE LET a == s.alts[Len(s.alts)]
       IN  [s EXCEPT !.goals = a.goals, !.b = a.b,
                     !.alts = SubSeq(@, 1, Len(@) - 1)]

Unified(s, u) == IF u.ok THEN [s EXCEPT !.b = u.b] ELSE Backtrack(s)

UnifyOrFail(s, l, r) == Unified(s, Mgu(<<<<l, r>>>>, s.b))

(* Resolve a goal with every clause it unifies with, the first one first.  *)
SameHead(h, g) ==
  \/ h[1] = "ATOM" /\ h = g
  \/ (h[1] = "STR" /\ g[1] = "STR" /\ h[2] = g[2] /\ Len(h[3]) = Len(g[3]))

Way(c, s, u) ==
  [ok |-> u.ok, b |-> u.b,
   goals |-> Frames([i \in DOMAIN c.body |-> Rename(c.body[i], s.n)], Len(s.alts)) \o s.goals]

Follow(s, ways) ==
  IF ways = <<>> THEN Backtrack(s)
  ELSE [s EXCEPT !.goals = ways[1].goals, !.b = ways[1].b,
                 !.alts = @ \o Reverse(Tail(ways)), !.n = @ + 1]

Resolve(prog, s, g) ==
  LET calls  == SelectSeq(prog, LAMBDA c : c.kind # "query" /\ SameHead(c.head, g))
      way(c) == Way(c, s, Mgu(<<<<g, Rename(c.head, s.n)>>>>, s.b))
  IN  Follow(s, SelectSeq([i \in DOMAIN calls |-> way(calls[i])], LAMBDA w : w.ok))

(* Prove g, or go on with the rest: a way back is left behind, and reached *)
(* only if g fails.                                                        *)
Negate(s, g) ==
  LET h == Len(s.alts)
  IN  [s EXCEPT !.goals = <<[goal |-> g, cut |-> h + 1],
                            [goal |-> <<"COMMIT">>, cut |-> h],
                            [goal |-> <<"ATOM", "fail">>, cut |-> h]>>,
                !.alts = Append(@, [goals |-> s.goals, b |-> s.b])]

(* Forget every state to go back to but the n oldest.                      *)
Keep(s, n) == [s EXCEPT !.alts = SubSeq(@, 1, IF n < Len(@) THEN n ELSE Len(@))]

CutTo(s, n) == [Keep(s, IF ScopedCut THEN n ELSE 0) EXCEPT !.deep = @ \/ n > 0]

Arith(s, l, r, Test(_, _)) ==
  IF Number(s.b, l)[1] # "INT" \/ Number(s.b, r)[1] # "INT"
  THEN [s EXCEPT !.status = "ArithNotInt"]
  ELSE IF Test(Number(s.b, l)[2], Number(s.b, r)[2]) THEN s ELSE Backtrack(s)

(* X is E with E a single variable or number only unifies.                 *)
Computed(s, l, n) ==
  IF n[1] # "INT" THEN [s EXCEPT !.status = "ArithNotInt"] ELSE UnifyOrFail(s, l, n)

Is(s, l, r) == IF r[1] # "STR" THEN UnifyOrFail(s, l, r) ELSE Computed(s, l, Eval(s.b, r))

Prove(prog, s0) ==
  LET f == Head(s0.goals)
      g == f.goal
      s == [s0 EXCEPT !.goals = Tail(@)]
      built(n, k) == g[1] = "STR" /\ g[2] = n /\ Len(g[3]) = k
  IN  CASE g = <<"ATOM", "!">>    -> CutTo(s, f.cut)
        [] g = <<"COMMIT">>       -> Keep(s, f.cut)
        [] g = <<"ATOM", "fail">> -> Backtrack(s)
        [] g = <<"ATOM", "nl">>   -> [s EXCEPT !.out = Append(@, <<"NL">>)]
        [] built("write", 1)      -> [s EXCEPT !.out = @ \o Written(s.b, g[3][1])]
        [] built("=", 2)          -> UnifyOrFail(s, g[3][1], g[3][2])
        [] built("is", 2)         -> Is(s, g[3][1], g[3][2])
        [] built("<", 2)          -> Arith(s, g[3][1], g[3][2], LAMBDA m, n : m < n)
        [] built(">", 2)          -> Arith(s, g[3][1], g[3][2], LAMBDA m, n : m > n)
        [] built("\\+", 1)        -> Negate(s, g[3][1])
        [] OTHER                  -> Resolve(prog, s, g)

RECURSIVE Search(_, _, _)
Search(prog, s, fuel) ==
  CASE s.status # "run"                  -> s
    [] s.status = "run" /\ s.goals = <<>> -> [s EXCEPT !.status = "halt"]
    [] s.status = "run" /\ s.goals # <<>> /\ fuel = 0 -> [s EXCEPT !.status = "loop"]
    [] OTHER                             -> Search(prog, Prove(prog, s), fuel - 1)

(* The first answer to the query: how the search ends and what it wrote.   *)
Query(prog) == LET q == CHOOSE i \in DOMAIN prog : prog[i].kind = "query" IN prog[q].body

Start(body) ==
  [goals |-> Frames([i \in DOMAIN body |-> Rename(body[i], 0)], 0), b |-> <<>>, alts |-> <<>>,
   n |-> 1, out |-> <<>>, status |-> "run", deep |-> FALSE]

Answer(s) == [status |-> s.status, out |-> s.out, deep |-> s.deep]

Solve(prog, fuel) == Answer(Search(prog, Start(Query(prog)), fuel))
=============================================================================
