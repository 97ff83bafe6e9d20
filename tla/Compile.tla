------------------------------ MODULE Compile -------------------------------
(***************************************************************************)
(* compile.rs: from clauses to instructions, in two stages.  The first     *)
(* expands a clause into instructions that still name its variables; the   *)
(* second goes through them once and settles each variable: an X or a Y    *)
(* register, and the instruction of a first or of a later occurrence.      *)
(* The code does both in one walk and marks a variable seen as it goes, so *)
(* the order of occurrence is the order of the instructions.               *)
(*                                                                         *)
(* A term is <<"VAR", v>>, <<"ATOM", a>>, <<"INT", n>>, <<"NIL">> or       *)
(* <<"STR", f, args>>; a list cell is the functor "." with two arguments.  *)
(* A clause is [kind, head, body], a program a sequence of clauses.        *)
(* A label is the tuple of the parts its text is built from: two labels    *)
(* have the same text exactly when they are the same tuple.                *)
(***************************************************************************)
EXTENDS Integers, Sequences, SequencesExt

CONSTANT MaxInstr    \* MAX_INSTR

RegCap == 8

Err(e) == <<<<"ERR", e>>>>
Fn(t)  == <<t[2], Len(t[3])>>
IsStr(t, f, n) == t[1] = "STR" /\ Fn(t) = <<f, n>>

RECURSIVE Vars(_), AtomsIn(_)
Vars(t) ==      \* every occurrence, from left to right
  CASE t[1] = "VAR" -> <<t[2]>>
    [] t[1] = "STR" -> FlattenSeq([i \in DOMAIN t[3] |-> Vars(t[3][i])])
    [] OTHER        -> <<>>

AtomsIn(t) ==
  CASE t[1] = "ATOM" -> {t[2]}
    [] t[1] = "NIL"  -> {"[]"}
    [] t[1] = "STR"  -> {t[2]} \cup (IF t[2] = "." THEN {"[]"} ELSE {})
                          \cup UNION {AtomsIn(t[3][i]) : i \in DOMAIN t[3]}
    [] OTHER         -> {}

TermsOf(c) == ToSet(c.body) \cup (IF c.kind = "query" THEN {} ELSE {c.head})

AtomTable(prog) ==
  UNION {UNION {AtomsIn(t) : t \in TermsOf(prog[i])} : i \in DOMAIN prog}

-----------------------------------------------------------------------------
(***************************************************************************)
(* Registers.  A chunk is a run of inline goals and the call that ends it; *)
(* the head belongs to the first.  A variable of one chunk is temporary, a *)
(* variable of several is permanent.                                       *)
(***************************************************************************)
IsInline(g) ==
  \/ g[1] = "ATOM" /\ g[2] \in {"nl", "fail", "!"}
  \/ g[1] = "STR" /\ Fn(g) \in {<<"write", 1>>, <<"\\+", 1>>, <<"is", 2>>,
                                <<"<", 2>>, <<">", 2>>, <<"=", 2>>}

ChunkOf(c, i) == Cardinality({j \in 1 .. i - 1 : ~IsInline(c.body[j])})

ChunksOf(c, v) ==
  {ChunkOf(c, i) : i \in {j \in DOMAIN c.body : v \in ToSet(Vars(c.body[j]))}}
    \cup (IF v \in ToSet(Vars(c.head)) THEN {0} ELSE {})

(* Slip (see TrailStore): a variable of two chunks is kept in a register.  *)
SlipTemporary(c, v) == Cardinality(ChunksOf(c, v)) > 2

IsPerm(c, v) == Cardinality(ChunksOf(c, v)) > 1

Occurrences(c) ==
  Vars(c.head) \o FlattenSeq([i \in DOMAIN c.body |-> Vars(c.body[i])])

(* The variables of a class, in order of first occurrence.                 *)
OfClass(c, perm) ==
  LET add(s, v) == IF IsPerm(c, v) # perm \/ Contains(s, v) THEN s ELSE Append(s, v)
  IN  FoldLeft(add, <<>>, Occurrences(c))

(* temps and perms: X and Y numbers count from 0 in this order.            *)
Registers(c, atoms) ==
  [temps |-> OfClass(c, FALSE), perms |-> OfClass(c, TRUE), atoms |-> atoms]

IndexOf(s, v) == (CHOOSE i \in DOMAIN s : s[i] = v) - 1
NTemp(rm)  == Len(rm.temps)
NPerm(rm)  == Len(rm.perms)
HasEnv(rm) == NPerm(rm) > 0
Scratch(rm) == NTemp(rm)

(* Whichever class runs out of registers first.                            *)
PastCap(s) == ToSet(SubSeq(s, RegCap + 1, Len(s)))

RegError(rm, c) ==
  LET late == SelectSeq(Occurrences(c),
                        LAMBDA v : v \in PastCap(rm.temps) \cup PastCap(rm.perms))
  IN  CASE late = <<>> -> <<>>
        [] late # <<>> /\ Contains(rm.perms, Head(late)) -> Err("TooManyYRegs")
        [] late # <<>> /\ Contains(rm.temps, Head(late)) -> Err("TooManyXRegs")

-----------------------------------------------------------------------------
(* Stage 1: heads and arguments.                                           *)

UnifyTerm(t) ==
  CASE t[1] = "VAR" -> <<<<"unifyVar", t[2]>>>>
    [] t[1] = "INT" -> Err("IntArg")
    [] OTHER        -> Err("StructArg")

HeadArg(i, t) ==
  CASE t[1] = "ATOM" -> <<<<"GetConst", i, t[2]>>>>
    [] t[1] = "NIL"  -> <<<<"GetConst", i, "[]">>>>
    [] t[1] = "VAR"  -> <<<<"headVar", i, t[2]>>>>
    [] t[1] = "INT"  -> <<<<"GetInt", i, t[2]>>>>
    [] t[1] = "STR"  -> <<<<"GetStruct", i, t[2], Len(t[3])>>>>
                          \o FlattenSeq([k \in DOMAIN t[3] |-> UnifyTerm(t[3][k])])

HeadArgs(t) ==
  IF t[1] = "STR"
  THEN FlattenSeq([i \in DOMAIN t[3] |-> HeadArg(i - 1, t[3][i])])
  ELSE <<>>

ListElement(t) ==
  CASE t[1] = "ATOM" -> <<<<"UnifyConst", t[2]>>>>
    [] t[1] = "NIL"  -> <<<<"UnifyConst", "[]">>>>
    [] OTHER         -> UnifyTerm(t)

RECURSIVE ListSpine(_, _, _)
ListSpine(rm, i, t) ==
  LET tail == t[3][2]
  IN  <<<<"GetStruct", i, ".", 2>>>> \o ListElement(t[3][1]) \o
      CASE tail[1] = "NIL"       -> <<<<"UnifyConst", "[]">>>>
        [] IsStr(tail, ".", 2)   -> <<<<"UnifyVar", Scratch(rm) + 1>>,
                                      <<"PutVal", i, Scratch(rm) + 1>>>>
                                    \o ListSpine(rm, i, tail)
        [] OTHER                 -> Err("StructArg")

BuildList(rm, i, t) ==
  CASE "." \notin rm.atoms         -> Err("UnknownAtom")
    [] "." \in rm.atoms /\ ~IsStr(t, ".", 2) -> Err("StructArg")
    [] IsStr(t, ".", 2) /\ Scratch(rm) + 1 >= RegCap -> Err("TooManyXRegs")
    [] OTHER -> <<<<"PutVar", i, Scratch(rm)>>>> \o ListSpine(rm, i, t)
                  \o <<<<"PutVal", i, Scratch(rm)>>>>

PutArg(rm, i, t) ==
  CASE t[1] = "ATOM" -> <<<<"PutConst", i, t[2]>>>>
    [] t[1] = "NIL"  -> <<<<"PutConst", i, "[]">>>>
    [] t[1] = "VAR"  -> <<<<"putVar", i, t[2]>>>>
    [] t[1] = "INT"  -> <<<<"PutInt", i, t[2]>>>>
    [] t[1] = "STR"  -> BuildList(rm, i, t)

(* Slip: the argument registers are counted from 1.                        *)
SlipPutArgs(rm, g) ==
  IF g[1] = "STR"
  THEN FlattenSeq([i \in DOMAIN g[3] |-> PutArg(rm, i, g[3][i])])
  ELSE <<>>

PutArgs(rm, g) ==
  IF g[1] = "STR"
  THEN FlattenSeq([i \in DOMAIN g[3] |-> PutArg(rm, i - 1, g[3][i])])
  ELSE <<>>

-----------------------------------------------------------------------------
(* Stage 1: goals.  at is the label of a goal that is a negation.          *)

EvalLeaf(i, t) ==
  CASE t[1] = "INT" -> <<<<"PutInt", i, t[2]>>>>
    [] t[1] = "VAR" -> <<<<"putVar", i, t[2]>>>>
    [] OTHER        -> Err("BadGoal")

EvalExpr(t) ==
  IF IsStr(t, "+", 2) \/ IsStr(t, "-", 2)
  THEN EvalLeaf(1, t[3][1]) \o EvalLeaf(2, t[3][2])
         \o <<<<IF t[2] = "+" THEN "BIsAdd" ELSE "BIsSub">>>>
  ELSE EvalLeaf(0, t)

BindA0(t) ==
  CASE t[1] = "INT" -> <<<<"GetInt", 0, t[2]>>>>
    [] t[1] = "VAR" -> <<<<"headVar", 0, t[2]>>>>
    [] OTHER        -> Err("BadGoal")

Compare(a, b, op) == EvalLeaf(0, a) \o EvalLeaf(1, b) \o <<<<op>>>>

Equal(rm, l, r) ==
  PutArg(rm, 0, l)
    \o (IF Scratch(rm) >= RegCap THEN Err("TooManyXRegs")
        ELSE <<<<"GetVar", 0, Scratch(rm)>>>>)
    \o PutArg(rm, 1, r) \o <<<<"GetVal", 1, Scratch(rm)>>>>

CallGoal(rm, g, instr) ==
  IF g[1] \in {"ATOM", "STR"}
  THEN PutArgs(rm, g) \o <<<<instr, <<"entry", g[2]>>>>>>
  ELSE Err("BadGoal")

RECURSIVE InlineGoal(_, _, _)
InlineGoal(rm, g, at) ==
  CASE g = <<"ATOM", "nl">>    -> <<<<"BNl">>>>
    [] g = <<"ATOM", "fail">>  -> <<<<"Fail">>>>
    [] g = <<"ATOM", "!">>     -> <<<<"Cut">>>>
    [] IsStr(g, "write", 1)    -> PutArg(rm, 0, g[3][1]) \o <<<<"BWrite", 0>>>>
    [] IsStr(g, "is", 2)       -> EvalExpr(g[3][2]) \o BindA0(g[3][1])
    [] IsStr(g, "<", 2)        -> Compare(g[3][1], g[3][2], "BLt")
    [] IsStr(g, ">", 2)        -> Compare(g[3][1], g[3][2], "BGt")
    [] IsStr(g, "=", 2)        -> Equal(rm, g[3][1], g[3][2])
    [] IsStr(g, "\\+", 1)      ->
         LET inner == g[3][1]
         IN  <<<<"Try", at>>>>
               \o (IF IsInline(inner) THEN InlineGoal(rm, inner, [at EXCEPT ![4] = @ + 1])
                   ELSE CallGoal(rm, inner, "Call"))
               \o <<<<"Trust">>, <<"Fail">>, <<"Label", at>>, <<"Trust">>>>

(* The negations of a clause are numbered from 0 as they are met, a nested *)
(* one after the one around it.                                            *)
RECURSIVE Negations(_)
Negations(g) == IF IsStr(g, "\\+", 1) THEN 1 + Negations(g[3][1]) ELSE 0

NegLabel(p, k, c, i) ==
  <<"neg", p, k, FoldLeft(LAMBDA n, g : n + Negations(g), 0, SubSeq(c.body, 1, i - 1))>>

(* A goal of a rule.  The last one leaves the clause.                      *)
Goal(rm, g, at, last) ==
  LET leave == IF HasEnv(rm) THEN <<<<"Deallocate">>>> ELSE <<>>
  IN  CASE IsInline(g) /\ ~last  -> InlineGoal(rm, g, at)
        [] IsInline(g) /\ last   -> InlineGoal(rm, g, at) \o leave \o <<<<"Proceed">>>>
        [] ~IsInline(g) /\ ~last -> CallGoal(rm, g, "Call")
        [] ~IsInline(g) /\ last  ->
             IF g[1] \in {"ATOM", "STR"}
             THEN PutArgs(rm, g) \o leave \o <<<<"Execute", <<"entry", g[2]>>>>>>
             ELSE Err("BadGoal")

QueryGoal(rm, g, at) ==
  IF IsInline(g) THEN InlineGoal(rm, g, at) ELSE CallGoal(rm, g, "Call")

-----------------------------------------------------------------------------
(***************************************************************************)
(* Stage 2: settle the variables.  s has the variables seen so far, the    *)
(* instructions and the first error; nothing is added after an error.      *)
(***************************************************************************)
Occurrence(rm, seen, i) ==
  LET v    == i[Len(i)]
      perm == Contains(rm.perms, v)
      r    == IF perm THEN IndexOf(rm.perms, v) ELSE IndexOf(rm.temps, v)
      new  == v \notin seen
      a    == i[2]
  IN  CASE i[1] = "headVar" /\ ~perm /\ new  -> <<<<"GetVar", a, r>>>>
        [] i[1] = "headVar" /\ ~perm /\ ~new -> <<<<"GetVal", a, r>>>>
        [] i[1] = "headVar" /\ perm /\ new   -> <<<<"GetYVar", a, r>>>>
        [] i[1] = "headVar" /\ perm /\ ~new  -> Err("HeadVarRepeat")
        [] i[1] = "unifyVar" /\ perm         -> Err("StructArg")
        [] i[1] = "unifyVar" /\ ~perm /\ new  -> <<<<"UnifyVar", r>>>>
        [] i[1] = "unifyVar" /\ ~perm /\ ~new -> <<<<"UnifyVal", r>>>>
        [] i[1] = "putVar" /\ ~perm /\ new   -> <<<<"PutVar", a, r>>>>
        [] i[1] = "putVar" /\ ~perm /\ ~new  -> <<<<"PutVal", a, r>>>>
        [] i[1] = "putVar" /\ perm /\ ~new   -> <<<<"PutYVal", a, r>>>>
        [] i[1] = "putVar" /\ perm /\ new    ->
             IF Scratch(rm) >= RegCap THEN Err("TooManyXRegs")
             ELSE <<<<"PutVar", a, Scratch(rm)>>, <<"GetYVar", a, r>>>>

Settle(rm, code) ==
  LET add(s, i) ==
        LET names == i[1] \in {"headVar", "unifyVar", "putVar"}
        IN  [seen |-> IF names THEN s.seen \cup {i[Len(i)]} ELSE s.seen,
             code |-> s.code \o IF names THEN Occurrence(rm, s.seen, i) ELSE <<i>>]
  IN  FoldLeft(add, [seen |-> {}, code |-> <<>>], code).code

-----------------------------------------------------------------------------
(* Clauses, predicates, the query.                                         *)

Enter(rm) == IF HasEnv(rm) THEN <<<<"Allocate", NPerm(rm)>>>> ELSE <<>>

ClauseBody(rm, c, p, k) ==
  <<<<"Label", <<"body", p, k>>>>>> \o RegError(rm, c)
    \o Settle(rm, Enter(rm) \o HeadArgs(c.head) \o
          IF c.kind = "fact" THEN <<<<"Proceed">>>>
          ELSE FlattenSeq([i \in DOMAIN c.body |->
                 Goal(rm, c.body[i], NegLabel(p, k, c, i), i = Len(c.body))]))

(* The entry of a predicate: try its n clauses in order.                   *)
Dispatcher(p, n) ==
  LET run(k) == <<"Execute", <<"body", p, k>>>>
      alt(k) == <<"clause", p, k>>
      later(k) == <<<<"Label", alt(k)>>,
                    IF k = n THEN <<"Trust">> ELSE <<"Retry", alt(k + 1)>>,
                    run(k)>>
  IN  <<<<"Label", <<"entry", p>>>>>> \o
      IF n = 1 THEN <<run(1)>>
      ELSE <<<<"Try", alt(2)>>, run(1)>>
             \o FlattenSeq([k \in 1 .. n - 1 |-> later(k + 1)])

(***************************************************************************)
(* A predicate is a run of consecutive clauses with one name and arity,    *)
(* cut by the query.  Its labels carry the name only.                      *)
(***************************************************************************)
HasPred(c) == c.head[1] \in {"ATOM", "STR"}
PredOf(c)  == IF c.head[1] = "ATOM" THEN <<c.head[2], 0>> ELSE Fn(c.head)
SamePred(c, d) ==
  /\ c.kind # "query" /\ d.kind # "query"
  /\ HasPred(c) /\ HasPred(d)
  /\ PredOf(c) = PredOf(d)

GroupEnd(prog, i) ==
  CHOOSE j \in i + 1 .. Len(prog) + 1 :
    /\ \A k \in i + 1 .. j - 1 : SamePred(prog[i], prog[k])
    /\ j <= Len(prog) => ~SamePred(prog[i], prog[j])

Group(prog, i, atoms) ==
  LET j == GroupEnd(prog, i)
      p == prog[i].head[2]
  IN  IF \/ ~HasPred(prog[i])
         \/ j <= Len(prog) /\ prog[j].kind # "query" /\ ~HasPred(prog[j])
      THEN Err("BadHead")
      ELSE FlattenSeq([k \in 1 .. j - i |->
             ClauseBody(Registers(prog[i + k - 1], atoms), prog[i + k - 1], p, k)])
             \o Dispatcher(p, j - i)

RECURSIVE Predicates(_, _, _)
Predicates(prog, i, atoms) ==
  CASE i > Len(prog) -> <<>>
    [] i <= Len(prog) /\ prog[i].kind = "query" -> Predicates(prog, i + 1, atoms)
    [] i <= Len(prog) /\ prog[i].kind # "query" ->
         Group(prog, i, atoms) \o Predicates(prog, GroupEnd(prog, i), atoms)

Query(rm, c) ==
  <<<<"Label", <<"query">>>>>> \o RegError(rm, c)
    \o Settle(rm, Enter(rm) \o FlattenSeq([i \in DOMAIN c.body |->
                     QueryGoal(rm, c.body[i], NegLabel("q", 0, c, i))]))
    \o (IF HasEnv(rm) THEN <<<<"Deallocate">>>> ELSE <<>>)
    \o <<<<"Halt">>>>

Queries(prog) == {i \in DOMAIN prog : prog[i].kind = "query"}

Instructions(prog, atoms) ==
  LET q == CHOOSE i \in Queries(prog) : TRUE
  IN  FoldSet(LAMBDA a, s : Append(s, <<"AtomDir", a>>), <<>>, atoms)
        \o <<<<"Execute", <<"query">>>>>>
        \o Predicates(prog, 1, atoms)
        \o Query(Registers(prog[q], atoms), prog[q])

(* The first error ends the compilation, running out of room is one.       *)
Result(code) ==
  LET bad == {i \in DOMAIN code : code[i][1] = "ERR"}
      at  == CHOOSE i \in bad : \A j \in bad : i <= j
  IN  CASE bad = {} /\ Len(code) <= MaxInstr -> [err |-> "none", instrs |-> code]
        [] bad # {} /\ at <= MaxInstr + 1    -> [err |-> code[at][2], instrs |-> <<>>]
        [] OTHER                             -> [err |-> "InstrOverflow", instrs |-> <<>>]

CompileProgram(prog) ==
  CASE Cardinality(Queries(prog)) = 0 -> [err |-> "NoQuery", instrs |-> <<>>]
    [] Cardinality(Queries(prog)) > 1 -> [err |-> "MultipleQueries", instrs |-> <<>>]
    [] OTHER                          -> Result(Instructions(prog, AtomTable(prog)))
=============================================================================
