------------------------------- MODULE Descent -------------------------------
(***************************************************************************)
(* The recursive descent of parse.rs: from the tokens of a program to its  *)
(* clauses.  A token is as Tokenize makes it, with the name as a value of  *)
(* its own; a clause is as Compile takes it.  Subterms are part of their   *)
(* term here and only counted in the arena.                                *)
(***************************************************************************)
EXTENDS Integers, Sequences, SequencesExt

CONSTANTS MaxAtoms, MaxClauseVars, MaxSubterms, MaxBody, MaxClauses, MaxArgs

(* After an error there is no token to see and none to read, and the error *)
(* stays: that is the ? of the code.                                       *)
Ok(s)         == s.err = "none"
Peek(s)       == IF Ok(s) THEN s.toks[s.pos + 1] ELSE <<"Error">>
Sees(s, kind) == Peek(s)[1] = kind
Bump(s)       == IF Ok(s) THEN [s EXCEPT !.pos = @ + 1] ELSE s
Fail(s, e)    == IF Ok(s) THEN [s EXCEPT !.err = e] ELSE s
Is(s, t)      == [s EXCEPT !.term = t]

-----------------------------------------------------------------------------
(***************************************************************************)
(* The functions of the descent take a state [toks, pos, atoms, vars,      *)
(* subs, err, term] and return the state after them, with the term read.   *)
(***************************************************************************)
(* Mutant: the table is not searched.                                      *)
SlipIntern(s, name) ==
  IF Len(s.atoms) < MaxAtoms THEN [s EXCEPT !.atoms = Append(@, name)] ELSE Fail(s, "AtomOverflow")

Intern(s, name) ==
  CASE name \in ToSet(s.atoms) -> s
    [] name \notin ToSet(s.atoms) /\ Len(s.atoms) < MaxAtoms -> [s EXCEPT !.atoms = Append(@, name)]
    [] OTHER -> Fail(s, "AtomOverflow")

Slot(s, name) ==
  CASE name \in ToSet(s.vars) -> s
    [] name \notin ToSet(s.vars) /\ Len(s.vars) < MaxClauseVars -> [s EXCEPT !.vars = Append(@, name)]
    [] OTHER -> Fail(s, "VarOverflow")

(* push_sub, n times.                                                      *)
PushSubs(s, n) ==
  IF s.subs + n <= MaxSubterms THEN [s EXCEPT !.subs = @ + n] ELSE Fail(s, "SubtermOverflow")

Expect(s, kind, e) == IF Sees(s, kind) THEN Bump(s) ELSE Fail(s, e)

(* The states after the operands.                                          *)
BuildInfix(left, op, right) ==
  Is(PushSubs(Intern(right, op), 2), <<"STR", op, <<left.term, right.term>>>>)

(* The cells of a list, from its last element to its first.                *)
ListOf(elements, tail) == FoldRight(LAMBDA h, t : <<"STR", ".", <<h, t>>>>, elements, tail)

CloseList(tail, elements) ==
  Is(PushSubs(Intern(Expect(tail, "RBracket", "MismatchedBracket"), "."), 2 * Len(elements)),
     ListOf(elements, tail.term))

RECURSIVE ParseTerm(_), ParseArgs(_, _, _), ParseElements(_, _)

MoreArgs(s, name, args) ==
  CASE Len(args) = MaxArgs -> Fail(s, "TooManyArgs")
    [] Len(args) < MaxArgs /\ Sees(s, "Comma")  -> ParseArgs(Bump(s), name, Append(args, s.term))
    [] Len(args) < MaxArgs /\ Sees(s, "RParen") -> Is(Bump(s), <<"STR", name, Append(args, s.term)>>)
    [] OTHER -> Fail(s, "MismatchedParen")

ParseArgs(s, name, args) == MoreArgs(PushSubs(ParseTerm(s), 1), name, args)

ParseStruct(s, name) ==
  IF Sees(s, "RParen") THEN Fail(s, "EmptyArgs") ELSE ParseArgs(Intern(s, name), name, <<>>)

ParseAtomOrStruct(s, name) ==
  IF Sees(s, "LParen") THEN ParseStruct(Bump(s), name) ELSE Is(Intern(s, name), <<"ATOM", name>>)

MoreElements(s, elements) ==
  CASE Len(elements) = MaxSubterms -> Fail(s, "SubtermOverflow")
    [] Len(elements) < MaxSubterms /\ Sees(s, "Comma") ->
         ParseElements(Bump(s), Append(elements, s.term))
    [] Len(elements) < MaxSubterms /\ ~Sees(s, "Comma") ->
         CloseList(IF Sees(s, "Pipe") THEN ParseTerm(Bump(s)) ELSE Is(s, <<"NIL">>),
                   Append(elements, s.term))

ParseElements(s, elements) == MoreElements(ParseTerm(s), elements)

ListRest(s) ==
  IF Sees(s, "RBracket") THEN Is(Bump(s), <<"NIL">>) ELSE ParseElements(s, <<>>)

(* Mutant: only a list that is written [] makes the atom.                  *)
SlipParseList(s) == ListRest(IF Sees(s, "RBracket") THEN Intern(s, "[]") ELSE s)

ParseList(s) == ListRest(Intern(s, "[]"))

ParseTerm(s) ==
  LET t == Peek(s)
      n == Bump(s)
  IN  CASE t[1] = "Atom"     -> ParseAtomOrStruct(n, t[2])
        [] t[1] = "Var"      -> Is(Slot(n, t[2]), <<"VAR", t[2]>>)
        [] t[1] = "Int"      -> Is(n, <<"INT", t[2]>>)
        [] t[1] = "LBracket" -> ParseList(n)
        [] t[1] \in {"Cut", "Not"} -> Fail(n, "BadOperator")
        [] OTHER             -> Fail(n, "UnexpectedToken")

-----------------------------------------------------------------------------
(* Goals: the layer of the infix operators.                                *)
RECURSIVE ParseCmp(_), ParseAddRest(_)

Negation(s) == Is(PushSubs(Intern(s, "\\+"), 1), <<"STR", "\\+", <<s.term>>>>)

ParseNot(s) == Negation(ParseCmp(Bump(s)))

ParseGoal(s) ==
  CASE Sees(s, "Cut") -> Is(Intern(Bump(s), "!"), <<"ATOM", "!">>)
    [] Sees(s, "Not") -> ParseNot(s)
    [] OTHER          -> ParseTerm(s)

Symbol == [Plus |-> "+", Minus |-> "-", Lt |-> "<", Gt |-> ">", Eq |-> "="]

(* Mutant: a - b - c is a - (b - c).                                       *)
SlipAddRest(left) ==
  IF Peek(left)[1] \in {"Plus", "Minus"}
    THEN BuildInfix(left, Symbol[Peek(left)[1]], ParseAddRest(ParseGoal(Bump(left))))
    ELSE left

ParseAddRest(left) ==
  IF Peek(left)[1] \in {"Plus", "Minus"}
    THEN ParseAddRest(BuildInfix(left, Symbol[Peek(left)[1]], ParseGoal(Bump(left))))
    ELSE left

ParseAdd(s) == ParseAddRest(ParseGoal(s))

CmpRest(left) ==
  IF Peek(left)[1] \in {"Lt", "Gt", "Eq"}
    THEN BuildInfix(left, Symbol[Peek(left)[1]], ParseAdd(Bump(left)))
    ELSE left

ParseCmp(s) == CmpRest(ParseAdd(s))

IsRest(left) ==
  IF Peek(left) = <<"Atom", "is">> THEN BuildInfix(left, "is", ParseAdd(Bump(left))) ELSE left

ParseGoalExpr(s) == IsRest(ParseCmp(s))

(* The body and the dot behind it; the goals take the place of the term.   *)
RECURSIVE ParseBody(_, _)

MoreGoals(s, goals) ==
  CASE Len(goals) = MaxBody -> Fail(s, "TooManyGoals")
    [] Len(goals) < MaxBody /\ Sees(s, "Comma") -> ParseBody(Bump(s), Append(goals, s.term))
    [] Len(goals) < MaxBody /\ ~Sees(s, "Comma") ->
         Is(Expect(s, "Dot", "MissingDot"), Append(goals, s.term))

ParseBody(s, goals) == MoreGoals(ParseGoalExpr(s), goals)

Clause(kind, head, s) == Is(s, [kind |-> kind, head |-> head, body |-> s.term])

AfterHead(s) ==
  CASE Sees(s, "Dot")  -> Clause("fact", s.term, Is(Bump(s), <<>>))
    [] Sees(s, "Neck") -> Clause("rule", s.term, ParseBody(Bump(s), <<>>))
    [] OTHER           -> Fail(s, "MissingDot")

ParseClause(s) ==
  IF Sees(s, "Query")
    THEN Clause("query", <<"NIL">>, ParseBody(Bump(s), <<>>))
    ELSE AfterHead(ParseTerm(s))

-----------------------------------------------------------------------------
(* The clauses one after another, each with new variables and subterms.    *)
Start(tokens) ==
  [toks |-> tokens, pos |-> 0, atoms |-> <<>>, vars |-> <<>>, subs |-> 0, err |-> "none",
   term |-> <<"NIL">>]

AtEnd(s) == s.toks[s.pos + 1] = <<"Eof">>

NextClause(s) == ParseClause([s EXCEPT !.vars = <<>>, !.subs = 0])

RECURSIVE ClausesFrom(_, _)

Keep(s, clauses) ==
  CASE ~Ok(s) -> [err |-> s.err, clauses |-> <<>>]
    [] Ok(s) /\ Len(clauses) = MaxClauses -> [err |-> "TooManyClauses", clauses |-> <<>>]
    [] Ok(s) /\ Len(clauses) < MaxClauses -> ClausesFrom(s, Append(clauses, s.term))

ClausesFrom(s, clauses) ==
  IF AtEnd(s) THEN [err |-> "none", clauses |-> clauses] ELSE Keep(NextClause(s), clauses)

ParseProgram(tokens) == ClausesFrom(Start(tokens), <<>>)
=============================================================================
