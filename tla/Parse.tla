-------------------------------- MODULE Parse --------------------------------
(***************************************************************************)
(* parse: one action per clause and one at the end, each with all that the *)
(* recursive descent does.  The reference it is checked against has no     *)
(* cursor: it says into which clauses a sequence of tokens can be cut.     *)
(***************************************************************************)
EXTENDS Descent, Grammar

CONSTANT Streams    \* what tokenize may return, without the Eof at the end

ASSUME ParseAssumption ==
  /\ \A n \in {MaxAtoms, MaxClauseVars, MaxSubterms, MaxBody, MaxClauses, MaxArgs} : n \in Nat
  /\ MaxArgs >= 2    \* room for the operands of an infix operator

VARIABLES
  toks,
  pos,       \* Parser.pos: how many tokens are read
  atoms,     \* the names of the atom table, in the order of their ids
  clauses,
  result     \* "parsing", "ok", or an error

vars == <<toks, pos, atoms, clauses, result>>

Parser == [Start(toks) EXCEPT !.pos = pos, !.atoms = atoms]

-----------------------------------------------------------------------------
Init ==
  /\ \E s \in Streams : toks = Append(s, <<"Eof">>)
  /\ pos = 0
  /\ atoms = <<>>
  /\ clauses = <<>>
  /\ result = "parsing"

Accept(s) ==
  /\ Ok(s) /\ Len(clauses) < MaxClauses
  /\ pos' = s.pos
  /\ atoms' = s.atoms
  /\ clauses' = Append(clauses, s.term)
  /\ UNCHANGED <<toks, result>>

(* The caller looks at the error alone: what else was read is let go.      *)
Reject(s) ==
  /\ ~Ok(s) \/ Len(clauses) = MaxClauses
  /\ result' = IF Ok(s) THEN "TooManyClauses" ELSE s.err
  /\ UNCHANGED <<toks, pos, atoms, clauses>>

ReadClause ==
  /\ result = "parsing" /\ ~AtEnd(Parser)
  /\ \E s \in {NextClause(Parser)} : Accept(s) \/ Reject(s)

Finish ==
  /\ result = "parsing" /\ AtEnd(Parser)
  /\ result' = "ok"
  /\ UNCHANGED <<toks, pos, atoms, clauses>>

Ended == result # "parsing" /\ UNCHANGED vars

Step == ReadClause \/ Finish
Next == Step \/ Ended
Spec == Init /\ [][Next]_vars
-----------------------------------------------------------------------------
TypeOK ==
  /\ pos \in 0 .. Len(toks) - 1
  /\ Len(clauses) <= MaxClauses /\ Len(atoms) <= MaxAtoms
  /\ \A i, j \in DOMAIN atoms : atoms[i] = atoms[j] => i = j
  /\ result \in {"parsing", "ok", "UnexpectedToken", "MissingDot", "MismatchedParen",
                 "MismatchedBracket", "BadOperator", "EmptyArgs", "AtomOverflow", "VarOverflow",
                 "SubtermOverflow", "TooManyArgs", "TooManyGoals", "TooManyClauses"}

Room == INSTANCE Limits WITH Registers <- 0, MaxLabels <- 0

(***************************************************************************)
(* parse accepts exactly the sequences that the grammar reads as a program *)
(* within the limits, and returns that program: whatever it decides on one *)
(* token ahead (a struct or an atom, another argument, an operator, the    *)
(* end of a goal) it decides right, with the operators grouped as their    *)
(* precedence says, and each table takes its limit and not one more.       *)
(***************************************************************************)
ReadsTheGrammar ==
  LET readings == Programs(SubSeq(toks, 1, Len(toks) - 1))
  IN  /\ result = "ok" => readings = {clauses} /\ Room!ParserFits(clauses)
      /\ result \notin {"parsing", "ok"} => \A p \in readings : ~Room!ParserFits(p)

(***************************************************************************)
(* The atom table holds the atoms that the clauses need, among them [] and *)
(* the dot wherever there is a list: the compiler finds every constant and *)
(* functor it asks for (AtomTable of Compile).                             *)
(***************************************************************************)
InternsWhatIsUsed == result = "ok" => ToSet(atoms) = Room!C!AtomTable(clauses)
=============================================================================
