-------------------------------- MODULE MCAsm --------------------------------
(***************************************************************************)
(* Texts of the assembler: all of three lines out of those below, all of   *)
(* five of the lines with atoms, labels and addresses, and one with every  *)
(* instruction between two labels.                                         *)
(***************************************************************************)
EXTENDS AsmPasses

W(w)          == <<"word", w>>
A(n)          == <<"reg", "A", n>>
X(n)          == <<"reg", "X", n>>
Y(n)          == <<"reg", "Y", n>>
Num(n)        == <<"num", n>>
Atom(t)       == <<"atom", t>>
Line(m, ops)  == [kind |-> "instr", mnem |-> m, ops |-> ops]
Dir(words)    == [kind |-> "dir", words |-> words]
Def(name)     == [kind |-> "label", name |-> name]

Table == {Dir(<<Num(0), W("a")>>), Dir(<<Num(1), W("a")>>), Def(W("l")), Def(A(1)),
          Line("CALL", <<W("l")>>), Line("TRY", <<A(1)>>), Line("UNIFY_CONST", <<Atom(W("a"))>>),
          Line("HALT", <<>>)}

Good == Table \cup
  {[kind |-> "blank"], Dir(<<Num(1), W("b")>>), Dir(<<Num(1), A(1)>>),
   Line("PUT_CONST", <<A(0), Atom(A(1))>>), Line("GET_CONST", <<X(1), <<"int", 2^20>>>>),
   Line("UNIFY_CONST", <<<<"none">>, <<"int", -1>>, <<"none">>>>),
   Line("GET_STRUCT", <<A(1), <<"slash", W("b"), 2>>>>), Line("PUT_VAR", <<X(0), A(1)>>),
   Line("GET_Y_VAR", <<Y(1), A(2)>>), Line("ALLOCATE", <<Num(255)>>), Line("B_WRITE", <<X(7)>>)}

Wrong ==
  {Dir(<<W("a"), Num(0)>>), Dir(<<Num(0)>>), Dir(<<Num(0), W("a"), W("b")>>),
   Dir(<<Num(2), W("long")>>), Def(W("long")), Def(<<"slash", W("b"), 2>>),
   Line("CALL", <<>>), Line("CALL", <<W("l"), W("l")>>), Line("HALT", <<A(0)>>),
   Line("PUT_CONST", <<W("a"), Atom(W("b"))>>), Line("PUT_CONST", <<A(0), W("a")>>),
   Line("GET_STRUCT", <<A(1), W("b")>>), Line("GET_STRUCT", <<A(1), <<"slash", W("b"), 256>>>>),
   Line("PUT_Y_VAL", <<X(0), A(1)>>), Line("ALLOCATE", <<Num(256)>>), Line("B_WRITE", <<Num(1)>>),
   Line("NOOP", <<>>), Line("list", <<>>)}

(* An operand for each sort.                                               *)
Some == [reg |-> X(1), yreg |-> Y(1), slots |-> Num(2), label |-> W("m"),
         const |-> Atom(W("a")), functor |-> <<"slash", W("a"), 2>>]

Each(m) ==
  <<Dir(<<Num(3), W("a")>>), Def(W("l")),
    Line(m, [i \in DOMAIN Operands(m) |-> Some[Operands(m)[i]]]),
    Def(W("m")), Line("EXECUTE", <<W("m")>>)>>

MCTexts ==
  UNION {[1 .. n -> Good \cup Wrong] : n \in 0 .. 3} \cup [1 .. 5 -> Table]
    \cup {Each(m) : m \in Mnemonics}

MCLines == UNION {ToSet(t) : t \in MCTexts}

MCTooLong == {W("long")}
=============================================================================
