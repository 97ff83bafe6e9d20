------------------------------- MODULE MCParse -------------------------------
(***************************************************************************)
(* Every query of up to five tokens with the operators, chains of two and  *)
(* three of them, every fact of up to six tokens with structs and lists,   *)
(* or eight with a struct alone, and every sequence of up to six of the    *)
(* tokens that make clauses.  The limits are small enough that each is     *)
(* reached and exceeded.                                                   *)
(***************************************************************************)
EXTENDS Parse

a == <<"Atom", "a">>
X == <<"Var", "X">>

Operators == {a, X, <<"Int", 1>>, <<"Atom", "is">>, <<"Plus">>, <<"Lt">>, <<"Not">>, <<"Cut">>, <<"Comma">>}
Compound  == {a, X, <<"Var", "Y">>, <<"LParen">>, <<"RParen">>, <<"LBracket">>, <<"RBracket">>,
              <<"Comma">>, <<"Pipe">>}
Operands  == {a, X, <<"Not">>}
Infix     == {<<"Plus">>, <<"Minus">>, <<"Gt">>, <<"Atom", "is">>}
Args      == {a, X, <<"LParen">>, <<"RParen">>, <<"Comma">>}
Program   == {a, X, <<"Cut">>, <<"Dot">>, <<"Neck">>, <<"Query">>, <<"Comma">>}

(* Up to five words of W between words of F and of L.                      *)
Between(F, W, L) ==
  (F \X W \X L) \cup (F \X W \X W \X L) \cup (F \X W \X W \X W \X L)
    \cup (F \X W \X W \X W \X W \X L) \cup (F \X W \X W \X W \X W \X W \X L)

MCStreams ==
  Between({<<"Query">>}, Operators, {<<"Dot">>})
    \cup Between({a, <<"LBracket">>}, Compound, {<<"Dot">>})
    \cup ({<<"Query">>} \X Operands \X Infix \X Operands \X Infix \X Operands \X {<<"Dot">>})
    \cup ({<<"Query">>} \X Operands \X Infix \X Operands \X Infix \X Operands
             \X Infix \X {a, X} \X {<<"Dot">>})
    \cup ({a} \X {<<"LParen">>} \X Args \X Args \X Args \X Args \X Args \X Args \X {<<"Dot">>})
    \cup UNION {[1 .. k -> Program] : k \in 0 .. 6}
=============================================================================
