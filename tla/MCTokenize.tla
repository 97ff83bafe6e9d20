----------------------------- MODULE MCTokenize -----------------------------
(***************************************************************************)
(* Every text of up to four characters, one or two for each class that     *)
(* tokenize knows, and every text of five or six of the characters that    *)
(* make comments, numbers and names.                                       *)
(***************************************************************************)
EXTENDS Tokenize

Texts(chars, n) == UNION {[1 .. k -> chars] : k \in 0 .. n}

MCSources ==
  Texts({" ", "\n", "%", "/", "*", ":", "-", "?", "\\", "+", "(", "1", "2", "a", "X", "_", "@"}, 4)
    \cup Texts({"\n", "%", "/", "*", "-", "1"}, 6)
=============================================================================
