----------------------------- MODULE MCPrologc -----------------------------
(***************************************************************************)
(* The programs of examples/, a few more, and the family, through          *)
(* parser, compiler, assembler and machine.                                *)
(***************************************************************************)
EXTENDS Frames, Prologc

Ex  == INSTANCE Examples
Fam == INSTANCE Family

Single ==
  <<Ex!Ancestor, Ex!Color, Ex!Member, Ex!Sum, Ex!Max, Ex!Neq, Ex!NeqOk, Ex!AppendLists, Ex!Path,
    Ex!PathShow, Ex!Fib, Ex!Liar, Ex!Grandparent, Ex!Retried, Ex!Numbers, Ex!Hello, Ex!Shapes, Ex!Twins,
    Ex!Outer, Ex!OuterAll, Ex!Clash,
    Ex!Crowd(62, 1), Ex!Crowd(62, 2), Ex!Crowd(63, 1), Ex!Equations(7), Ex!Equations(8),
    Ex!Listed(6), Ex!Listed(7), Ex!Threads(8), Ex!Threads(9)>>

(* A program of the family is named by its body, another by 0 and a number. *)
MCSources ==
  [n \in Fam!Bodies \cup ({0} \X DOMAIN Single) |->
     IF n[1] = 0 THEN Single[n[2]] ELSE Fam!ProgramOf(n)]

MCPrograms == Image

(* The atoms of the sources, written out (CodeAssumption sees that none is missing). *)
MCAtoms ==
  {".", "-", "+", "=", "[]", "<", ">", "!", "\\+", "is", "write", "nl", "fail", "a", "b", "c", "d", "e", "n",
   "last", "shape", "pair", "same", "t", "outer", "inner", "go", "hello", "hello_world", "p", "q", "r", "s", "up", "ok", "yes", "done", "parent", "bob", "ann", "liz", "ancestor", "great",
   "grandparent", "color", "red", "green", "blue", "member", "append", "sum", "max", "ne", "edge",
   "path", "show_path", "fib", "monday", "tuesday", "wednesday", "thursday", "friday", "saturday",
   "sunday", "yesterday", "day", "lion_lies", "lion_truth", "unicorn_lies", "unicorn_truth",
   "lion_says_yesterday_lied", "unicorn_says_yesterday_lied"}
=============================================================================
