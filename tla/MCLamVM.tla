------------------------------ MODULE MCLamVM -------------------------------
(***************************************************************************)
(* The machine on assembled code.  The first family puts a few words in    *)
(* every order between a TRY, a RETRY and a TRUST that resume one another, *)
(* so that each word runs before, between and after backtracking.  The     *)
(* others are single programs: one for each way a run is refused, and the  *)
(* structures no two words can build.                                      *)
(***************************************************************************)
EXTENDS LamVM, SequencesExt

Assembler == INSTANCE Asm WITH AsmMaxAtoms <- 64, AsmMaxLabels <- 128, MaxCells <- 4096

I(m, a, b)     == <<m, a, b>>
J(m, l)        == <<m, 0, 0, <<"LABEL", l>>>>
K(m, r, c)     == <<m, r, 0, <<"ATOM", c>>>>
N(m, r, n)     == <<m, r, 0, <<"INT", n>>>>
S(m, r, f, n)  == <<m, r, n, <<"ATOM", f>>>>
Def(l)         == <<"DEF", l>>
Declare        == <<<<"ATOMDIR", "a">>, <<"ATOMDIR", "f">>>>

(* Every word that touches the store, the choice points or the frames.     *)
Words ==
  <<I("PUT_VAR", 9, 1), I("PUT_VAL", 8, 1), K("GET_CONST", 0, "a"),
   I("GET_VAL", 8, 1), S("GET_STRUCT", 0, "f", 1), I("UNIFY_VAR", 10, 0),
   I("UNIFY_VAL", 8, 0), J("TRY", "second"), I("CUT", 0, 0),
   I("ALLOCATE", 1, 0), I("GET_Y_VAR", 0, 0), I("PUT_Y_VAL", 0, 1),
   I("DEALLOCATE", 0, 0)>>

Alternatives(w1, w2, w3) ==
  <<I("ALLOCATE", 1, 0), I("PUT_VAR", 8, 0), J("TRY", "second"), w1, w2,
    I("FAIL", 0, 0),
    Def("second"), J("RETRY", "third"), w3, I("FAIL", 0, 0),
    Def("third"), I("TRUST", 0, 0), I("DEALLOCATE", 0, 0), I("HALT", 0, 0)>>

Family ==
  LET k == Len(Words)
  IN  [n \in 1 .. k * k * k |->
         Alternatives(Words[1 + (n % k)], Words[1 + ((n \div k) % k)],
                      Words[1 + ((n \div (k * k)) % k)])]

(* A structure f in register r, its argument built by what follows.        *)
Build(r, tail) == <<I("PUT_VAR", r + 8, r), S("GET_STRUCT", r, "f", 1)>> \o tail

Singles ==
  <<
   \* unify_args
     Build(0, <<I("UNIFY_VAR", 12, 0)>>) \o
     Build(1, <<<<"UNIFY_CONST", 0, 0, <<"ATOM", "a">>>>>>) \o
     <<I("GET_VAL", 8, 1), I("GET_VAL", 9, 0), I("B_WRITE", 0, 0), I("B_NL", 0, 0),
       I("NOP", 0, 0), I("HALT", 0, 0)>>,
   \* unify_clash
     Build(0, <<<<"UNIFY_CONST", 0, 0, <<"INT", 1>>>>>>) \o
     Build(1, <<<<"UNIFY_CONST", 0, 0, <<"INT", 2>>>>>>) \o
     <<I("GET_VAL", 8, 1), I("HALT", 0, 0)>>,
   \* read_stream
     Build(0, <<I("UNIFY_VAR", 12, 0)>>) \o
     <<S("GET_STRUCT", 0, "f", 1), <<"UNIFY_CONST", 0, 0, <<"ATOM", "a">>>>,
       S("GET_STRUCT", 0, "f", 1), I("UNIFY_VAL", 12, 0),
       S("GET_STRUCT", 0, "f", 1), I("UNIFY_VAR", 13, 0), I("UNIFY_VAR", 13, 0),
       I("HALT", 0, 0)>>,
   \* other_functor
     Build(0, <<I("UNIFY_VAR", 12, 0)>>) \o
     <<S("GET_STRUCT", 0, "f", 2), I("HALT", 0, 0)>>,
   \* wide_arity
     <<I("PUT_VAR", 8, 0), S("GET_STRUCT", 0, "f", 33), I("UNIFY_VAR", 12, 0),
       S("GET_STRUCT", 0, "f", 1), I("UNIFY_VAR", 13, 0), S("GET_STRUCT", 0, "f", 33),
       I("HALT", 0, 0)>>,
   \* swapped_binding
     <<I("PUT_VAR", 8, 0), K("PUT_CONST", 1, "a"), I("GET_VAL", 9, 0),
       I("GET_VAR", 9, 1), I("GET_VAL", 9, 0), I("HALT", 0, 0)>>,
   \* dangling_unify
     <<J("TRY", "again"), I("PUT_VAR", 8, 0), I("PUT_VAR", 8, 0), I("FAIL", 0, 0),
       Def("again"), I("TRUST", 0, 0), K("GET_CONST", 8, "a"), I("HALT", 0, 0)>>,
   \* dangling_struct
     <<J("TRY", "again"), I("PUT_VAR", 8, 0), I("PUT_VAR", 8, 0), I("FAIL", 0, 0),
       Def("again"), I("TRUST", 0, 0), S("GET_STRUCT", 8, "f", 1), I("HALT", 0, 0)>>,
   \* dangling_next
     <<J("TRY", "again"), I("PUT_VAR", 8, 0), I("FAIL", 0, 0),
       Def("again"), I("TRUST", 0, 0), S("GET_STRUCT", 8, "f", 1),
       I("UNIFY_VAR", 9, 0), I("HALT", 0, 0)>>,
   \* arith
     <<N("PUT_CONST", 1, IntMax), N("PUT_CONST", 2, 1), I("B_IS_ADD", 0, 0),
       N("PUT_CONST", 1, 0), I("B_LT", 0, 0), I("B_WRITE", 0, 0),
       N("PUT_CONST", 1, IntMin), N("PUT_CONST", 2, 1), I("B_IS_SUB", 0, 0),
       I("B_WRITE", 0, 0), I("B_GT", 0, 0), I("B_LT", 0, 0), I("HALT", 0, 0)>>,
   \* not_an_int
     <<K("PUT_CONST", 1, "a"), I("B_IS_ADD", 0, 0)>>,
   \* loop
     <<Def("here"), J("CALL", "here")>>,
   \* tail_loop
     <<Def("here"), I("ALLOCATE", 1, 0), J("EXECUTE", "here")>>,
   \* returns
     <<J("CALL", "sub"), I("HALT", 0, 0), Def("sub"), I("PROCEED", 0, 0)>>,
   \* no_choice
     <<I("TRUST", 0, 0)>>,
   \* no_frame
     <<I("DEALLOCATE", 0, 0)>>,
   \* bad_slot
     <<I("ALLOCATE", 1, 0), I("PUT_Y_VAL", 1, 0)>>,
   \* runs_out
     <<I("NOP", 0, 0)>>,
   \* bad_reg
     <<I("PUT_VAR", 16, 0)>>,
   \* bad_opcode
     <<I("STORE", 0, 0)>>>>

(* An instruction without its second cell, as a caller of run may pass it. *)
Truncated == <<I("NOP", 0, 0), <<"CALL", 0, 0>>>>

Image(src) == Assembler!Assemble(src).cells

Assembled ==
  LET load(srcs) == [n \in DOMAIN srcs |-> Image(Declare \o srcs[n])]
  IN  load(Family) \o load(Singles) \o <<Truncated>>

MCPrograms == Assembled
=============================================================================
