------------------------------ MODULE Prologc -------------------------------
(***************************************************************************)
(* The whole pipeline of bin/prologc.rs from the tokens on: parse, compile, *)
(* emit, assemble, run.  The machine runs the image of a source, and what  *)
(* it does is compared with the search Sld.tla describes.                  *)
(***************************************************************************)
EXTENDS Discipline, SequencesExt

CONSTANTS
  Sources,                                       \* name -> sequence of clauses
  MaxAtoms, MaxClauseVars, MaxSubterms, MaxBody, MaxClauses, MaxArgs,
  MaxInstr, AsmMaxAtoms, AsmMaxLabels, MaxCells, \* the caps of the code
  Fuel                                           \* bounds the reference search

ASSUME CapAssumption ==
  \A n \in {MaxAtoms, MaxClauseVars, MaxSubterms, MaxBody, MaxClauses, MaxArgs, MaxInstr,
           AsmMaxAtoms, AsmMaxLabels, MaxCells, Fuel} : n \in Nat

Writer    == INSTANCE Spell
Reader    == INSTANCE Descent
Compiler  == INSTANCE Compile
Emitter   == INSTANCE Emit
Assembler == INSTANCE Asm
Prolog    == INSTANCE Sld WITH ScopedCut <- TRUE
FullCut   == INSTANCE Sld WITH ScopedCut <- FALSE
Room      == INSTANCE Limits WITH Registers <- Compiler!RegCap, MaxLabels <- AsmMaxLabels

(* The stages one after another; the first error ends the pipeline.        *)
Failed(e) == [err |-> e, cells |-> <<>>]

AfterCompile(c) ==
  IF c.err # "none" THEN Failed(c.err) ELSE Assembler!Assemble(Emitter!EmitAll(c.instrs))

AfterParse(p) ==
  IF p.err # "none" THEN Failed(p.err) ELSE AfterCompile(Compiler!CompileProgram(p.clauses))

Build(src) == AfterParse(Reader!ParseProgram(Writer!SpellProgram(src)))

(* The machine code of the sources that build.                             *)
Load(images, n, r) == IF r.err = "none" THEN (n :> r.cells) @@ images ELSE images

Image ==
  FoldSet(LAMBDA n, images : Load(images, n, Build(Sources[n])), <<>>, DOMAIN Sources)

ASSUME LoadAssumption == Programs = Image

-----------------------------------------------------------------------------
(***************************************************************************)
(* v is temporary, and is used after a negation in whose goal, or before   *)
(* which, the clause has met it already.                                   *)
(***************************************************************************)
Negates(g) == Compiler!IsStr(g, "\\+", 1)

HeldOver(c, v) ==
  /\ ~Compiler!IsPerm(c, v)
  /\ \E i, j \in DOMAIN c.body :
       /\ i < j /\ Negates(c.body[i])
       /\ v \in ToSet(Compiler!Vars(c.body[j]))
       /\ \/ \E k \in 1 .. i : v \in ToSet(Compiler!Vars(c.body[k]))
          \/ c.kind # "query" /\ v \in ToSet(Compiler!Vars(c.head))

HoldsOverNegation(src) ==
  \E k \in DOMAIN src : \E v \in ToSet(Compiler!Occurrences(src[k])) : HeldOver(src[k], v)

(***************************************************************************)
(* The code of a program is disciplined, so that it reads no register that *)
(* a call, a choice point or backtracking may have spoiled, exactly when   *)
(* no temporary variable is held over a negation.  A goal under \+ is      *)
(* compiled inline (compile.rs:449), with its variables in X registers     *)
(* that nothing saves; every other construct keeps to the discipline.      *)
(***************************************************************************)
CompilesDisciplined ==
  ticks = 0 => (Disciplined <=> ~HoldsOverNegation(Sources[prog]))

Refused == DOMAIN Sources \ DOMAIN Programs

(***************************************************************************)
(* A program is refused when it exceeds a limit and never otherwise: no    *)
(* stage has less room than the ones before it promise, and a program that *)
(* is too large is not run as another one.                                 *)
(***************************************************************************)
BuildsWhatFits ==
  ticks = 0 =>
    Room!Fits(Sources[prog]) /\ \A n \in Refused : ~Room!Fits(Sources[n])

(***************************************************************************)
(* A run stops as the search stops, having written what the search wrote;  *)
(* when the writer refused, what was written is a prefix of that.  A cut   *)
(* met while a caller has clauses left is no part of this: its machine     *)
(* instruction drops those too (dispatch.rs:425), and limitations.md:121   *)
(* says so.                                                                *)
(***************************************************************************)
Agrees(answer) ==
  IF status = "Io" THEN IsPrefix(out, answer.out)
  ELSE status = answer.status /\ out = answer.out

OutputIsSLD ==
  Ended =>
    LET answer == Prolog!Solve(Sources[prog], Fuel)
    IN  ~answer.deep => Agrees(answer)

(***************************************************************************)
(* Of such a cut limitations.md:121 says that it clears the entire choice  *)
(* stack, the backtracking points of the callers included.  A run of a     *)
(* program that meets one writes and ends as a search whose cut does that: *)
(* no clause of any caller is tried again, all the others are.             *)
(***************************************************************************)
CutAsDocumented ==
  Ended =>
    LET answer == FullCut!Solve(Sources[prog], Fuel)
    IN  answer.deep => Agrees(answer)
=============================================================================
