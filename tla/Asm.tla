-------------------------------- MODULE Asm ---------------------------------
(***************************************************************************)
(* The two-pass assembler of asm.rs, on lines already split into fields.   *)
(* A line is one of                                                        *)
(*   <<"ATOMDIR", f>>        .atom <id> f                                  *)
(*   <<"DEF", l>>            l:                                            *)
(*   <<"BLANK">>             nothing, or a comment                         *)
(*   <<mnemonic, op1, op2>>  an instruction that fits one cell             *)
(*   <<mnemonic, op1, op2, arg>>  one with an immediate: arg is            *)
(*        <<"LABEL", l>>, <<"ATOM", f>> or <<"INT", n>>                     *)
(* Registers are numbered as parse_reg numbers them (A0-A7 are 0 .. 7,     *)
(* X0-X7 are 8 .. 15) and addresses count from 1.                          *)
(***************************************************************************)
EXTENDS Integers, Sequences, SequencesExt

CONSTANTS
  AsmMaxAtoms,     \* ASM_MAX_ATOMS
  AsmMaxLabels,    \* ASM_MAX_LABELS
  MaxCells         \* MAX_CELLS

IsDir(line)   == line[1] = "ATOMDIR"
IsDef(line)   == line[1] = "DEF"
IsInstr(line) == line[1] \notin {"ATOMDIR", "DEF", "BLANK"}

IsTwoCell(m) ==
  m \in {"CALL", "EXECUTE", "TRY", "RETRY", "PUT_CONST", "GET_CONST",
         "GET_STRUCT", "UNIFY_CONST"}

IsTwoCellLine(line) == IsInstr(line) /\ IsTwoCell(line[1])

(***************************************************************************)
(* What precedes line i: directives and labels against the caps of their   *)
(* tables, and the cells the instructions take, two for some and else one. *)
(***************************************************************************)
Before(src, i, Test(_)) == Cardinality({j \in 1 .. i - 1 : Test(src[j])})

CellsBefore(src, i) == Before(src, i, IsInstr) + Before(src, i, IsTwoCellLine)

(* The errors of the lines, in order: the first decides.                   *)
FirstError(errors) ==
  LET bad == {i \in DOMAIN errors : errors[i] # "none"}
  IN  IF bad = {} THEN "none" ELSE errors[CHOOSE i \in bad : \A j \in bad : i <= j]

(***************************************************************************)
(* Pass 1: the tables of atoms and labels and the address of every label.  *)
(* A table counts every insertion against its cap and looks up the first   *)
(* that matches: a name inserted twice is not an error.                    *)
(***************************************************************************)
(* Mutant: the table of labels takes one more.                             *)
SlipPass1ErrorAt(src, i) ==
  CASE IsDir(src[i]) /\ Before(src, i, IsDir) >= AsmMaxAtoms -> "AtomOverflow"
    [] IsDef(src[i]) /\ Before(src, i, IsDef) > AsmMaxLabels -> "LabelOverflow"
    [] OTHER                                                 -> "none"

Pass1ErrorAt(src, i) ==
  CASE IsDir(src[i]) /\ Before(src, i, IsDir) >= AsmMaxAtoms  -> "AtomOverflow"
    [] IsDef(src[i]) /\ Before(src, i, IsDef) >= AsmMaxLabels -> "LabelOverflow"
    [] OTHER                                                  -> "none"

Pass1Error(src) == FirstError([i \in DOMAIN src |-> Pass1ErrorAt(src, i)])

AtomTab(src) == {src[i][2] : i \in {j \in DOMAIN src : IsDir(src[j])}}

Labels(src) ==
  LET defs     == {i \in DOMAIN src : IsDef(src[i])}
      first(l) == CHOOSE i \in defs : /\ src[i][2] = l
                                      /\ \A j \in defs : src[j][2] = l => i <= j
  IN  [l \in {src[i][2] : i \in defs} |-> 1 + CellsBefore(src, first(l))]

(***************************************************************************)
(* Pass 2: the cells of a line.  An integer constant keeps its low 21 bits *)
(* whatever was written.                                                   *)
(***************************************************************************)
(* Mutant: read back without the sign.                                     *)
SlipWrap21(n) == n % 2^21

Wrap21(n) == ((n + 2^20) % 2^21) - 2^20

Width(line) == IF IsTwoCellLine(line) THEN 2 ELSE IF IsInstr(line) THEN 1 ELSE 0

Unknown(arg, atoms, labels) ==
  CASE arg[1] = "LABEL" /\ arg[2] \notin DOMAIN labels -> "UndefinedLabel"
    [] arg[1] = "ATOM" /\ arg[2] \notin atoms          -> "UndeclaredAtom"
    [] OTHER                                           -> "none"

Pass2ErrorAt(src, i, atoms, labels) ==
  LET unknown == IF IsTwoCellLine(src[i]) THEN Unknown(src[i][4], atoms, labels) ELSE "none"
  IN  IF unknown # "none" THEN unknown
      ELSE IF CellsBefore(src, i) + Width(src[i]) > MaxCells THEN "CellOverflow"
      ELSE "none"

Pass2Error(src, atoms, labels) ==
  FirstError([i \in DOMAIN src |-> Pass2ErrorAt(src, i, atoms, labels)])

ParseArg(arg, labels) ==
  CASE arg[1] = "LABEL" -> <<"LABEL", labels[arg[2]]>>
    [] arg[1] = "ATOM"  -> arg
    [] arg[1] = "INT"   -> <<"INT", Wrap21(arg[2])>>

CellsOf(line, labels) ==
  CASE Width(line) = 0 -> <<>>
    [] Width(line) = 1 -> <<line>>
    [] Width(line) = 2 -> <<SubSeq(line, 1, 3), ParseArg(line[4], labels)>>

(* The cells with their addresses, and the buffer they fill.               *)
Placed(src, labels) ==
  UNION {{<<CellsBefore(src, i) + k, CellsOf(src[i], labels)[k]>> : k \in 1 .. Width(src[i])} :
         i \in DOMAIN src}

Cells(src, labels) ==
  LET placed == Placed(src, labels)
  IN  [n \in 1 .. CellsBefore(src, Len(src) + 1) |-> (CHOOSE p \in placed : p[1] = n)[2]]

Assemble(src) ==
  LET labels == Labels(src)
      e1     == Pass1Error(src)
      e2     == Pass2Error(src, AtomTab(src), labels)
  IN  CASE e1 # "none"                -> [err |-> e1, cells |-> <<>>]
        [] e1 = "none" /\ e2 # "none" -> [err |-> e2, cells |-> <<>>]
        [] e1 = "none" /\ e2 = "none" -> [err |-> "none", cells |-> Cells(src, labels)]
=============================================================================
