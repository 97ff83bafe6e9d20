----------------------------- MODULE AsmPasses ------------------------------
(***************************************************************************)
(* assemble of asm.rs, line by line: pass 1 fills the tables, pass 2 emits *)
(* the cells.  A line is what strip_line and the splitting leave of it:    *)
(*   [kind |-> "blank"]                                                    *)
(*   [kind |-> "dir", words |-> <<text, ...>>]         after .atom         *)
(*   [kind |-> "label", name |-> text]                 before a colon      *)
(*   [kind |-> "instr", mnem |-> m, ops |-> <<text, ...>>]  at the commas  *)
(* and a text is one of                                                    *)
(*   <<"reg", "A", n>>, with X and Y      A0 .. Y7                         *)
(*   <<"num", n>>, <<"word", w>>          digits, an identifier            *)
(*   <<"atom", t>>, <<"int", n>>          atom(t), int(n)                  *)
(*   <<"slash", t, n>>                    t/n                              *)
(*   <<"none">>                           nothing, between two commas      *)
(* A table is searched for a text, whatever else that text might be.       *)
(* The n of an int and the ids of atoms fit their machine types; an id is  *)
(* below 2^21, as those of compile() are.                                  *)
(***************************************************************************)
EXTENDS Asm

CONSTANTS
  Lines,      \* what a line may be
  Texts,      \* the sources: sequences of lines
  TooLong     \* the names of more than 48 bytes

VARIABLES
  src,
  pass,       \* 1 or 2
  line,       \* how many lines the pass has read
  atoms,      \* AtomTab: <<name, id>>, in the order of insertion
  labels,     \* LblTab: <<name, address>>
  addr,       \* pass 1: the cells so far
  cells,      \* pass 2: the cells
  result      \* <<"running">>, <<"ok">> or <<error, line>>; the overflows are told without a line

vars == <<src, pass, line, atoms, labels, addr, cells, result>>

ASSUME AsmAssumption ==
  /\ Texts \subseteq Seq(Lines)
  /\ \A l \in Lines : l.kind \in {"blank", "dir", "label", "instr"}
  /\ AsmMaxAtoms \in Nat /\ AsmMaxLabels \in Nat /\ MaxCells \in Nat

ASSUME OperandAssumption ==
  \A l \in Lines : l.kind = "instr" =>
    /\ l.ops \in Seq({l.ops[i] : i \in DOMAIN l.ops})
    /\ \A i \in DOMAIN l.ops : l.ops[i][1] = "int" => l.ops[i][2] \in Int
    /\ \A i \in DOMAIN l.ops : l.ops[i][1] = "reg" => l.ops[i][3] \in 0 .. 7

-----------------------------------------------------------------------------
(* The operands of every instruction, by sort.                             *)
Plain == {"NOP", "HALT", "PROCEED", "FAIL", "CUT", "TRUST", "DEALLOCATE", "B_NL",
          "B_IS_ADD", "B_IS_SUB", "B_LT", "B_GT"}
Jumps == {"CALL", "EXECUTE", "TRY", "RETRY"}
Moves == {"PUT_VAR", "PUT_VAL", "GET_VAR", "GET_VAL"}

Mnemonics == Plain \cup Jumps \cup Moves \cup
  {"PUT_CONST", "GET_CONST", "GET_STRUCT", "PUT_Y_VAL", "GET_Y_VAR", "ALLOCATE", "B_WRITE",
   "UNIFY_VAR", "UNIFY_VAL", "UNIFY_CONST"}

Operands(m) ==
  CASE m \in Plain                                -> <<>>
    [] m \in Jumps                                -> <<"label">>
    [] m \in Moves                                -> <<"reg", "reg">>
    [] m \in {"PUT_CONST", "GET_CONST"}           -> <<"reg", "const">>
    [] m = "GET_STRUCT"                           -> <<"reg", "functor">>
    [] m \in {"PUT_Y_VAL", "GET_Y_VAR"}           -> <<"yreg", "reg">>
    [] m = "ALLOCATE"                             -> <<"slots">>
    [] m \in {"B_WRITE", "UNIFY_VAR", "UNIFY_VAL"} -> <<"reg">>
    [] m = "UNIFY_CONST"                          -> <<"const">>

(* Mutant: one of the instructions with a constant is forgotten.           *)
SlipWidthOf(m) == IF IsTwoCell(m) /\ m # "UNIFY_CONST" THEN 2 ELSE 1

WidthOf(m) == IF IsTwoCell(m) THEN 2 ELSE 1

(* A table is searched from its first entry.                               *)
Holds(tab, name) == \E i \in DOMAIN tab : tab[i][1] = name

(* Mutant: the last insertion decides.                                     *)
SlipEntry(tab, name) == tab[Max({i \in DOMAIN tab : tab[i][1] = name})][2]

Entry(tab, name) == tab[Min({i \in DOMAIN tab : tab[i][1] = name})][2]

-----------------------------------------------------------------------------
(* A text where an operand of some sort is wanted: its error; the field of *)
(* the first cell it fills; the cell it adds.                              *)
UnlessIn(tab, name, e) == IF Holds(tab, name) THEN "none" ELSE e
Unless(test)           == IF test THEN "none" ELSE "BadOperand"

OperandError(sort, t) ==
  CASE sort = "reg"    -> Unless(t[1] = "reg")
    [] sort = "yreg"   -> Unless(t[1] = "reg" /\ t[2] = "Y")
    [] sort = "slots"  -> Unless(t[1] = "num" /\ t[2] \in 0 .. 255)
    [] sort = "label"  -> UnlessIn(labels, t, "UndefinedLabel")
    [] sort = "const" /\ t[1] = "atom" -> UnlessIn(atoms, t[2], "UndeclaredAtom")
    [] sort = "const" /\ t[1] # "atom" -> Unless(t[1] = "int")
    [] sort = "functor" /\ t[1] = "slash" /\ t[3] \in 0 .. 255 ->
         UnlessIn(atoms, t[2], "UndeclaredAtom")
    [] OTHER -> "BadOperand"

ParseReg(t) == IF t[2] = "X" THEN 8 + t[3] ELSE t[3]

Field(sort, t) ==
  CASE sort \in {"reg", "yreg"} -> <<ParseReg(t)>>
    [] sort = "slots"            -> <<t[2]>>
    [] sort = "functor"          -> <<t[3]>>
    [] OTHER                     -> <<>>

Symbol(sort, t) ==
  CASE sort = "label"                     -> <<<<"LABEL", t>>>>
    [] sort = "const" /\ t[1] = "int"     -> <<<<"INT", t[2]>>>>
    [] sort = "const" /\ t[1] = "atom"    -> <<<<"ATOM", t[2]>>>>
    [] sort = "functor"                   -> <<<<"ATOM", t[2]>>>>
    [] OTHER                              -> <<>>

(* Mutant: a label is taken for the address behind its instruction.        *)
SlipResolved(s) ==
  CASE s[1] = "LABEL" -> <<"LABEL", Entry(labels, s[2]) + 1>>
    [] s[1] = "ATOM"  -> <<"ATOM", Entry(atoms, s[2])>>
    [] s[1] = "INT"   -> <<"INT", Wrap21(s[2])>>

(* The immediate that a symbol stands for.                                 *)
Resolved(s) ==
  CASE s[1] = "LABEL" -> <<"LABEL", Entry(labels, s[2])>>
    [] s[1] = "ATOM"  -> <<"ATOM", Entry(atoms, s[2])>>
    [] s[1] = "INT"   -> <<"INT", Wrap21(s[2])>>

SplitArgs(ops) ==
  LET Kept[n \in 0 .. Len(ops)] ==
        IF n = 0 THEN <<>>
        ELSE IF ops[n] = <<"none">> THEN Kept[n - 1] ELSE Append(Kept[n - 1], ops[n])
  IN  Kept[Len(ops)]

(* One cell after another, for two operands at most.                       *)
Joined(parts) ==
  CASE Len(parts) = 0 -> <<>>
    [] Len(parts) = 1 -> parts[1]
    [] Len(parts) = 2 -> parts[1] \o parts[2]

WrongAt(m, args) == {i \in DOMAIN Operands(m) : OperandError(Operands(m)[i], args[i]) # "none"}

Right(m, args) == Len(args) = Len(Operands(m)) /\ WrongAt(m, args) = {}

(* What emit finds wrong first, and what it pushes.                        *)
EmitError(m, args) ==
  IF Len(args) # Len(Operands(m)) THEN "BadArity"
  ELSE LET first == Min(WrongAt(m, args)) IN OperandError(Operands(m)[first], args[first])

Fields(m, args) ==
  LET fields == Joined([i \in DOMAIN Operands(m) |-> Field(Operands(m)[i], args[i])]) \o <<0, 0>>
  IN  <<m, fields[1], fields[2]>>

Symbols(m, args) == Joined([i \in DOMAIN Operands(m) |-> Symbol(Operands(m)[i], args[i])])

Emitted(m, args) ==
  LET symbols == Symbols(m, args)
  IN  <<Fields(m, args)>> \o [i \in DOMAIN symbols |-> Resolved(symbols[i])]

-----------------------------------------------------------------------------
Init ==
  /\ src \in Texts
  /\ pass = 1 /\ line = 0
  /\ atoms = <<>> /\ labels = <<>> /\ addr = 0
  /\ cells = <<>>
  /\ result = <<"running">>

(* A pass reads the next line, of a kind.                                  *)
AtLine(p, kind) ==
  /\ result = <<"running">> /\ pass = p
  /\ line < Len(src) /\ src[line + 1].kind = kind

Cur      == src[line + 1]
NextLine == line' = line + 1 /\ UNCHANGED <<src, pass, result>>

Refuse(e) ==
  /\ result' = <<e, line + 1>>
  /\ UNCHANGED <<src, pass, line, atoms, labels, addr, cells>>

(* Pass 1.                                                                 *)
Blank ==
  /\ AtLine(1, "blank")
  /\ NextLine /\ UNCHANGED <<atoms, labels, addr, cells>>

BadDirective ==
  \/ AtLine(1, "dir") /\ (Len(Cur.words) # 2 \/ Cur.words[1][1] # "num") /\ Refuse("BadDirective")
  \/ AtLine(1, "label") /\ Cur.name[1] \notin {"word", "reg"} /\ Refuse("BadDirective")

(* AtomTab::insert, LblTab::insert.                                        *)
Directive == AtLine(1, "dir") /\ Len(Cur.words) = 2 /\ Cur.words[1][1] = "num"
Label     == AtLine(1, "label") /\ Cur.name[1] \in {"word", "reg"}

DeclareAtom ==
  /\ Directive
  /\ Cur.words[2] \notin TooLong /\ Len(atoms) < AsmMaxAtoms
  /\ atoms' = Append(atoms, <<Cur.words[2], Cur.words[1][2]>>)
  /\ NextLine /\ UNCHANGED <<labels, addr, cells>>

BindLabel ==
  /\ Label
  /\ Cur.name \notin TooLong /\ Len(labels) < AsmMaxLabels
  /\ labels' = Append(labels, <<Cur.name, addr>>)
  /\ NextLine /\ UNCHANGED <<atoms, addr, cells>>

NameTooLong ==
  /\ (Directive /\ Cur.words[2] \in TooLong) \/ (Label /\ Cur.name \in TooLong)
  /\ Refuse("NameTooLong")

TableFull ==
  \/ Directive /\ Cur.words[2] \notin TooLong /\ Len(atoms) = AsmMaxAtoms /\ Refuse("AtomOverflow")
  \/ Label /\ Cur.name \notin TooLong /\ Len(labels) = AsmMaxLabels /\ Refuse("LabelOverflow")

Measure ==
  /\ AtLine(1, "instr") /\ Cur.mnem \in Mnemonics
  /\ addr' = addr + WidthOf(Cur.mnem)
  /\ NextLine /\ UNCHANGED <<atoms, labels, cells>>

UnknownOpcode == AtLine(1, "instr") /\ Cur.mnem \notin Mnemonics /\ Refuse("UnknownOpcode")

EndPass1 ==
  /\ result = <<"running">> /\ pass = 1 /\ line = Len(src)
  /\ pass' = 2 /\ line' = 0
  /\ UNCHANGED <<src, atoms, labels, addr, cells, result>>

(* Pass 2.  The lines were classified before; they are the same.           *)
PassOver ==
  /\ \E kind \in {"blank", "dir", "label"} : AtLine(2, kind)
  /\ NextLine /\ UNCHANGED <<atoms, labels, addr, cells>>

Args == SplitArgs(Cur.ops)

BadLine ==
  /\ AtLine(2, "instr") /\ ~Right(Cur.mnem, Args)
  /\ Refuse(EmitError(Cur.mnem, Args))

Emit ==
  /\ AtLine(2, "instr") /\ Right(Cur.mnem, Args)
  /\ cells' = cells \o Emitted(Cur.mnem, Args)
  /\ Len(cells') <= MaxCells
  /\ NextLine /\ UNCHANGED <<atoms, labels, addr>>

CellOverflow ==
  /\ AtLine(2, "instr") /\ Right(Cur.mnem, Args)
  /\ Len(cells \o Emitted(Cur.mnem, Args)) > MaxCells
  /\ Refuse("CellOverflow")

Finish ==
  /\ result = <<"running">> /\ pass = 2 /\ line = Len(src)
  /\ result' = <<"ok">>
  /\ UNCHANGED <<src, pass, line, atoms, labels, addr, cells>>

Ended == result # <<"running">> /\ UNCHANGED vars

Pass1 == \/ Blank \/ BadDirective \/ DeclareAtom \/ BindLabel \/ NameTooLong \/ TableFull
         \/ Measure \/ UnknownOpcode \/ EndPass1
Pass2 == PassOver \/ BadLine \/ Emit \/ CellOverflow \/ Finish
Next  == Pass1 \/ Pass2 \/ Ended
Spec  == Init /\ [][Next]_vars
-----------------------------------------------------------------------------
TypeOK ==
  /\ pass \in {1, 2} /\ line \in 0 .. Len(src)
  /\ Len(atoms) <= AsmMaxAtoms /\ Len(labels) <= AsmMaxLabels /\ Len(cells) <= MaxCells
  /\ \A i \in DOMAIN labels : labels[i][2] \in 0 .. addr
  /\ \A i \in DOMAIN cells : cells[i][1] = "INT" => cells[i][2] \in -2^20 .. 2^20 - 1

(***************************************************************************)
(* The passes agree.  They learn the size of an instruction from different *)
(* tables (is_two_cell; shape_of and what each emit_ function pushes): the *)
(* address that pass 1 gives the line it is at is where pass 2 puts it, so *)
(* a jump lands on the instruction behind its label.                       *)
(***************************************************************************)
LabelsBefore(n) == Cardinality({i \in 1 .. n : src[i].kind = "label"})

JumpsLand ==
  /\ pass = 2 /\ line < Len(src) /\ src[line + 1].kind = "label" =>
       labels[LabelsBefore(line + 1)][2] = Len(cells)
  /\ pass = 2 /\ line = Len(src) => addr = Len(cells)

(***************************************************************************)
(* What is assembled decodes.  The machine knows no lines: it takes a cell *)
(* for an instruction because its pc came there, steps over as many cells  *)
(* as the opcode has in the machine's own table, and jumps to an address.  *)
(* It comes to instructions only: every cell is one or the immediate of    *)
(* the one before it, of the kind that one reads, and a jump goes to an    *)
(* instruction or to the end of the code.                                  *)
(***************************************************************************)
Takes(m) ==
  CASE m \in {"CALL", "EXECUTE", "TRY", "RETRY"}           -> {"LABEL"}
    [] m = "GET_STRUCT"                                    -> {"ATOM"}
    [] m \in {"PUT_CONST", "GET_CONST", "UNIFY_CONST"}     -> {"INT", "ATOM"}
    [] OTHER                                               -> {}

Instruction(n) == n \in DOMAIN cells /\ cells[n][1] \in Mnemonics
WithImm(n)     == Instruction(n) /\ Takes(cells[n][1]) # {}

CodeDecodes ==
  result = <<"ok">> =>
    \A n \in DOMAIN cells :
      /\ WithImm(n) => n < Len(cells) /\ cells[n + 1][1] \in Takes(cells[n][1])
      /\ ~Instruction(n) => WithImm(n - 1)
      /\ cells[n][1] = "LABEL" => Instruction(cells[n][2] + 1) \/ cells[n][2] = Len(cells)

(***************************************************************************)
(* The machine takes what is assembled, by its own tables: its words are   *)
(* such as LamVM assumes of a program, there is no opcode it does not      *)
(* support, and no register it does not have (dispatch.rs:95, 497).        *)
(***************************************************************************)
Ids ==
  {l.words[1][2] :
     l \in {k \in Lines : k.kind = "dir" /\ Len(k.words) = 2 /\ k.words[1][1] = "num"}}

Machine == INSTANCE Code WITH Atoms <- Ids

(* As the machine counts addresses.                                        *)
Word(n) == IF cells[n][1] = "LABEL" THEN Machine!Addr(cells[n][2] + 1) ELSE cells[n]
Words   == [n \in DOMAIN cells |-> Word(n)]

LoadsIntoMachine ==
  result = <<"ok">> =>
    /\ Machine!WellFormed(Words)
    /\ \A n \in DOMAIN cells : Instruction(n) =>
         /\ Word(n)[1] \in Machine!Opcodes
         /\ Word(n)[1] \in Machine!Op1IsReg => Word(n)[2] \in Machine!Reg
         /\ Word(n)[1] \in Machine!Op2IsReg => Word(n)[3] \in Machine!Reg

-----------------------------------------------------------------------------
(* A line as Asm takes it, and when it is one.                             *)
AsmLine(l) ==
  CASE l.kind = "blank" -> <<"BLANK">>
    [] l.kind = "dir"   -> <<"ATOMDIR", l.words[2]>>
    [] l.kind = "label" -> <<"DEF", l.name>>
    [] l.kind = "instr" -> Fields(l.mnem, SplitArgs(l.ops)) \o Symbols(l.mnem, SplitArgs(l.ops))

IsLine(l) ==
  CASE l.kind = "blank" -> TRUE
    [] l.kind = "dir"   -> Len(l.words) = 2 /\ l.words[1][1] = "num" /\ l.words[2] \notin TooLong
    [] l.kind = "label" -> l.name[1] \in {"word", "reg"} /\ l.name \notin TooLong
    [] l.kind = "instr" ->
         LET args == SplitArgs(l.ops)
         IN  /\ l.mnem \in Mnemonics /\ Len(args) = Len(Operands(l.mnem))
             /\ \A i \in DOMAIN args : OperandError(Operands(l.mnem)[i], args[i]) # "BadOperand"

AsmSource == [i \in DOMAIN src |-> AsmLine(src[i])]

(* A cell of Asm, with the id of an atom, and the address from 0.          *)
Stored(cell) ==
  CASE cell[1] = "ATOM"  -> <<"ATOM", Entry(atoms, cell[2])>>
    [] cell[1] = "LABEL" -> <<"LABEL", cell[2] - 1>>
    [] OTHER             -> cell

(***************************************************************************)
(* Read line by line, with tables that grow and checks in an order, a text *)
(* assembles to what Asm makes of it as a whole and is refused for the     *)
(* reason for which Asm refuses it: an error of pass 1 anywhere comes      *)
(* before one of pass 2, a jump forward finds its label, and of two equal  *)
(* names the first decides.  A text with a line that is none is refused.   *)
(***************************************************************************)
ImplementsAsm ==
  result # <<"running">> =>
    IF \A i \in DOMAIN src : IsLine(src[i])
      THEN LET image == Assemble(AsmSource)
           IN  IF result = <<"ok">>
                 THEN image = [err |-> "none", cells |-> image.cells]
                      /\ cells = [i \in DOMAIN image.cells |-> Stored(image.cells[i])]
                 ELSE image.err = result[1]
      ELSE result # <<"ok">>
=============================================================================
