-------------------------------- MODULE Code --------------------------------
(***************************************************************************)
(* The code of the machine: its opcodes with their operands, and what the  *)
(* machine takes for granted of a program.                                 *)
(*                                                                         *)
(* The code of a program is a sequence of words.  An instruction word is   *)
(* <<mnemonic, op1, op2>>; the immediate of a two-cell instruction is the  *)
(* next word: a constant cell, or Addr(n) for the address of a label.      *)
(* Program and heap addresses count from 1, registers and Y slots from 0.  *)
(***************************************************************************)
EXTENDS Heap

Reg  == 0 .. 15
AReg == 0 .. 7
Addr(n) == <<"LABEL", n>>

TwoCell == {"CALL", "EXECUTE", "TRY", "RETRY", "PUT_CONST", "GET_CONST",
            "GET_STRUCT", "UNIFY_CONST"}
Op1IsReg == {"PUT_VAR", "PUT_VAL", "PUT_CONST", "GET_VAR", "GET_VAL",
             "GET_CONST", "GET_STRUCT", "UNIFY_VAR", "UNIFY_VAL", "B_WRITE"}
Op2IsReg == {"PUT_VAR", "PUT_VAL", "GET_VAR", "GET_VAL", "PUT_Y_VAL",
             "GET_Y_VAR"}
OneCell == {"NOP", "HALT", "PROCEED", "FAIL", "TRUST", "CUT", "PUT_VAR",
            "PUT_VAL", "PUT_Y_VAL", "GET_VAR", "GET_VAL", "GET_Y_VAR",
            "UNIFY_VAR", "UNIFY_VAL", "ALLOCATE", "DEALLOCATE", "B_WRITE",
            "B_NL", "B_IS_ADD", "B_IS_SUB", "B_LT", "B_GT"}
Opcodes == TwoCell \cup OneCell

(* STORE stands for all that is no opcode of the machine.                  *)
Mnemonic == Opcodes \cup {"STORE"}

(***************************************************************************)
(* What the assembler guarantees of a program, and nothing more: operands  *)
(* are numbers, and an immediate is of the kind its opcode reads.          *)
(***************************************************************************)
Address  == {"LABEL"} \X Nat
Constant == ({"INT"} \X (IntMin .. IntMax)) \cup ({"ATOM"} \X Atoms)
CodeWord == (Mnemonic \X Nat \X Nat) \cup Cell \cup Address

ImmKind(op) ==
  CASE op \in {"CALL", "EXECUTE", "TRY", "RETRY"}          -> Address
    [] op = "GET_STRUCT"                                   -> {"ATOM"} \X Atoms
    [] op \in {"PUT_CONST", "GET_CONST", "UNIFY_CONST"}    -> Constant

WellFormed(words) ==
  /\ words \in Seq(CodeWord)
  /\ \A i \in 1 .. Len(words) : words[i][1] \in TwoCell /\ i < Len(words) =>
       /\ words[i] \in Mnemonic \X Nat \X Nat
       /\ words[i + 1] \in ImmKind(words[i][1])
=============================================================================
