-------------------------------- MODULE Emit --------------------------------
(***************************************************************************)
(* emit.rs: the assembler line of an instruction, split into fields as     *)
(* Asm.tla describes them.  The text itself, its indentation and its blank *)
(* lines are left out; what the operands mean to parse_reg is not.         *)
(***************************************************************************)
EXTENDS Integers, Sequences

A(i) == i
X(i) == 8 + i
Y(i) == i

Plain ==     \* instructions without operands
  [Deallocate |-> "DEALLOCATE", Proceed |-> "PROCEED", Trust |-> "TRUST",
   Cut |-> "CUT", Fail |-> "FAIL", BNl |-> "B_NL", BIsAdd |-> "B_IS_ADD",
   BIsSub |-> "B_IS_SUB", BLt |-> "B_LT", BGt |-> "B_GT", Halt |-> "HALT"]

Jump == [Call |-> "CALL", Execute |-> "EXECUTE", Try |-> "TRY", Retry |-> "RETRY"]

(* The instruction carries A first, the line X or Y first.                 *)
MoveX == [PutVar |-> "PUT_VAR", PutVal |-> "PUT_VAL", GetVar |-> "GET_VAR",
          GetVal |-> "GET_VAL"]
MoveY == [PutYVal |-> "PUT_Y_VAL", GetYVar |-> "GET_Y_VAR"]

EmitOne(i) ==
  CASE i[1] = "AtomDir"        -> <<"ATOMDIR", i[2]>>
    [] i[1] = "Label"          -> <<"DEF", i[2]>>
    [] i[1] \in DOMAIN Plain   -> <<Plain[i[1]], 0, 0>>
    [] i[1] \in DOMAIN Jump    -> <<Jump[i[1]], 0, 0, <<"LABEL", i[2]>>>>
    [] i[1] \in DOMAIN MoveX   -> <<MoveX[i[1]], X(i[3]), A(i[2])>>
    [] i[1] \in DOMAIN MoveY   -> <<MoveY[i[1]], Y(i[3]), A(i[2])>>
    [] i[1] = "PutConst"       -> <<"PUT_CONST", A(i[2]), 0, <<"ATOM", i[3]>>>>
    [] i[1] = "PutInt"         -> <<"PUT_CONST", A(i[2]), 0, <<"INT", i[3]>>>>
    [] i[1] = "GetConst"       -> <<"GET_CONST", A(i[2]), 0, <<"ATOM", i[3]>>>>
    [] i[1] = "GetInt"         -> <<"GET_CONST", A(i[2]), 0, <<"INT", i[3]>>>>
    [] i[1] = "GetStruct"      -> <<"GET_STRUCT", A(i[2]), i[4], <<"ATOM", i[3]>>>>
    [] i[1] = "UnifyVar"       -> <<"UNIFY_VAR", X(i[2]), 0>>
    [] i[1] = "UnifyVal"       -> <<"UNIFY_VAL", X(i[2]), 0>>
    [] i[1] = "UnifyConst"     -> <<"UNIFY_CONST", 0, 0, <<"ATOM", i[2]>>>>
    [] i[1] = "Allocate"       -> <<"ALLOCATE", i[2], 0>>
    [] i[1] = "BWrite"         -> <<"B_WRITE", A(i[2]), 0>>

EmitAll(instrs) == [n \in DOMAIN instrs |-> EmitOne(instrs[n])]
=============================================================================
