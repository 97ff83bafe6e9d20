---------------------------- MODULE MCCallFirst ----------------------------
(* A call before the last goal of a rule without permanent variables.      *)
EXTENDS Prologc

Ex == INSTANCE Examples

MCSources  == [call_first |-> Ex!CallFirst]
MCPrograms == Image
MCAtoms    == UNION {Compiler!AtomTable(MCSources[n]) : n \in DOMAIN MCSources}
=============================================================================
