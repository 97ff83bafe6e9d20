----------------------------- MODULE MCArities -----------------------------
(* Two predicates that share a name.                                       *)
EXTENDS Prologc

Ex == INSTANCE Examples

MCSources  == [arities |-> Ex!Arities]
MCPrograms == Image
MCAtoms    == UNION {Compiler!AtomTable(MCSources[n]) : n \in DOMAIN MCSources}
=============================================================================
