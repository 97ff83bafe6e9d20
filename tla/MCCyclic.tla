------------------------------ MODULE MCCyclic ------------------------------
(* Unification of two terms that contain themselves.                       *)
EXTENDS Prologc

Ex == INSTANCE Examples

MCSources  == [cyclic |-> Ex!Cyclic]
MCPrograms == Image
MCAtoms    == UNION {Compiler!AtomTable(MCSources[n]) : n \in DOMAIN MCSources}
=============================================================================
