------------------------------- MODULE MCHops -------------------------------
(* Rule chaining with permanent variables, three hops deep.                *)
EXTENDS Prologc

Ex == INSTANCE Examples

MCSources  == [hops |-> Ex!Hops]
MCPrograms == Image
MCAtoms    == UNION {Compiler!AtomTable(MCSources[n]) : n \in DOMAIN MCSources}
=============================================================================
