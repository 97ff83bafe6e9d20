---------------------------- MODULE MCNegateFree ----------------------------
(* Negation of a single-clause predicate whose variable is used after it.  *)
EXTENDS Prologc

Ex == INSTANCE Examples

MCSources  == [negate_free |-> Ex!NegateFree]
MCPrograms == Image
MCAtoms    == UNION {Compiler!AtomTable(MCSources[n]) : n \in DOMAIN MCSources}
=============================================================================
