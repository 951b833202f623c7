CONSTANT Sources <- AllSources
SPECIFICATION Spec
INVARIANTS OperandsFinal AcceptsOrdered RefusesMalformed LayoutDisjoint
