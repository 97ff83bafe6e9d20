CONSTANTS
  Atoms = {"a"}
  MaxHeap = 3
  MaxChoice = 2
SPECIFICATION MCSpec
INVARIANTS TypeOK TrailSound MarksNested
PROPERTY ImplementsSnapshots
CHECK_DEADLOCK FALSE
