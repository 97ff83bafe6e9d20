CONSTANTS
  Programs <- MCPrograms
  Atoms = {"a", "f"}
  TickLimit = 40
SPECIFICATION Spec
INVARIANTS TypeOK TrailSound MarksNested FramesExist
PROPERTIES ImplementsSnapshots FramesSurvive Terminates
