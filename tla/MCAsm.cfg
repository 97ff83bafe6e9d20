CONSTANTS
  Lines <- MCLines
  Texts <- MCTexts
  TooLong <- MCTooLong
  AsmMaxAtoms = 2
  AsmMaxLabels = 2
  MaxCells = 5
SPECIFICATION Spec
INVARIANTS TypeOK JumpsLand CodeDecodes LoadsIntoMachine ImplementsAsm
