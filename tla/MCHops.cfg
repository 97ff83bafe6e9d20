CONSTANTS
  Sources <- MCSources
  Programs <- MCPrograms
  Atoms <- MCAtoms
  TickLimit = 2000
  MaxAtoms = 50
  MaxClauseVars = 16
  MaxSubterms = 64
  MaxBody = 16
  MaxClauses = 64
  MaxArgs = 8
  MaxInstr = 2048
  AsmMaxAtoms = 64
  AsmMaxLabels = 128
  MaxCells = 4096
  Fuel = 1000
SPECIFICATION Spec
INVARIANT OutputIsSLD
