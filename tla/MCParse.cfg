CONSTANTS
  Streams <- MCStreams
  MaxAtoms = 3
  MaxClauseVars = 1
  MaxSubterms = 4
  MaxBody = 2
  MaxClauses = 2
  MaxArgs = 2
SPECIFICATION Spec
INVARIANTS TypeOK ReadsTheGrammar InternsWhatIsUsed
