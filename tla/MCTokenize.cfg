CONSTANTS
  Sources <- MCSources
  MaxTokens = 4
  AtomCap = 2
  IntMax = 11
SPECIFICATION Spec
INVARIANTS TypeOK LongestLexemes
PROPERTIES Returns
