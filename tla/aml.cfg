SPECIFICATION Spec
CONSTANTS
  Numerals <- MCNumerals
  Slots <- MCSlots
  Files <- MCFiles
  Sources = {}
  Host <- MCHost
  Lines <- MCLines
  WellFormed <- MCWellFormed
  Programs <- MCPrograms
  MaxLines = 3
CHECK_DEADLOCK FALSE
INVARIANTS ScopesMatchWords LineMeansItself
