CONSTANTS
  Setups <- MCControl
  Longest = 7
SPECIFICATION FairSpec
CHECK_DEADLOCK FALSE
INVARIANTS DeadMeansNoThread
PROPERTIES FetchReturns CallsReturn
