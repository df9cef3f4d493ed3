CONSTANTS
  Setups <- MCSetups
  Longest = 7
SPECIFICATION Spec
CHECK_DEADLOCK FALSE
INVARIANTS WorkerNeverFails MainHasInputAlone SleepersAreAnswered
