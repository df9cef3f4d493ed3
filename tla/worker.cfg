CONSTANTS
  first = first
  second = second
  third = third
  NoJob = NoJob
  Jobs = {first, second}
  Reoccurring = {second}
  Endless = {first}
  Number <- MCNumber
  InitPrio <- MCPrio
SPECIFICATION FairSpec
CHECK_DEADLOCK FALSE
INVARIANTS Accounted CancelledOneShotIsOver WaitedJobsAreDone
PROPERTIES JobsRun CallsReturn
