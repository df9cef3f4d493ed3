SPECIFICATION FairSpec
CONSTANTS
  u1 = u1
  Inputs <- MCInputs
  u2 = u2
  j1 = j1
  j2 = j2
  Jobs <- MCJobs
  Setups <- MCSetups
  Sizes = {1}
  AudioEvery = 2
  Torn = 25
CHECK_DEADLOCK FALSE
INVARIANTS IndexIsTrue FramesAreThere NeverShrinks ReadWhileHeld
PROPERTIES FollowsToTheEnd
