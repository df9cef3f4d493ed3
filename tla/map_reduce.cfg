CONSTANTS
  Frames = 6
  Jumps = {1, 4}
  Workers = {w1, w2}
  NoFrame = NoFrame
  Broken = {0}
SPECIFICATION FairSpec
CHECK_DEADLOCK FALSE
INVARIANTS WindowIsKept DecodersAccounted
PROPERTIES PlannedFrameArrives
