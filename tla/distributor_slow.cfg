CONSTANTS
  Frames = 4
  Queue = 2
  Threads = {t1, t2}
  NoFrame = NoFrame
  Slow = TRUE
  Broken = {2}
SPECIFICATION Spec
INVARIANT GraphForEveryJob
