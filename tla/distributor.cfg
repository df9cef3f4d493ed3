CONSTANTS
  Frames = 5
  Queue = 4
  Threads = {t1, t2}
  NoFrame = NoFrame
  Slow = FALSE
  Broken = {2}
SPECIFICATION FairSpec
INVARIANTS ScheduleIsTrue NoFrameTwice
PROPERTIES ClonesAreKept CallsReturn
