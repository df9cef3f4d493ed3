CONSTANTS
  Threads = {t1, t2}
  Keys = {1, 2, 3}
  Sizes = {0, 1, 2}
SPECIFICATION Spec
SYMMETRY Symmetry
INVARIANTS Consistent NobodySleepsOverEntry
PROPERTIES RoomIsAnnounced EvictsLeastRecentlyUsed
