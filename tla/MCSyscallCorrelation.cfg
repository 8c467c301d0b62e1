\* A pending map and a ring buffer of one place, two threads.
CONSTANTS
  t1 = t1
  t2 = t2
  Threads = {t1, t2}
  MaxPending = 1
  RingSize = 1
  MinBytes = 1
  MaxReturn = 1
  MaxCalls = 5
SPECIFICATION Spec
SYMMETRY ThreadSymmetry
INVARIANTS CapturedAccounted WatchedIsOwn FinalStatsComplete
CHECK_DEADLOCK FALSE
