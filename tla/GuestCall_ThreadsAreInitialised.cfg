SPECIFICATION Spec
CONSTANTS
  Threads = {t1, t2}
  Dbs = {d1, d2}
  MaxDepth = 2
  MaxFrames = 3
INVARIANT ThreadsAreInitialised
CHECK_DEADLOCK FALSE
