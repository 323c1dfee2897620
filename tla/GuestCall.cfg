SPECIFICATION Spec
CONSTANTS
  Threads = {t1, t2}
  Dbs = {d1, d2}
  MaxDepth = 2
  MaxFrames = 3
INVARIANT TypeOK
INVARIANT JumpsLand
INVARIANT DepthCountsFrames
INVARIANT HandlerWindow
CHECK_DEADLOCK FALSE
