SPECIFICATION Spec
CONSTANTS
  t1 = t1
  t2 = t2
  s1 = s1
  c1 = c1
  c2 = c2
  NoConn = NoConn
  Tasks <- OneTask
  Singles <- OneSingle
  Conns <- OneConn
  MaxWrites = 2
  Catches = FALSE
  Deaths = TRUE
  MaxBatches = 2
  MaxStops = 0
  Resets = TRUE
INVARIANT TypeOK
INVARIANT NoOrphanTransaction
PROPERTY AloneIsAtomic
CHECK_DEADLOCK FALSE
