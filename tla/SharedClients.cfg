SPECIFICATION Spec
CONSTANTS
  t1 = t1
  t2 = t2
  s1 = s1
  c1 = c1
  c2 = c2
  NoConn = NoConn
  Tasks <- Nobody
  Singles <- Nobody
  Conns <- TwoConns
  MaxWrites = 1
  Catches = FALSE
  Deaths = TRUE
  MaxBatches = 3
  MaxStops = 0
  Resets = TRUE
SYMMETRY ConnSymmetry
INVARIANT AbandonedIsGone
PROPERTY AloneIsAtomic
CHECK_DEADLOCK FALSE
