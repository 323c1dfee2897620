SPECIFICATION Spec
CONSTANTS
  t1 = t1
  t2 = t2
  s1 = s1
  c1 = c1
  c2 = c2
  NoConn = NoConn
  Tasks <- TwoTasks
  Singles <- Nobody
  Conns <- Nobody
  MaxWrites = 1
  Catches = FALSE
  Deaths = FALSE
  MaxBatches = 0
  MaxStops = 0
  Resets = FALSE
PROPERTY ReturnedIsCommitted
CHECK_DEADLOCK FALSE
