SPECIFICATION ServerSpec
CONSTANTS
  c1 = c1
  c2 = c2
  query = query
  NoConn = NoConn
  Conns <- TwoConns
  Contents <- OneContent
  Endings <- AllEndings
  MaxBatches = 1
  MaxStops = 2
  Resets = TRUE
INVARIANT ServerTypeOK
INVARIANT SessionsDoNotOverlap
PROPERTY SlotIsFreed
CHECK_DEADLOCK FALSE
