SPECIFICATION Spec
CONSTANTS
  MaxFds = 5
  MaxHosts = 5
INVARIANT TypeOK
INVARIANT NothingDangles
INVARIANT NothingLeaks
PROPERTY AppKeepsItsFiles
CHECK_DEADLOCK FALSE
