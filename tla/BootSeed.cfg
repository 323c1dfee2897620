SPECIFICATION Spec
CONSTANTS
  RuntimeFiles = {postgres, share}
  DataFiles = {version, wal}
  Bundled = {TRUE, FALSE}
  None = None
INVARIANT BootsOnWholeSeed
CHECK_DEADLOCK FALSE
