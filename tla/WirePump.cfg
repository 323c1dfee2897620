SPECIFICATION Spec
CONSTANTS
  IdleLimit = 10
  MaxSilent = 9
  MaxBody = 2
  MaxCalls = 5
  Faults <- SafeFaults
INVARIANT TypeOK
INVARIANT ReplyExact
INVARIANT NothingInFlight
PROPERTY TrappedIsLeftAlone
PROPERTY ServiceSpec
CHECK_DEADLOCK FALSE
