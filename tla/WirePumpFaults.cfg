SPECIFICATION Spec
CONSTANTS
  IdleLimit = 2
  MaxSilent = 1
  MaxBody = 1
  MaxCalls = 3
  Faults <- EveryFault
PROPERTY ExchangeReturns
PROPERTY OpenAndCloseReturn
CHECK_DEADLOCK FALSE
