CONSTANTS
  Callers = {1, 2}
  ReadBlockRetries = 2
  ReconnectRetry = 2
  MaxFaults = 2
  PayloadFaults = TRUE
  LateClose = FALSE
SPECIFICATION Spec
INVARIANT NoOrphan
CHECK_DEADLOCK FALSE
