CONSTANTS
  Callers = {1, 2}
  ReadBlockRetries = 2
  ReconnectRetry = 2
  MaxFaults = 3
  PayloadFaults = FALSE
  LateClose = FALSE
SPECIFICATION FairSpec
INVARIANT TypeOK
INVARIANT RightData
INVARIANT OneReader
INVARIANT NoOrphan
INVARIANT NoLeak
PROPERTY StaleErrorsIgnored
PROPERTY Settles
CHECK_DEADLOCK FALSE
