SPECIFICATION Spec
CONSTANTS
    Backups = {b1}
    Existing = {}
    JobsClean = FALSE
    MayBeCold = TRUE
    MaxWrites = 2
    MaxFaults = 0
    MAX_REFRESH_READS = 2
    MaxDrops = 1
    LateCalls = {}
INVARIANT TypeOK
INVARIANT Mirror
INVARIANT ReadYourDeletion
INVARIANT Populated
INVARIANT RemovedStaysRemoved
CHECK_DEADLOCK FALSE
