SPECIFICATION FairSpec
CONSTANTS
    Backups = {b1, b2}
    Existing = {b1}
    JobsClean = TRUE
    MayBeCold = FALSE
    MaxWrites = 2
    MaxFaults = 1
    MAX_REFRESH_READS = 1
    MaxDrops = 0
    LateCalls = {}
PROPERTY Converges
