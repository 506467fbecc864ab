SPECIFICATION FairSpec
CONSTANTS
    NBlocks = 3
    NChildren = 1
    MaxAttempts = 2
    Concurrency = 2
    UseDirectory = TRUE
    RemoveUnused = TRUE
    MaxFaults = 1
INVARIANT ResumePointSound
INVARIANT NoBlockLost
INVARIANT RestoreSound
PROPERTY EventuallyMerged
CHECK_DEADLOCK FALSE
