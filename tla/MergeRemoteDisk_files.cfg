SPECIFICATION Spec
CONSTANTS
    NBlocks = 3
    NChildren = 2
    MaxAttempts = 2
    Concurrency = 2
    UseDirectory = FALSE
    RemoveUnused = FALSE
    MaxFaults = 2
INVARIANT RemovedOnlyWhenMerged
INVARIANT IndInv
CHECK_DEADLOCK FALSE
