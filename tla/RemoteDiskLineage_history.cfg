SPECIFICATION Spec
CONSTANTS
    NDisks = 4
    Formats = {"directory", "file"}
    FaultPoints = {"scan", "merge", "blocks", "uuid", "drop", "collect", "archives", "transfer", "alias"}
    MaxFaults = 2
    DeleteAnytime = TRUE
INVARIANT TypeOK
INVARIANT NoBackupLost
INVARIANT Restorable
INVARIANT OneMergeInterrupted
INVARIANT LinearChain
INVARIANT ChainedOnUsable
