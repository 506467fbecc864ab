SPECIFICATION FairSpec
CONSTANTS
    NDisks = 3
    Formats = {"directory", "file"}
    FaultPoints = {"scan", "merge", "blocks", "uuid", "drop", "collect", "archives", "transfer", "alias", "delete", "lose"}
    MaxFaults = 2
    DeleteAnytime = TRUE
INVARIANT Restorable
PROPERTY Converges
