SPECIFICATION Spec
CONSTANTS
    NDisks = 2
    Formats = {"directory", "file"}
    FaultPoints = {"state", "unlink", "link", "update"}
    MaxFaults = 1
    DeleteAnytime = FALSE
INVARIANT NoBackupLost
