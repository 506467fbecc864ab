SPECIFICATION Spec
CONSTANTS
    VMs = {a, b}
    MaxTasks = 2
    MaxPrefix = 2
    Retries = 2
    Concurrency = 2
    MaxDisturbances = 1
INVARIANT TypeOK
INVARIANT MergeAsked
INVARIANT Attended
PROPERTY TaskHandled
CHECK_DEADLOCK FALSE
