SPECIFICATION Spec
CONSTANTS
    Size = 3
    DiskBlockSize = 2
    Holes = {0}
    Values = {"zero", "src", "new"}
    Zero = "zero"
    Payloads = {"new"}
    Source <- MCSource
    Requests = {r1, r2}
    Spans <- MCSpans
    HydrateConcurrency = 1
INVARIANT TypeOK
INVARIANT WaitersServed
INVARIANT HydratedMeansCached
PROPERTY ImplementsBlockDevice
CHECK_DEADLOCK FALSE
PROPERTY Answered
