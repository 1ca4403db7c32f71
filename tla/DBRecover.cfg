\* A table cannot be written while the older of two logs is replayed.
SPECIFICATION FairDBSpec
CONSTANTS
    Writers = {w1, w2}
    Kinds = {"sync", "async", "null"}
    WriteBuffer = 0
    MaxGroup = 2
    CompactAt = 2
    StopAt = 3
    Paranoid = FALSE
    Faults = {"recover"}
    MaxOps = 3
    MaxFaults = 1
    MaxCrashes = 1
    MaxIters = 1
INVARIANT AckedWritesSurvive
CHECK_DEADLOCK FALSE
