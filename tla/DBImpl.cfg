\* Three writes of two threads, an I/O error, a crash or a close, and a crash
\* during the recovery; tables of one entry.  A table that cannot be written during
\* the recovery is one of the last log (DBRecover.cfg has the other case).
SPECIFICATION FairDBSpec
CONSTANTS
    Writers = {w1, w2}
    Kinds = {"sync", "async", "null"}
    WriteBuffer = 0
    MaxGroup = 2
    CompactAt = 2
    StopAt = 3
    Paranoid = FALSE
    Faults = {"create", "append", "sync", "table", "replay"}
    MaxOps = 3
    MaxFaults = 1
    MaxCrashes = 1
    MaxIters = 1
INVARIANTS
    DBTypeOK
    AckedWritesSurvive
    SequencesAreUnique
    LiveTablesAreWhole
    ReopenSucceeds
    OneLogger
PROPERTIES
    EveryoneIsAnswered
CHECK_DEADLOCK FALSE
