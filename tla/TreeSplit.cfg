\* Automatic compactions only: one of them may cut its output inside a user key.
SPECIFICATION TreeSpec
CONSTANTS
    Keys = {1, 2}
    NumLevels = 3
    MaxMemCompactLevel = 1
    L0Trigger = 2
    MaxBytes = 2
    MaxFileSize = 2
    MaxGrandparent = 1
    MaxExpanded = 4
    Types = {"val", "del"}
    WriteBuffer = 0
    L0Stop = 3
    MaxSeq = 4
    MaxSnapshots = 1
    MaxFiles = 6
    MaxCalls = 1
    Ranges = {}
INVARIANT ReadsSeeNewest
CHECK_DEADLOCK FALSE
