\* Four writes to two keys, one snapshot and one manual compaction of one key,
\* in memtables of two and three levels of small files.
SPECIFICATION TreeSpec
CONSTANTS
    Keys = {1, 2}
    NumLevels = 3
    MaxMemCompactLevel = 1
    L0Trigger = 2
    MaxBytes = 2
    MaxFileSize = 2
    MaxGrandparent = 1
    MaxExpanded = 4
    Types = {"val", "del"}
    WriteBuffer = 1
    L0Stop = 3
    MaxSeq = 4
    MaxSnapshots = 1
    MaxFiles = 6
    MaxCalls = 1
    Ranges = {{1}}
INVARIANTS
    TreeTypeOK
    UncrossedLevelsDisjoint
    InputsStayCurrent
    UnsplitReadsSeeNewest
    NewerEntriesAbove
CHECK_DEADLOCK FALSE
