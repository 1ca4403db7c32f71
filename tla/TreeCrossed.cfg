\* A manual compaction of a level with a gap between its files, and a flush into the
\* gap of the level below while it runs.
SPECIFICATION TreeSpec
CONSTANTS
    Keys = {1, 2, 3}
    NumLevels = 3
    MaxMemCompactLevel = 1
    L0Trigger = 2
    MaxBytes = 2
    MaxFileSize = 2
    MaxGrandparent = 1
    MaxExpanded = 4
    Types = {"val"}
    WriteBuffer = 0
    L0Stop = 3
    MaxSeq = 6
    MaxSnapshots = 0
    MaxFiles = 9
    MaxCalls = 1
    Ranges = {{1, 3}}
INVARIANT LevelsDisjoint
CHECK_DEADLOCK FALSE
