\* The skip list, the arena, the table cache and the environment, side by side.
SPECIFICATION SharedSpec
CONSTANTS
    Users = {1, 2}
    MaxHeight = 2
    MaxEntries = 3
    BlockSize = 8
    Align = 2
    Requests = {1, 2, 3, 5}
    MaxRequests = 4
    Threads = {t1, t2}
    Files = {1, 2, 3}
    HashOf <- MCHash
    Capacity = 2
    MaxMaps = 2
    FirstLength = 1
    MaxHandles = 4
    Processes = {p, q}
    Openers = {o1, o2}
    MaxItems = 3
    MaxOpens = 4
INVARIANTS
    ReadsAreExact
    AllocationsAreApart
    TableCacheIsSound
    LockExcludes
PROPERTIES
    WorkIsDone
CHECK_DEADLOCK FALSE
