\* Files, streams and messages in small units: blocks of a few bytes, a radix of 8,
\* chunks of two; lengths are chosen around the boundaries of those.
SPECIFICATION FormatSpec
CONSTANTS
    BlockBytes = 7
    HeaderBytes = 3
    Lengths = {0, 2, 5}
    Offsets = {0, 5, 6}
    LogFaults = {"append", "crash", "flip", "read"}
    MaxRecords = 2
    Radix = 8
    Bytes32 = 2
    Bytes64 = 4
    SliceLengths = {0, 9}
    MaxUpdates = 3
    Numbers = {8, 300}
    EditLevels = {0, 1}
    EditKeys = {0, 8}
    MaxFields = 2
    Types <- MCTypes
    TopType = "outer"
    WordBits = 3
    MaxRequired = 6
    MaxSet = 2
    BufferSizes = {14, 60}
    Unknown <- MCUnknown
    ChunkSize = 2
    DataLengths = {0, 1, 2, 5}
    StreamLengths = {1, 2, 4, 5}
    MaxChange = 2
    Bytes = {0, 1, 2}
    RestartInterval = 2
    BlockSize = 20
    FilterBase = 16
    BitsPerKey = 10
    HashBits = 8
    UserKeys <- MCUserKeys
    MaxEntries = 3
    MaxTables = 2
    FileSize = 2
    MaxBad = 1
INVARIANTS
    FormatsTypeOK
    TablesAnswer
    LogReadsBack
    EncodingsReadBack
    MessagesSurvive
    CodecStaysInBounds
    DataComesBack
PROPERTIES
    IterIsCursor
    ReadersEnd
CHECK_DEADLOCK FALSE
