\* Raw streams of one and of several chunks.
SPECIFICATION ZlibSpec
CONSTANTS
    ChunkSize = 2
    DataLengths = {1, 5}
    StreamLengths = {1, 4}
    MaxChange = 1
INVARIANT RawDataComesBack
CHECK_DEADLOCK FALSE
