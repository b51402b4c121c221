SPECIFICATION FairSpec
CONSTANTS
    TotalChunks = 5
    PartsPerChunk = 2
    MaxBufferChunks = 2
    GateChunks = 2
CHECK_DEADLOCK FALSE
INVARIANTS
    TypeOK
    BufferIsARun
    SleepsForAReason
PROPERTIES
    ServesTheTrack
    EventuallyEnds
