SPECIFICATION FairSpec
CONSTANTS
    TotalChunks = 2
    PartsPerChunk = 1
    MaxBufferChunks = 1
    GateChunks = 1
    InitialMaxInflight = 1
    MinMaxInflight = 1
    MaxMaxInflight = 1
    CongestionWindow = 1
    FailuresToHalve = 1
    Peers = {p1}
    Window = 1
    CriticalEnd = 1
    Fetchers = {f1}
    NoPeer = NoPeer
CHECK_DEADLOCK FALSE
PROPERTY CancelEndsLoop
