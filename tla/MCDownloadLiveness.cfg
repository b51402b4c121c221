SPECIFICATION PlaySpec
CONSTANTS
    TotalChunks = 3
    PartsPerChunk = 1
    MaxBufferChunks = 2
    GateChunks = 1
    InitialMaxInflight = 1
    MinMaxInflight = 1
    MaxMaxInflight = 1
    CongestionWindow = 1
    FailuresToHalve = 1
    Peers = {p1, p2}
    Window = 2
    CriticalEnd = 1
    Fetchers = {f1}
    NoPeer = NoPeer
CHECK_DEADLOCK FALSE
PROPERTY EventuallyPlayed
