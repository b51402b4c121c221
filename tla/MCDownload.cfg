SPECIFICATION Spec
CONSTANTS
    TotalChunks = 3
    PartsPerChunk = 2
    MaxBufferChunks = 2
    GateChunks = 1
    InitialMaxInflight = 1
    MinMaxInflight = 1
    MaxMaxInflight = 1
    CongestionWindow = 1
    FailuresToHalve = 1
    Peers = {p1}
    Window = 2
    CriticalEnd = 1
    Fetchers = {f1, f2}
    NoPeer = NoPeer
CHECK_DEADLOCK FALSE
SYMMETRY Symmetry
INVARIANTS
    TypeOK
    ReceivedExact
    NoLostChunk
    NeverTruncated
    InflightIsLive
    PositionBehindReader
    BufferBounded
    FullBufferIsReadable
    NoLostWakeup
PROPERTY ImplementsTrackReader
