SPECIFICATION Spec
CONSTANTS
    Tracks = {t1, t2}
    NoTrack = NoTrack
    TotalChunks = 2
CHECK_DEADLOCK FALSE
INVARIANT BufferHoldsThisTrack
