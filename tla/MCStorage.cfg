SPECIFICATION Spec
CONSTANTS
    Junk = Junk
    HeaderSize = 2
    FramesPerChunk = 2
    MaxLength = 6
    Files <- MCFiles
    Bitrates <- MCBitrates
    SampleRates <- MCSampleRates
INVARIANT ChunksAreFrames
