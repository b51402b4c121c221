SPECIFICATION FairSpec
CONSTANTS
    Peers = {p1}
    Clients = {c1, c2}
    Streams = {s1, s2, s3}
    NoStream = NoStream
    MaxStreamsPerPeer = 1
    Chunks = {1, 2}
    Parts = 2
INVARIANTS
    TypeOK
    ExclusiveStreams
    OpenMeansOwned
    ActiveExact
    ReplyAnswersRequest
PROPERTIES
    ImplementsChunkFetch
    NoStreamIdlesForever
    EveryFetchEnds
