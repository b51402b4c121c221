SPECIFICATION FairSpec
CONSTANTS
    Self = self
    Peers = {p1, p2}
    Addrs = {a1, a2}
    Loopback = lo
    Version = 1
    OtherVersion = 2
    NoCode = NoCode
INVARIANT JoinAnswerTrue
PROPERTY DiscoveryReconnects
