CONSTANTS
    Hash = {h1, h2}
    Peer = {p1, p2, p3}
    MaxHashes = 1
    MaxPeers = 2
    PeerAge = 1
    RotateWait = 2
    RotateSpan = 1
    ExpireWait = 1
    ExpireSpan = 1
    MaxTime = 4
    MaxDraws = 3
SPECIFICATION Spec
SYMMETRY Interchangeable
INVARIANTS
    TypeOK
    StorageConsistent
    TokenWindow
    InitLosesNothing
    PeersLeaveInTime
PROPERTIES
    PeersExpireExactly
