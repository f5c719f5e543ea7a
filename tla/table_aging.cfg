CONSTANTS
    IdBits = 3
    Weight <- MCWeight
    MyId = 2
    Peers = {0, 3}
    Addr = {a1, m1}
    Martians = {m1}
    NoAddr = NoAddr
    NoCall = NoCall
    K = 1
    PingWait = 0
    GrowAge = 1
    StaleAge = 1
    ActiveAge = 1
    ReplyAge = 1
    StartTime = 2
    MaxTime = 4
    AllocOutcomes = {TRUE}
SPECIFICATION FairSpec
INVARIANTS
    TypeOK
    CandidateOnlyWhenFull
    BucketTimeCoversReplies
PROPERTIES
    ImplementsContactBook
    CallReturns
