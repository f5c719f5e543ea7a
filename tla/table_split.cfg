CONSTANTS
    IdBits = 3
    Weight <- MCWeight
    MyId = 2
    Peers = {0, 1, 2, 3, 6, 7}
    Addr = {a1, m1}
    Martians = {m1}
    NoAddr = NoAddr
    NoCall = NoCall
    K = 1
    PingWait = 0
    GrowAge = 0
    StaleAge = 0
    ActiveAge = 0
    ReplyAge = 0
    StartTime = 1
    MaxTime = 1
    AllocOutcomes = {TRUE, FALSE}
SPECIFICATION Spec
INVARIANTS
    BucketsTile
    FullOwnBucketSplits
    BucketsFollowMyId
    RandomIdsCoverBucket
