CONSTANTS
    IdBits = 3
    Weight <- MCWeight
    MyId = 2
    Peers = {0, 1, 2, 3}
    Addr = {a1, m1}
    Martians = {m1}
    NoAddr = NoAddr
    NoCall = NoCall
    K = 2
    PingWait = 0
    GrowAge = 0
    StaleAge = 0
    ActiveAge = 0
    ReplyAge = 0
    StartTime = 1
    MaxTime = 2
    AllocOutcomes = {TRUE, FALSE}
SPECIFICATION Spec
INVARIANTS
    NodesWhereTheyBelong
    OneNodePerId
    CountExact
