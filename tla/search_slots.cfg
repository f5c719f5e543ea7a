CONSTANTS
    Targets = {t1, t2, t3}
    Peers = {p1}
    Dist <- OnePeerDist
    SearchNodes = 1
    K = 1
    Burst = 1
    MaxSearches = 2
    Tids = 3
    StepWait = 0
    RequestWait = 0
    Jitter = 1
    ReplyAge = 0
    ExpireAge = 1
    MaxAge = 2
    MaxCalls = 3
    MaxReplies = 1
    AllocOutcomes = {TRUE}
SPECIFICATION Spec
INVARIANTS
    TypeOK
    OneSearchPerTarget
    TimerArmed
    CompletionToldOnce
    RepliesReachTheirSearch
PROPERTIES
    UnfinishedKept
SYMMETRY TargetSymmetry
