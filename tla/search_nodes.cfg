CONSTANTS
    Targets = {0}
    Peers = {1, 2, 3}
    Dist <- MCDist
    SearchNodes = 2
    K = 1
    Burst = 1
    MaxSearches = 1
    Tids = 1
    StepWait = 1
    RequestWait = 1
    Jitter = 1
    ReplyAge = 1
    ExpireAge = 2
    MaxAge = 3
    MaxCalls = 2
    MaxReplies = 1
    AllocOutcomes = {TRUE}
SPECIFICATION FairSpec
INVARIANTS
    NodesSorted
PROPERTIES
    SearchEnds
