CONSTANTS
    Targets = {0}
    Peers = {1}
    Dist <- MCDist
    SearchNodes = 1
    K = 1
    Burst = 1
    MaxSearches = 1
    Tids = 1
    StepWait = 1
    RequestWait = 1
    Jitter = 0
    ReplyAge = 1
    ExpireAge = 2
    MaxAge = 3
    MaxCalls = 1
    MaxReplies = 1
    AllocOutcomes = {TRUE}
SPECIFICATION LoopSpec
PROPERTIES
    TimerServed
