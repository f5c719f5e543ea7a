CONSTANTS
    MaxTokens = 2
    Rate = 1
    StartTime = 0
    MaxTime = 2
    MaxAccepted = 6
    Family = 6
    Addr = {a1, a2, a3, m1}
    Martians = {m1}
    NoAddr = NoAddr
    Slots = 2
    MaxInbox = 1
SPECIFICATION Spec
INVARIANTS
    TypeOK
    BlacklistDistinct
    RateHolds
PROPERTIES
    RefusedOnlyAfterRefill
