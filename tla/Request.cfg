SPECIFICATION MCSpec
CONSTANTS
    Callers = {r1, r2}
    Threshold = 1
    Lifetime = 2
    HasDb = TRUE
    MaxTime = 3
    MaxTokens = 2
    Lines <- MCLines
    MaxLines = 3
    Consumers = {"direct", "responses", "json"}
    MaxI32 = 3
    None = None
    Parts = {"auth", "usage"}
CHECK_DEADLOCK FALSE
INVARIANTS
    TypeOK
    OneRefreshAtATime
    ExpiryNeverOverstates
    ServedTokenWasLive
    TopLevelRecorded
PROPERTIES
    TokenNeverGoesBack
    EveryCallReturns
    EndedIsRecorded
