SPECIFICATION Spec
CONSTANTS
    Requests = {r1, r2}
    Buffer = 1
    CacheTtl = 1
    Lifetimes = {1, 3}
    MaxFill = 1
    MaxTime = 2
    MaxTokens = 2
    None = None
INVARIANTS
    OneRefreshAtATime
    RotationStored
    CacheStalenessBounded
PROPERTIES
    OnlyProviderBlocks
