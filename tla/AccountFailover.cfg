SPECIFICATION Spec
CONSTANTS
    own = own
    copilot = copilot
    pooled = pooled
    Requests = {r1, r2}
    Accounts <- MCAccounts
    Order <- MCOrder
    Kind <- MCKind
    Ranks = {0}
    MaxAttempts = 2
    Cooldowns = {1}
    Remaining = {1}
    MaxTime = 1
    MaxEdits = 1
    RoundRobin = 2
    None = None
SYMMETRY RequestSymmetry
PROPERTIES
    PicksBestAvailable
    UsesEnabledAccount
