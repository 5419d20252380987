SPECIFICATION Spec
CONSTANTS
    anthropic = anthropic
    openai = openai
    u1 = u1
    u2 = u2
    Users <- MCUsers
    PROXY_USER_ID = u1
    RelayProviders <- MCRelayProviders
    Posts = {c1, c2}
    RelayTtl = 1
    MaxPendingRelays = 1
    MaxRelays = 2
    MaxClock = 3
    RefreshBuffer = 1
    Lifetime = 1
    MaxIssues = 3
    MaxStops = 1
    CopilotUsers <- MCCopilotUsers
    Polls = {q1, q2}
    DeviceTtl = 1
    MaxPendingCodes = 2
    CopilotBuffer = 1
    CopilotLifetime = 1
    MaxCodes = 3
    MaxNow = 2
    m1 = m1
    m2 = m2
    Models = {m1, m2}
    ProviderOf <- MCProviderOf
    StaticModels = {m1}
    Actors = {h1, h2}
    Parts = {"relay", "proxy", "copilot", "catalog"}
SYMMETRY Handlers
CHECK_DEADLOCK FALSE
INVARIANTS
    RelaySound
    TokensAtRest
    ConnectionFollowsUser
    CatalogMirrored
PROPERTIES
    NoLostEntry
