SPECIFICATION AccessSpec
CONSTANTS
    None = None
    Users = {a, b}
    Sessions = {s1, s2}
    Passwords = {p1}
    Secrets = {}
    Domains = {d1}
    DomainOf <- MCDomainOf
    SessionTtl = 2
    MaxTime = 2
    Calls = {c1, c2}
    MaxDrawn = 3
    Clients = {r1}
    Pages = {g1, g2}
    MaxKeys = 1
    CacheCap = 1
    KiroTtl = 1
    RefreshAhead = 1
    MaxTokens = 2
CONSTRAINT LoginsApart
SYMMETRY Symmetry
CHECK_DEADLOCK FALSE
INVARIANTS
    ChangesEvict
