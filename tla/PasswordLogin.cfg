SPECIFICATION Spec
CONSTANTS
    None = None
    Users = {a}
    Sessions = {s1}
    Passwords = {p1, p2}
    Secrets = {x1, x2}
    Domains = {d1}
    DomainOf <- LoginDomainOf
    SessionTtl = 2
    MaxTime = 1
    Logins = {l1, l2}
    Tokens = {t1}
    Codes = {k1}
    States = {o1}
    MaxAttempts = 1
    Lockout = 1
    PendingTtl = 1
    OAuthTtl = 1
    MaxOAuth = 1
SYMMETRY LoginSymmetry
CHECK_DEADLOCK FALSE
INVARIANTS
    LockoutBound
    UsedOnce
    TotpSecretVerified
    LinkedByOwner
