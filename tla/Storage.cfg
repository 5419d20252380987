SPECIFICATION Spec
CONSTANTS
    Releases = {8, 10, 12, 20, 21, 25}
    MaxRows = 2
    MaxCrashes = 2
    Admins = {a1, a2}
    Second = a2
    Keys = {"auth_google_enabled", "auth_password_enabled", "google_client_secret",
            "fake_reasoning_max_tokens", "guardrails_enabled"}
    MaxBoots = 1
    Profiles = {p1, p2}
    Rules = {r1}
    RuleKinds = {"off", "input"}
    MaxEdits = 2
    Parts = {"schema", "config", "guardrails"}
CHECK_DEADLOCK FALSE
INVARIANTS
    UpgradeSound
    MemoryMirrorsRows
    LoginMethodRemains
    GuardrailsEnforced
