SPECIFICATION RoutingSpec
CONSTANTS
    Incoming = {r1, r2}
    Admins = {a1, a2}
    Providers = {anthropic, copilot}
    Native = anthropic
    Copilot = copilot
    Seeded = {anthropic}
    None = None
SYMMETRY Symmetry
INVARIANTS
    ChosenWasEnabled
