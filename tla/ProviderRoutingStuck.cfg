SPECIFICATION RoutingSpec
CONSTANTS
    Incoming = {r1}
    Admins = {a1}
    Providers = {anthropic, copilot}
    Native = anthropic
    Copilot = copilot
    Seeded = {anthropic, copilot}
    None = None
PROPERTY EveryRequestResolves
