SPECIFICATION Spec
CONSTANTS
    None = None
    Parts = {"stream"}
    Routes <- MCRoutes
    MaxItems = 5
    Objects <- MCObjects
    Framing <- MCFraming
    MaxObjects = 2
    CallIds = {"c1", "c2"}
    MaxMessages = 4
    CallRuns <- MCCallRuns
    MaxTurns = 3
    Chats = {d1, d2}
    Texts <- MCTexts
    HashLength = 2
    MaxRetries = 2
    MaxAnswers = 3
    MaxAsked = 4
CHECK_DEADLOCK FALSE
INVARIANT
    ReasoningApart
