SPECIFICATION Spec
CONSTANTS
    None = None
    Parts = {"direct"}
    Routes <- MCRoutes
    MaxItems = 1
    Objects <- MCObjects
    Framing <- MCFraming
    MaxObjects = 1
    CallIds = {"c1"}
    MaxMessages = 1
    CallRuns <- MCCallRuns
    MaxTurns = 3
    Chats = {d1, d2}
    Texts <- MCTexts
    HashLength = 2
    MaxRetries = 2
    MaxAnswers = 3
    MaxAsked = 4
INVARIANT
    AssistantTextKept
CHECK_DEADLOCK FALSE
