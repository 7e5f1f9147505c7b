CONSTANTS
    MaxHandles = 2
    MaxQueue = 2
    Nifs <- All
    AtlNifs <- Agnss
    MaxRetries = 1
    MaxRestarts = 1
SPECIFICATION FairSpec
\* every handle has been used and nothing is under way
CHECK_DEADLOCK FALSE
INVARIANTS
    StateFitsSubscribers
    PendingIsRequested
PROPERTIES
    AnswersFit
    CallsAreAnswered
