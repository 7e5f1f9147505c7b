SPECIFICATION Spec
CONSTANTS
    INTERMEDIATE_POS = TRUE
    Modes <- TwoModes
    Recurrences <- Both
    Kinds <- AllKinds
    Aiding <- TwoData
    Masks <- AllOrOne
    MaxCalls = 4
    MaxReports = 1
    MaxRestarts = 1
INVARIANTS
    SessionFollowsWish
    CriteriaInForce
    AidingDeleted
PROPERTIES
    StartServed
CHECK_DEADLOCK FALSE
