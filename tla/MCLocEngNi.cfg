CONSTANTS
    MaxRequests = 2
    MaxRestarts = 1
    None = none
SPECIFICATION FairSpec
\* every request has been settled and no more come
CHECK_DEADLOCK FALSE
INVARIANTS
    SettledOnce
PROPERTIES
    RequestSettles
