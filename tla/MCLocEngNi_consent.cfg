CONSTANTS
    MaxRequests = 2
    MaxRestarts = 0
    None = none
SPECIFICATION Spec
CHECK_DEADLOCK FALSE
INVARIANT AwaitsUserInput
