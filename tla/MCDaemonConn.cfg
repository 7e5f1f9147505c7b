SPECIFICATION Spec
CONSTANTS
    Request <- SomeRequests
    MaxSends = 2
    MaxLaunches = 2
    MaxFaults = 1
INVARIANTS
    HandledInOrder
    ToldWhatHolds
PROPERTIES
    CallsReturn
CHECK_DEADLOCK FALSE
