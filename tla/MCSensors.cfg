SPECIFICATION Spec
CONSTANTS
    Handles <- Pairs
    Delays <- TwoDelays
    Count = 2
    NumEvents = 1
    MaxCalls = 3
    MaxData = 1
    MaxRecords = 2
    Intervals <- TwoIntervals
    FusionMin = 1
    MaxInputs = 1
    MaxFound = 1
    MaxFaults = 1
INVARIANTS
    RoomRespected
    SensorsServed
    CalibrationKept
PROPERTIES
    Delivered
    RateFollows
CHECK_DEADLOCK FALSE
