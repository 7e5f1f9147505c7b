SPECIFICATION Spec
CONSTANTS
    Updated <- OneUpdated
    Fixed <- OneFixed
    Servers <- OneServer
    Values <- OneValue
    Locks <- OneLock
    MaxCalls = 2
    MaxRestarts = 1
INVARIANTS
    SettingsReachModem
    LockFollowsPower
PROPERTIES
    EventuallyConfigured
CHECK_DEADLOCK FALSE
