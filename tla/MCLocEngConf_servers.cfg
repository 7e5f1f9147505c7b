SPECIFICATION Spec
CONSTANTS
    Updated <- OneUpdated
    Fixed <- OneFixed
    Servers <- OneServer
    Values <- OneValue
    Locks <- OneLock
    MaxCalls = 2
    MaxRestarts = 0
INVARIANTS
    ServersKept
CHECK_DEADLOCK FALSE
