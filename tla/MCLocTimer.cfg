CONSTANTS
    Clients = {c1, c2}
    Rankables = {d1, d2, d3}
    MaxTime = 2
    Delays = {0, 1}
    NULL = null
SPECIFICATION FairTimerSpec
\* the clock stops, and so does the system
CHECK_DEADLOCK FALSE
INVARIANTS
    DelegateLifetime
    NeverForgotten
PROPERTIES
    ImplementsService
