CONSTANTS
    Worker = worker
    Client = owner
    None = none
    Msgs = {m1, m2, m3}
    NoMsg = nomsg
SPECIFICATION FairSpec
\* the system stops once the task is destroyed
CHECK_DEADLOCK FALSE
INVARIANTS
    QueueSafety
PROPERTIES
    DestroyCompletes
    AcceptedIsHandled
