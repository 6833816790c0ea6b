SPECIFICATION FairStore
CONSTANTS
    TaskId <- TaskNumbers
    Worker = {w1, w2}
    Caller = {c1, c2}
    Settled = {"queued", "done"}
    MaxCalls = 3
    MaxFaults = 1
    None = None
INVARIANTS
    NoDoubleClaim
    ReturnedIsDurable
PROPERTIES
    ClaimsOnceInOrder
    QueuedIsServed
CHECK_DEADLOCK FALSE
