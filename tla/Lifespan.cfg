SPECIFICATION FairSpec
CONSTANTS
    Server = {s1, s2}
    MaxRaises = 1
    None = None
    Memory = Memory
    Own = Own
INVARIANTS
    BackendWhileServing
    NoClosedSaver
    ServesWithItsOwn
    NothingLeft
PROPERTIES
    StopEnds
CHECK_DEADLOCK FALSE
