SPECIFICATION FairSpec
CONSTANTS
    Job = {j1}
    Task = {t1, t2}
    BadCron = {}
    MaxExit = 1
    NoTask = NoTask
    NoRow = NoRow
    NoJob = NoJob
INVARIANTS
    OverlapProtection
    NoZombie
    LiveIsDurable
    DeletedStaysDeleted
    NoLostLoop
PROPERTIES
    FireCompletes
    CancelledLoopEnds
CHECK_DEADLOCK FALSE
