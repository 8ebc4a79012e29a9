SPECIFICATION ManagedSpec
CONSTANTS
    Instances = {i1, i2}
    Tasks = {t1, t2}
    NoRequest = NoRequest
    SlowAuth = FALSE
    MayDie = TRUE
INVARIANTS
    TypeOK
    IdleWorkerReleasesTimer
PROPERTIES
    OverMeansIdle
    LeavesWithEmptyQueue
    DeadWorkerIsReplaced
