SPECIFICATION LookupSpec
CONSTANTS
    Tasks = {t1, t2, t3}
    None = None
    Purges = {t2}
    Outcomes = {"success", "failed", "escapes", "dies"}
    MaxCrashes = 1
INVARIANTS
    TypeOK
    SemaphoreCountsQueue
    NoSleepOnWork
    FirstInFirstOut
    ScanSparesUnfinished
    PrerunFindsNoWorkspace
    NothingFallsBetween
    LookupFinds
PROPERTIES
    FullqueueIsOneInstant
    ImplementsLedger
