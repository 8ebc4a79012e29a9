SPECIFICATION FairSpec
CONSTANTS
    Instances = {i1, i2}
    Tasks = {t1, t2}
    NoRequest = NoRequest
    SlowAuth = TRUE
    MayDie = FALSE
PROPERTIES
    DaemonStops
