SPECIFICATION Spec
CONSTANTS
    Instances = {i1, i2}
    Tasks = {t1, t2}
    NoRequest = NoRequest
    SlowAuth = FALSE
    MayDie = FALSE
INVARIANTS
    LeavesSafely
