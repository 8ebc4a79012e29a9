SPECIFICATION Spec
CONSTANTS
    Tasks = {t1, t2}
    Histids = {h1, h2}
    Sizes = {1, 2}
    Policies <- OlderPolicy
    MaxClock = 2
INVARIANTS
    OlderSparesRecent
