SPECIFICATION FairSpec
CONSTANTS
    Clients = {c1, c2}
    Script <- ShortScript
    PipeSize = 4
    ReadSize = 2
    SocketSize = 2
    Interrupts = TRUE
INVARIANTS
    TypeOK
    ClientsMirrorJournal
    StopLosesNothing
PROPERTIES
    TaskCloses
