SPECIFICATION Spec
CONSTANTS
    Clients = {c1}
    Script <- ShortScript
    PipeSize = 6
    ReadSize = 6
    SocketSize = 2
    Interrupts = FALSE
INVARIANTS
    JournalIsComplete
