SPECIFICATION TtySpec
CONSTANTS
    MaxChunks = 2
    TtyReadSize = 3
    MaxResizes = 2
INVARIANTS
    OutputIsCopied
CHECK_DEADLOCK FALSE
