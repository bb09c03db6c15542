\* Five chunks through a pipe of two; lines longer than the scanner's buffer
\* block the command.  One viewer, a channel of two.
CONSTANTS
    MaxChunks = 5
    PipeCap = 2
    LineMax = 2
    Viewers = {v1}
    ChanCap = 2
    Server = Server
    MaxEvents = 8
SPECIFICATION UpFairSpec
INVARIANTS
    UpInv
    TruthInOrder
PROPERTIES
    LockFreed
    OutcomeShown
CHECK_DEADLOCK FALSE
