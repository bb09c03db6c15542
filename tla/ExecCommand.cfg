\* Three chunks of one or two units on either stream; three units fit.
CONSTANTS
    MaxChunks = 3
    Sizes = {1, 2}
    StreamCap = 2
    MaxOutput = 3
SPECIFICATION ExecFairSpec
INVARIANTS
    ExecInv
PROPERTIES
    EndsWithStream
CHECK_DEADLOCK FALSE
