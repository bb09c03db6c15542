\* Every method with every path of direct mode, of edge mode only, and with a
\* segment too many.
CONSTANTS
    Paths <- AllPaths
    BadNames <- BadServiceNames
    MaxChunks = 2
SPECIFICATION DispatchFairSpec
INVARIANTS
    DispatchInv
    
PROPERTIES
    CancelledEnds
CHECK_DEADLOCK FALSE
