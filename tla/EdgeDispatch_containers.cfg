\* The paths that name a container or an image.
CONSTANTS
    Paths <- ContainerPaths
    BadNames <- BadServiceNames
    MaxChunks = 1
SPECIFICATION DispatchSpec
INVARIANTS
    SameAsDirect
CHECK_DEADLOCK FALSE
