\* Three requests of any kind on one project of two independent services; every
\* call may fail; one restart of the agent.
CONSTANTS
    Requests = {r1, r2, r3}
    Services = {"db", "web"}
    Deps <- NoDeps
    Kinds = {"deploy", "stream", "toggle", "update", "stop", "remove"}
    CanFail = {"parse", "pull", "write", "create", "start", "list", "read", "stop",
               "remove"}
    Labels = {TRUE}
    MaxCrashes = 1
    NoFile = NoFile
    Torn = Torn
SYMMETRY Symmetry
SPECIFICATION Spec
INVARIANTS
    ProjectInv
    DeployedStays
    FailedLeavesNoneRunning
CHECK_DEADLOCK FALSE
