\* Two edits of one container, every call may fail.
CONSTANTS
    Requests = {r1, r2}
    CanFail = {"rename", "update", "inspect", "stop", "remove", "create",
               "start", "answer"}
    AutoRemove = {TRUE, FALSE}
    Taken = {TRUE, FALSE}
SYMMETRY Symmetry
SPECIFICATION Spec
INVARIANTS
    EditInv
    GoneIsReported
    EditApplied
CHECK_DEADLOCK FALSE
