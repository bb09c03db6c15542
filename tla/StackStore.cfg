\* Three requests on one stack, of every kind of control flow: a save, a
\* deploy that saves first and one that does not, one command, several, a
\* delete.  One crash.
CONSTANTS
    Requests = {r1, r2, r3}
    Stacks = {s1}
    Kinds = {"add", "deploy_update", "deploy", "stop", "pull_up", "delete"}
    NoRequest = NoRequest
    Original = Original
    Absent = Absent
    MaxCrashes = 1
SYMMETRY Symmetry
SPECIFICATION Spec
INVARIANTS
    StoreInv
    FlaggedEnvExists
    EnvOnlyAfterDelete
    SavedIsOnDisk
PROPERTIES
    OwnerUndisturbed
    MutexSpec
CHECK_DEADLOCK FALSE
