\* A request and the heartbeats of two connections.
CONSTANTS
    Reqs = {r1}
    Free = Free
    MaxConns = 2
SPECIFICATION FairSpec
INVARIANTS
    EdgeInv
    HeartbeatServes
PROPERTIES
    WorkersEnd
    Reconnects
CHECK_DEADLOCK FALSE
