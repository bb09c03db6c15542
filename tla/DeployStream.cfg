\* Two viewers, or the relay to the server, share a channel of two; up to
\* four events.
CONSTANTS
    Viewers = {v1, v2}
    Server = Server
    ChanCap = 2
    MaxEvents = 4
SPECIFICATION FairSpec
INVARIANTS
    StreamInv
    EndedIsComplete
PROPERTIES
    DeployEnds
    ViewerEnds
CHECK_DEADLOCK FALSE
