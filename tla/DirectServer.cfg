\* Three starts, two requests, one viewer of stats or of logs.
CONSTANTS
    MaxStarts = 3
    Absent = Absent
    Torn = Torn
    Requests = {r1, r2}
    Viewers = {v1}
SPECIFICATION FairSpec
INVARIANTS
    DirectInv
    StopIsGraceful
PROPERTIES
    StopsOnSignal
    StreamsEnd
CHECK_DEADLOCK FALSE
