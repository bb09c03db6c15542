\* Three callers, two stacks: two callers may race for one stack while the
\* third publishes or uses the other one.  No symmetry, for the liveness.
CONSTANTS
    Callers = {c1, c2, c3}
    Stacks = {s1, s2}
    NoCaller = NoCaller
SPECIFICATION FairSpec
INVARIANTS
    LockInv
PROPERTIES
    MutexSpec
    CallsReturn
