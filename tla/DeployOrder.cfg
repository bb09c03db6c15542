\* Every compose file with up to three services and every depends_on among
\* three names, self-dependencies and undeclared names included; every
\* labels node of up to two entries on one of its services.
CONSTANTS
    Names = {"db", "api", "web"}
    LabelKeys = {"auto", "other"}
    LabelValues = {"true", "old"}
    Empty = ""
    Bare = Bare
    MaxEntries = 2
SPECIFICATION FairSpec
INVARIANTS
    SortInv
    CirclesRefused
    LabelIsSet
PROPERTIES
    SortEnds
CHECK_DEADLOCK FALSE
