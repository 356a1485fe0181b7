SPECIFICATION FairSpec
CONSTANTS
    w1 = w1
    w2 = w2
    Workers <- Processes
    Values = {"a", "b", "c", "d", "e"}
    Good = {"a", "b", "c", "d"}
    MaxLen = 5
    ChunkSize = 2
    Cap = 2
    Dedup = TRUE
    MaxDeaths = 1
CHECK_DEADLOCK FALSE
INVARIANTS
    IInv
    CheckedExact
    CapOvershoot
PROPERTIES
    ImplementsSearch
    EventuallyEnds
