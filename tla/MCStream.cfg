SPECIFICATION FairSpec
CONSTANTS
    Values = {"a", "b", "c", "d", "e", "f", "x", "y"}
    Lists <- SomeLists
    Rejected = {"x"}
    Excluded = {"d"}
    BadChecksum = {"y"}
    Between = 2
    ChunkSizes = {1, 2}
    Skips = {0, 1, 9}
    Workers <- SomeWorkers
    MaxSittings = 2
    None = None
CHECK_DEADLOCK FALSE
INVARIANTS
    StreamExact
    CountExact
    SkipsOnlyTried
PROPERTIES
    EverythingTested
