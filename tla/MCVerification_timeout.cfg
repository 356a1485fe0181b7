SPECIFICATION Spec
CONSTANTS
    MaxSeeds = 4
    BatchLimit = 3
    Timeout = 2
    MaxAge = 5
    MaxOrphans = 2
INVARIANTS
    TimeoutBounds
