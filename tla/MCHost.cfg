SPECIFICATION HostFairSpec
CONSTANTS
    Sessions = {"a", "b"}
    Gap = 2
    Words = 2
    MaxPolls = 1
    MaxSignals = 1
INVARIANTS
    NoServerLeft
    BurstBounded
    SearchComplete
PROPERTIES
    LauncherQuits
    ThreadsEnd
