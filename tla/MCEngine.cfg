SPECIFICATION FairSpec
CONSTANTS
    N = 6
    Wallets <- SomeWallets
    Skip = 1
    ChunkSizes = {1, 2}
    Threads = {0, 2}
    Periods = {1, 3}
    MaxSittings = 3
    None = None
    Exhausted = Exhausted
CHECK_DEADLOCK FALSE
INVARIANTS
    OneSlotSurvives
    LostWorkBounded
PROPERTIES
    ImplementsSweep
    Answers
