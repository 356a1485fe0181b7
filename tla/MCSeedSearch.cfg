SPECIFICATION Spec
CONSTANTS
    Wordlist <- Words3
    Jobs <- AllJobs
    Valid <- Checksum
    Owned <- OwnedPhrases
    Overflows <- TooLarge
    Alternatives <- LooksLike
    Lengths = {3}
    ChunkSize = 2
    MAX_MISSING_WORDS = 2
    SEARCH_SPACE_CAP = 9
    MAX_PERMUTATIONS = 6
    TYPO_SEARCH_CAP = 15
    MAX_RETURNED_CANDIDATES = 2
INVARIANTS
    ResultExact
    SpaceExact
    FirstInOrder
PROPERTIES
    ImplementsSearch
