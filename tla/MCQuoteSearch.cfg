CONSTANTS
    AmountIn = 2
    MaxUint128 = 2
    MaxInt256 = 3
    None = None
    Searches <- MCSearches
    Concurrency = 2

SPECIFICATION FairSpec

INVARIANTS
    NothingLostOrDoubled
    ConcurrencyInvisible
    PartialIsTruthful
    RoutesExecute
    NoWorkerLeft

PROPERTIES
    SearchEnds
