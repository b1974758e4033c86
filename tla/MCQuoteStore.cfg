CONSTANTS
    QuoteIds <- MCQuoteIds
    PreparationIds <- MCPreparationIds
    Marks <- MCMarks
    Terms <- MCTerms
    Retention = 2
    StoreLimit = 2
    MaxTime = 4

SPECIFICATION Spec

INVARIANTS
    StoreBounded

PROPERTIES
    EvictionIsOldestFirst
    MarksAndExpiryStick
