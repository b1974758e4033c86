CONSTANTS
    r1 = r1
    r2 = r2
    r3 = r3
    q1 = q1
    key = key
    None = None
    QuoteIds <- MCQuotes
    Requests <- MCTwoRequests
    Keys <- MCKeys
    PermitKeys <- MCKeys
    Expirations <- MCExpirations
    Gaps <- OneGap
    Retention = 2
    DeadlineWindow = 1
    StoreLimit = 2
    MaxTime = 4
    MaxBlocks = 3

SPECIFICATION Spec
SYMMETRY TwoRequestSymmetry
CONSTRAINT FewEvents

INVARIANTS
    ReadyIsCovered
    MarkedNeverReady
    OneVerdict
    PriceAgeBounded
PROPERTIES
    ImplementsContract
CHECK_DEADLOCK FALSE
