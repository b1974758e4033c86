CONSTANTS
    r1 = r1
    r2 = r2
    r3 = r3
    q1 = q1
    key = key
    None = None
    QuoteIds <- MCQuotes
    Requests <- MCTwoRequests
    Keys <- MCKeys
    PermitKeys <- MCKeys
    Expirations <- MCExpirations
    Gaps <- OneGap
    Retention = 2
    DeadlineWindow = 2
    StoreLimit = 2
    MaxTime = 2
    MaxBlocks = 3

SPECIFICATION Spec

INVARIANT
    OneTransactionPerResponse
CHECK_DEADLOCK FALSE
