CONSTANTS
    r1 = r1
    r2 = r2
    r3 = r3
    q1 = q1
    key = key
    None = None
    QuoteIds <- MCQuotes
    Requests <- MCRequests
    Keys <- MCKeys
    PermitKeys <- NoPermitKeys
    Expirations <- NoExpirations
    Gaps <- OneGap
    Retention = 2
    DeadlineWindow = 2
    StoreLimit = 2
    MaxTime = 2
    MaxBlocks = 2

SPECIFICATION Spec
SYMMETRY RequestSymmetry

INVARIANT
    QuoteNeverReadyAfterApproval
CHECK_DEADLOCK FALSE
