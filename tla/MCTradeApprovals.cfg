SPECIFICATION Spec
CONSTANTS
    QuoteIds = {q1, q2}
    Expiries = {1}
    MaxAttempts = 1
    MaxTime = 0
    MaxBlocks = 1
    None = None
INVARIANTS OneApprovalPerTrade
CHECK_DEADLOCK FALSE
