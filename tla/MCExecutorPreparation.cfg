CONSTANTS
    a = a
    b = b
    m = m
    n = n
    None = None
    Tokens <- MCTokens
    Order <- MCOrder
    Configured <- MCConfigured
    Ids <- MCIds
    Executor <- MCExecutor
    PoolTokens <- MCNone
    PoolAddress <- MCNone
    KeyCurrencies <- MCNone
    TokenIn = a
    TokenOut = b
    AmountIn = 3
    Amounts <- MCAmounts
    Outputs <- MCOutputs
    SlippageBps <- MCSlippage
    Timestamp = 1
    MaxUint = 7
    MaxUint128 = 3
    MaxRoutes = 2

SPECIFICATION SplitSpec

INVARIANTS
    EveryPathOnce
    PlanAccepted
    ChecksMatchPlan

CHECK_DEADLOCK FALSE
