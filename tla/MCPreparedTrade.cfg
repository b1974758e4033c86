CONSTANTS
    a = a
    b = b
    m = m
    pool1 = pool1
    pool2 = pool2
    pool3 = pool3
    baKey = baKey
    amKey = amKey
    None = None
    Tokens <- MCTokens
    Configured <- MCConfigured
    Executor <- MCExecutor
    PoolTokens <- MCPoolTokens
    PoolAddress <- MCPoolAddress
    KeyCurrencies <- MCKeyCurrencies
    TokenIn = a
    TokenOut = b
    AmountIn = 2
    MaxUint = 7
    MaxUint128 = 3
    MaxUint48 = 1921
    Timestamp = 1
    Outputs <- MCOutputs
    Allotments <- MCAllotments
    SlippageBps <- MCSlippage
    Simulators <- MCSimulators
    MaxFaults = 1

SPECIFICATION Spec

INVARIANTS
    EngineAndTerminalAgree
    SignedIsAsDisplayed
    SimulatedMeansConfirmed
    OfferedIsVerified

CHECK_DEADLOCK FALSE
