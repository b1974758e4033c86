CONSTANTS
    a = a
    b = b
    m = m
    n = n
    alice = alice
    bob = bob
    None = None
    Tokens <- MCTokens
    Callers <- MCCallers
    Plans <- AllPlans
    Times <- MCTimes
    Taxes <- SomeTax
    Outputs <- MCOutputs
    Holdings <- MCHoldings
    MaxUint = 15
    MaxCalls = 2
SPECIFICATION Spec
INVARIANTS
    ApprovedForOneHop
    DustNeverSpent
PROPERTIES
    AllOrExactly
CHECK_DEADLOCK FALSE
