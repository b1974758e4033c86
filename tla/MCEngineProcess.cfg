CONSTANTS
    base = base
    local = local
    call = call
    Chains <- MCChains
    Requests <- MCRequests
    Nodes <- MCNodes
    CheckTimeout = 10
    StartupTimeout = 15
    Grace = 3
    Patience = 4

SPECIFICATION FairSpec

INVARIANTS
    NothingLeftBehind
    TimersFit
    StatusIsOwn
PROPERTIES
    CutOnlyAfterGrace
    Settles
CHECK_DEADLOCK FALSE
