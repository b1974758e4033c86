CONSTANTS
    Steps = 2
    Commands <- MCCommands
    Window = 0
    MaxTime = 1
    MaxAttempts = 2
    MaxBlocks = 3
    MaxFaults = 1
    None = None
SPECIFICATION FairSpec
INVARIANTS
    WriteAhead
    NoncesApart
PROPERTIES
    VerifiedBeforeNext
    Recovers
CHECK_DEADLOCK FALSE
