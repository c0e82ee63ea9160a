SPECIFICATION FairSpec
CONSTANTS
    Tx = {"t1", "t2"}
    Deposit <- Logs
    Wei <- Amounts
    WeiPerChip = 10
    Confirmations = 1
    ReorgDepth = 1
    MaxBlock = 3
    MaxReorgs = 1
    MaxFaults = 2
    None = None
INVARIANTS CreditsAreTrue NothingSkipped
PROPERTY ConfirmedIsCredited
CHECK_DEADLOCK FALSE
