SPECIFICATION LostTrxSpec
CONSTANTS
    w1 = w1
    Processes = {w1}
    MaxCalls = 3
    PoolSize = 2
    Numbers = {0}
    Depth = 2
    SolTxs = 1
    Junk = Junk
    None = None

    
PROPERTY
    SavingEnds
\* The script ends.
CHECK_DEADLOCK FALSE
