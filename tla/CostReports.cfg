SPECIFICATION Spec
CONSTANTS
    w1 = w1
    w2 = w2
    erc20 = erc20
    Workers = {w1, w2}
    Names = {erc20}
    None = None
    Torn = Torn
    MaxCalls = 2
    MaxCrashes = 2
INVARIANTS
    NothingIsLost
    OneInside
PROPERTIES
    CallsEnd
\* The run ends.
CHECK_DEADLOCK FALSE
