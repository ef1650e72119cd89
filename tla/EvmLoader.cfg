SPECIFICATION Spec
CONSTANTS
    t1 = t1
    t2 = t2
    contract = contract
    Txs = {t1, t2}
    Bad = {t1}
    Parts = 2
    Iterations = 2
    FromAccount = {"account", "noChainId"}
    MaxBlocks = 1
    None = None
    Additional = {contract}
INVARIANTS
    WriteReturnsWhole
    ReturnsExecuted
    RaisesHaveCause
PROPERTIES
    CallsEnd
\* The test ends.
CHECK_DEADLOCK FALSE
