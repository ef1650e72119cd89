SPECIFICATION DepositsSpec
CONSTANTS
    w1 = w1
    w2 = w2
    solana = solana
    user = user
    a = a
    b = b
    Workers = {w1, w2}
    Programs <- MCPrograms
    Refusals = 1
    None = None
    Additional = {}
INVARIANTS
    NothingStaysBehind
    DepositsArrive
    OperatorIsReady
\* The calls end.
CHECK_DEADLOCK FALSE
