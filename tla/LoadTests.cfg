SPECIFICATION Spec
CONSTANTS
    s1 = s1
    c1 = c1
    c2 = c2
    q1 = q1
    Senders = {s1}
    Stores = {c1, c2}
    Tracers = {q1}
    Rich = 5
    Wei = 10
    Transfers = 3
    Values <- ValuesOf
    Queries = 2
    None = None
INVARIANTS
    NoncesAgree
    EachRequestIsReported
    OneContract
    DumpIsMined
    CallsHaveContract
\* The rounds end.
CHECK_DEADLOCK FALSE
