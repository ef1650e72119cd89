SPECIFICATION Spec
CONSTANTS
    p1 = p1
    p2 = p2
    basic = basic
    t1 = t1
    note = note
    NoProc = NoProc
    NoKey = NoKey
    Procs = {p1, p2}
    Groups = {basic}
    Names = {t1}
    Texts = {note}
    Earlier <- MCEarlier
    Calls <- MCCalls
    MaxEntries = 2
INVARIANTS
    WriterHoldsLock
PROPERTIES
    ImplementsAtomicLog
