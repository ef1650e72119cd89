SPECIFICATION Spec
CONSTANTS
    w1 = w1
    w2 = w2
    t1 = t1
    t2 = t2
    basic = basic
    Ctl = Ctl
    NoProc = NoProc
    NoTest = NoTest
    NoKey = NoKey
    Unsuccessful = Unsuccessful
    Workers = {w1, w2}
    Tests = {t1, t2}
    Names = {t1, t2}
    Group = basic
    Groups = {basic}
    Texts = {Unsuccessful}
    Earlier <- MCEarlier
    KeepOptions = {TRUE, FALSE}
    MaxCrashes = 1
INVARIANTS
    NoticeIsExact
    CrashCost
PROPERTIES
    RunEnds
\* The run is over when send-notification is.
CHECK_DEADLOCK FALSE
