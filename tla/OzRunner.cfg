SPECIFICATION Spec
CONSTANTS
    j1 = j1
    j2 = j2
    k1 = k1
    k2 = k2
    f1 = f1
    f2 = f2
    f3 = f3
    f4 = f4
    f5 = f5
    Oz = Oz
    NoName = NoName
    Raised = Raised
    NoKey = NoKey
    NoKeys = NoKeys
    NoFile = NoFile
    NoLog = NoLog
    Jobs = {j1, j2}
    Keys = {k1, k2}
    PreparedKeys <- MCPreparedKeys
    Priority <- MCPriority
    Others <- MCOthers
    OldNames = {f5}
    OldResults <- MCOldResults
    Results <- MCResults
    Majors = {3, 4}
    Threshold <- MCThreshold
    Groups = {Oz}
    Names = {NoName}
    Texts = {Raised}
    Earlier <- MCEarlier
    MaxRaises = 2
INVARIANTS
    KeysAreExclusive
    PopFindsKeys
    SuccessIsAllOrNothing
\* The commands are over when analyze has returned.
CHECK_DEADLOCK FALSE
