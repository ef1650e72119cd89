SPECIFICATION FundingSpec
CONSTANTS
    w1 = w1
    w2 = w2
    bankAccount = bankAccount
    u = u
    v = v
    Workers = {w1, w2}
    Programs <- MCPrograms
    Payers = {bankAccount, u, v}
    Money = 400
    BaseFees <- Growing
    GasPrice = 30
    Tip = 1
    MaxRetries = 3
    MaxCreated = 3
    None = None
INVARIANTS
    MoneyIsCollected
    AccountsAreFunded
    FeesLast
    RaisesHaveCause
\* The calls end.
CHECK_DEADLOCK FALSE
