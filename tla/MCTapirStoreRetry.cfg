SPECIFICATION Spec
CONSTANTS
    t1 = t1
    t2 = t2
    t3 = t3
    Txns = {t1, t2}
    Keys = {x}
    Loaded = {x}
    Linearizable = TRUE
    CommitRetries = 2
    TsOf <- TwoTxns
PROPERTIES
    RetryTimestampsCollected
CHECK_DEADLOCK FALSE
