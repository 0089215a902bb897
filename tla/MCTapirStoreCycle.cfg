SPECIFICATION Spec
CONSTANTS
    t1 = t1
    t2 = t2
    t3 = t3
    Txns = {t1, t2}
    Keys = {x, y}
    Loaded = {x, y}
    Linearizable = FALSE
    CommitRetries = 1
    TsOf <- TwoTxns
INVARIANTS
    Serializable
CHECK_DEADLOCK FALSE
