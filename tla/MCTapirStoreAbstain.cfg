SPECIFICATION Spec
CONSTANTS
    t1 = t1
    t2 = t2
    t3 = t3
    Txns = {t1, t2}
    Keys = {x}
    Loaded = {x}
    Linearizable = TRUE
    CommitRetries = 1
    TsOf <- TwoTxns
INVARIANTS
    CommittedWritesInstalled
CHECK_DEADLOCK FALSE
