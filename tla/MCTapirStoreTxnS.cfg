SPECIFICATION Spec
CONSTANTS
    t1 = t1
    t2 = t2
    t3 = t3
    Txns = {t1, t2, t3}
    Keys = {x}
    Loaded = {x}
    Linearizable = FALSE
    CommitRetries = 2
    TsOf <- ThreeTxns
INVARIANTS
    PreparedReadsStayValid
    PreparedDoNotConflict
CHECK_DEADLOCK FALSE
