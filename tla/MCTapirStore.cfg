SPECIFICATION Spec
CONSTANTS
    t1 = t1
    t2 = t2
    t3 = t3
    Txns = {t1, t2}
    Keys = {x, y}
    Loaded = {x, y}
    Linearizable = TRUE
    CommitRetries = 1
    TsOf <- TwoTxns
SYMMETRY Symmetry
INVARIANTS
    TypeOK
    PreparedReadsStayValid
    PreparedDoNotConflict
    NoLostUpdate
    Serializable
CHECK_DEADLOCK FALSE
