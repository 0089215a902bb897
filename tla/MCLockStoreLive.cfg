CONSTANTS
    Requesters = {t1, t2}
    Keys = {x, y}
    Loaded = {x}
    CommitRetries = 2
    MaxLate = 1
    NoValue = NoValue
    Initial = Initial
SPECIFICATION FairSpec
INVARIANTS ReadsStayCurrent
PROPERTIES EveryTransactionEnds
CHECK_DEADLOCK FALSE
