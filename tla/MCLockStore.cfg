CONSTANTS
    Requesters = {t1, t2, t3}
    Keys = {x}
    Loaded = {x}
    CommitRetries = 2
    MaxLate = 3
    NoValue = NoValue
    Initial = Initial
SPECIFICATION Spec
SYMMETRY Symmetry
INVARIANTS TypeOK PreparedHoldLocks PreparedConflictFree ReadsStayCurrent
CHECK_DEADLOCK FALSE
