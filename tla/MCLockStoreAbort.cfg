CONSTANTS
    Requesters = {t1, t2}
    Keys = {x}
    Loaded = {x}
    CommitRetries = 2
    MaxLate = 1
    NoValue = NoValue
    Initial = Initial
SPECIFICATION Spec
INVARIANTS AbortReleasesLocks
CHECK_DEADLOCK FALSE
