CONSTANTS
    Requesters = {t1, t2, t3}
    Keys = {x}
    Loaded = {x}
    CommitRetries = 2
    MaxLate = 1
    NoValue = NoValue
    Initial = Initial
SPECIFICATION Spec
PROPERTIES AdmittedInQueuedMode
CHECK_DEADLOCK FALSE
