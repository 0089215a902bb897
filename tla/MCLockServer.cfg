CONSTANTS
    Requesters = {r1, r2, r3}
    Keys = {k1, k2}
    MaxReaders = 3
SPECIFICATION Spec
SYMMETRY Symmetry
INVARIANTS TypeOK HoldersMatchState QueueMatchesWaiters CountersCoverHolds
PROPERTIES NoOvertaking ImplementsRWLock
