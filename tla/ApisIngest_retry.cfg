SPECIFICATION Spec
CONSTANTS
    Tasks = {t1, t2}
    NoTask = NoTask
    MaxTries = 2
    MaxSessions = 2
    MaxFaults = 2
    MaxLosses = 1
SYMMETRY Symmetric
INVARIANTS
    RetriedSessionCounts
CHECK_DEADLOCK FALSE
