SPECIFICATION FairSpec
CONSTANTS
    Tasks = {t1, t2}
    NoTask = NoTask
    MaxTries = 2
    MaxSessions = 2
    MaxFaults = 2
    MaxLosses = 1
INVARIANTS
    SuccessIsImported
    ConflictsAreDecided
PROPERTIES
    TaskEndsOnce
    PreprocessingSettles
    PoststorageEnds
CHECK_DEADLOCK FALSE
