SPECIFICATION FairSpec
CONSTANTS
    NoFile = NoFile
    w1 = w1
    w2 = w2
    NoWorker = NoWorker
    Workers = {w1, w2}
    AIPs <- MCAIPs
    MaxSessions = 2
INVARIANTS
    BundleIsComplete
    FilesAreRemoved
    LossIsRetried
PROPERTIES
    WorkflowReturns
