SPECIFICATION FairSpec
CONSTANTS
    Files = {f1, f2}
    Workers = {w1, w2}
    NoWorker = NoWorker
    MaxSessions = 2
    MaxExports = 2
    MaxLosses = 2
INVARIANTS
    OutcomeIsKnown
    ArchiveHoldsItsMetadata
    FilesAreRemoved
    LossIsRetriedElsewhere
PROPERTIES
    GenerationReturns
