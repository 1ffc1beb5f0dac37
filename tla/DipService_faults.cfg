SPECIFICATION FairSpec
CONSTANTS
    Docs = {doc}
    NoDoc = NoDoc
    Dips = {d1}
    NoDip = NoDip
    Requests = {q1, q2}
    Retentions = {0, 1}
    MaxTries = 2
    MaxFaults = 5
    MaxTime = 3
INVARIANTS
    KeyOutlivesObject
    ExpiryIsAttended
PROPERTIES
    CompletedIsFinal
    GenerationEnds
    RetentionEnds
CHECK_DEADLOCK FALSE
