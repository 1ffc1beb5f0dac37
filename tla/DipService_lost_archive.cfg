SPECIFICATION Spec
CONSTANTS
    Docs = {doc}
    NoDoc = NoDoc
    Dips = {d1}
    NoDip = NoDip
    Requests = {q1, q2}
    Retentions = {1}
    MaxTries = 2
    MaxFaults = 2
    MaxTime = 2
INVARIANTS
    StoredAnswerHasArchive
CHECK_DEADLOCK FALSE
