SPECIFICATION Spec
CONSTANTS
    Docs = {doc}
    NoDoc = NoDoc
    Dips = {d1}
    NoDip = NoDip
    Requests = {q1, q2}
    Retentions = {1}
    MaxTries = 2
    MaxFaults = 1
    MaxTime = 2
INVARIANTS
    JoinedIsDriven
CHECK_DEADLOCK FALSE
