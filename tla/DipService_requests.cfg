SPECIFICATION Spec
CONSTANTS
    Docs = {doc}
    NoDoc = NoDoc
    Dips = {d1, d2}
    NoDip = NoDip
    Requests = {q1, q2, q3}
    Retentions = {0, 2}
    MaxTries = 2
    MaxFaults = 1
    MaxTime = 3
SYMMETRY Symmetric
INVARIANTS
    OneGenerationPerDocument
    CachedAnswerStaysAvailable
    AcceptedIsDriven
PROPERTIES
    ExpiryNeverShortened
    Implements
CHECK_DEADLOCK FALSE
