SPECIFICATION FairSpec
CONSTANTS
  d1 = d1
  d2 = d2
  Docs = {d1, d2}
  Key <- OneKey
  Requests = {q1, q2}
  Updates = {u1}
  Deletions = {x1}
  OldDips = {o1}
  OldTables <- MCOldTables
  NoDip = NoDip
  NoDoc = NoDoc
  Retentions = {0}
  Asking = {"deleted"}
  MaxTime = 2
  MaxFaults = 1
INVARIANTS InserterIsAlone DeadlocksAreOfInsertions
PROPERTIES IsAtomic CallsEnd
CHECK_DEADLOCK FALSE
