------------------------ MODULE DipTransactions_proofs ------------------------
(***************************************************************************)
(* Theorems about DipTransactions for every set of calls, documents and    *)
(* index keys.                                                             *)
(***************************************************************************)
EXTENDS DipTransactions, FiniteSetTheorems, WellFoundedInduction, TLAPS

(***************************************************************************)
(* The rows.                                                               *)
(***************************************************************************)

\* A renewed row is a row with the same key and status.
LEMMA RenewedType ==
    ASSUME NEW r \in Row, NEW retention \in Retentions, NEW now \in Nat
    PROVE  /\ Renewed(r, retention, now) \in Row
           /\ Renewed(r, retention, now).docKey = r.docKey
           /\ Renewed(r, retention, now).status = r.status
  <1>1. retention \in Nat
    BY NumberAssumption
  <1>2. QED
    BY <1>1 DEF Renewed, Row, Never

\* A row to insert is a row of its document.
LEMMA QueuedType ==
    ASSUME NEW doc \in Docs, NEW now \in Nat
    PROVE  /\ QueuedRow(doc, now) \in Row
           /\ QueuedRow(doc, now).docKey = doc
           /\ QueuedRow(doc, now).status = "queued"
  BY DEF QueuedRow, Row, Status, Pending, Completed, Never

\* What an update of the workflow leaves of a row.
LEMMA UpdatedType ==
    ASSUME NEW op \in UpdateOp, NEW r \in Row, NEW now \in Nat, r.status # "absent",
           NEW s \in UpdatedRows(op, r, now)
    PROVE  s \in Row /\ s.docKey = r.docKey /\ s.status # "absent"
  <1>1. CASE op = "in progress"
    <2>1. s = InProgressUpdate(r)
      BY <1>1 DEF UpdatedRows
    <2>2. QED
      BY <2>1 DEF InProgressUpdate, Row, Status, Pending, Completed
  <1>2. CASE op = "stored"
    <2>1. PICK retention \in Retentions : s = StoredUpdate(r, retention, now)
      BY <1>2 DEF UpdatedRows
    <2> DEFINE e == IF retention > 0 /\ now + retention > r.expiresAt
                    THEN now + retention ELSE r.expiresAt
    <2>2. e \in Nat
      <3>1. r.expiresAt \in Nat /\ retention \in Nat
        BY NumberAssumption DEF Row
      <3>2. QED
        BY <3>1
    <2>3. s = r \/ s = [r EXCEPT !.status = "stored", !.hasKey = TRUE, !.expiresAt = e]
      BY <2>1 DEF StoredUpdate
    <2>4. QED
      BY <2>2, <2>3 DEF Row, Status, Pending, Completed
  <1>3. CASE op = "failed"
    <2>1. PICK key \in BOOLEAN : s = FailedUpdate(r, key)
      BY <1>3 DEF UpdatedRows
    <2>2. QED
      BY <2>1 DEF FailedUpdate, Row, Status, Pending, Completed
  <1>4. CASE op = "deleted"
    <2>1. s = DeletedUpdate(r, now)
      BY <1>4 DEF UpdatedRows
    <2>2. QED
      BY <2>1 DEF DeletedUpdate, Row, Status, Pending, Completed
  <1>5. CASE op = "clear"
    <2>1. s = ClearKeyUpdate(r)
      BY <1>5 DEF UpdatedRows
    <2>2. QED
      BY <2>1 DEF ClearKeyUpdate, Row, Status, Pending, Completed
  <1>6. QED
    BY <1>1, <1>2, <1>3, <1>4, <1>5 DEF UpdateOp

\* A row that is absent is well-formed.
LEMMA AbsentType == Absent \in Row /\ Absent.status = "absent" /\ Absent.docKey = NoDoc
  BY DEF Absent, Row, Never

\* So is a call without a transaction.
LEMMA NoTransactionType == NoTransaction \in Transaction
  BY AbsentType DEF NoTransaction, Transaction, Step

(***************************************************************************)
(* The inductive invariant.                                                *)
(***************************************************************************)

\* The request c has inserted its row and not committed it.
Inserting(c) == c \in Requests /\ tx[c].step = "commit" /\ tx[c].dip = c

\* What a call asks for.
AskOK(c) ==
    /\ c \in Requests  => call[c].ask.op = "request" /\ call[c].ask.dip = c /\ call[c].ask.doc \in Docs
    /\ c \in Updates   => call[c].ask.op \in UpdateOp /\ call[c].ask.dip \in Dips
    /\ c \in Deletions => call[c].ask.op = "delete" /\ call[c].ask.dip \in Dips
    /\ call[c].ask.since <= clock

\* The statement a call is at, and how far its caller sees it.
Stepping(c) ==
    /\ c \in Requests  => tx[c].step \in {"none", "scan", "insert", "commit", "recover"}
    /\ c \in Updates   => tx[c].step \in {"none", "lock", "commit"}
    /\ c \in Deletions => tx[c].step \in {"none", "lock", "mark", "commit"}
    /\ tx[c].step = "none" <=> call[c].at \in {"idle", "done", "error"}
    /\ call[c].at = "committed" => tx[c].step = "recover"
    /\ call[c].at \in {"running", "committed"} => AskOK(c) /\ call[c].answer = NoDip
    /\ call[c].at = "idle" => call[c].answer = NoDip

\* The locks that go with a statement.
Holding(c) ==
    /\ tx[c].step \in {"none", "recover", "lock"} =>
          tx[c].entries = {} /\ tx[c].rows = {} /\ ~tx[c].gap
    /\ tx[c].step \in {"none", "recover", "lock", "scan", "insert"} => tx[c].dip = NoDip
    /\ tx[c].step = "scan" => ~tx[c].gap
    /\ tx[c].step \in {"insert", "commit"} /\ c \in Requests => tx[c].gap
    /\ tx[c].step = "insert" => tx[c].entries = tx[c].rows
    /\ tx[c].step \in {"mark", "commit"} => tx[c].dip \in Dips /\ tx[c].dip \in tx[c].rows
    /\ Inserting(c) => c \in tx[c].entries
    /\ tx[c].step \in {"mark", "commit"} /\ c \notin Requests => tx[c].dip = call[c].ask.dip
    /\ tx[c].step = "commit" /\ c \in Deletions => tx[c].dip \in tx[c].entries
    /\ tx[c].step \in {"none", "lock", "mark"} => tx[c].new = Absent

\* Each lock has one holder and is of a row that exists.
Exclusive ==
    /\ \A c, x \in Calls : c # x => /\ tx[c].entries \cap tx[x].entries = {}
                                    /\ tx[c].rows \cap tx[x].rows = {}
    /\ \A c \in Calls : \A d \in tx[c].entries \cup tx[c].rows : id[d] # 0

\* The index has the committed rows and the inserted ones.
Indexed ==
    \A d \in Dips :
        /\ id[d] # 0 <=> row[d].status # "absent" \/ Inserting(d)
        /\ row[d].status = "absent" => row[d].docKey = NoDoc
        /\ row[d].status # "absent" => row[d].docKey \in Docs
        /\ row[d].status # "absent" /\ d \in Requests =>
              call[d].at \in {"committed", "done", "error"}

\* A request past its scan holds all entries of its key.
Scanned(c) ==
    c \in Requests /\ tx[c].step \in {"insert", "commit"} =>
        Entries(KeyOf(c)) \subseteq tx[c].entries \cap tx[c].rows

\* What a transaction is about to commit is what the call would do now, as of a
\* moment since its begin.
InsertJustified(c) ==
    \E ignoreCache \in BOOLEAN, now \in call[c].ask.since..clock :
        /\ Candidates(call[c].ask.doc, ignoreCache, now) = {}
        /\ tx[c].new = QueuedRow(call[c].ask.doc, now)

ReuseJustified(c) ==
    \E ignoreCache \in BOOLEAN, now \in call[c].ask.since..clock, retention \in Retentions :
        /\ tx[c].dip \in Newest(Candidates(call[c].ask.doc, ignoreCache, now))
        /\ tx[c].new = Renewed(row[tx[c].dip], retention, now)

UpdateJustified(c) ==
    /\ row[tx[c].dip].status # "absent"
    /\ \E now \in call[c].ask.since..clock :
          tx[c].new \in UpdatedRows(call[c].ask.op, row[tx[c].dip], now)

Justified(c) ==
    /\ tx[c].step = "insert" \/ Inserting(c) => InsertJustified(c)
    /\ c \in Requests /\ tx[c].step = "commit" /\ tx[c].dip # c => ReuseJustified(c)
    /\ c \in Updates /\ tx[c].step = "commit" => UpdateJustified(c)
    /\ c \in Deletions /\ tx[c].step \in {"mark", "commit"} =>
          row[tx[c].dip].status # "absent" /\ tx[c].new = Absent

CallInv(c) == Stepping(c) /\ Holding(c) /\ Scanned(c) /\ Justified(c)

TxInv == TypeOK /\ Exclusive /\ Indexed /\ \A c \in Calls : CallInv(c)

(***************************************************************************)
(* What a step of one call leaves of another.                              *)
(***************************************************************************)

\* An idle or waiting call keeps its invariant while others change other rows.
LEMMA Frame ==
    ASSUME TxInv, NEW x \in Calls, tx'[x] = tx[x], call'[x] = call[x],
           clock' \in Nat, clock <= clock',
           x \in Requests /\ tx[x].step \in {"insert", "commit"} =>
               Entries(KeyOf(x))' \subseteq Entries(KeyOf(x)),
           \A d \in Dips : \/ row'[d] = row[d]
                           \/ x \in Requests /\ tx[x].step \notin {"insert", "commit"}
                           \/ x \in Requests /\ row[d].docKey # call[x].ask.doc
                                             /\ row'[d].docKey # call[x].ask.doc
                           \/ x \notin Requests /\ d \notin tx[x].rows
    PROVE  CallInv(x)'
  <1> USE DEF TxInv
  <1>1. call[x].ask.since \in Nat /\ clock \in Nat
    BY DEF TypeOK, CallState, Asked
  <1>2. CallInv(x)
    OBVIOUS
  <1>3. Inserting(x)' <=> Inserting(x)
    BY DEF Inserting
  <1>4. Stepping(x)'
    <2>1. AskOK(x) => AskOK(x)'
      BY <1>1 DEF AskOK
    <2>2. QED
      BY <1>2, <2>1 DEF CallInv, Stepping
  <1>5. Holding(x)'
    BY <1>2, <1>3 DEF CallInv, Holding
  <1>6. Scanned(x)'
    BY <1>2 DEF CallInv, Scanned
  <1>7. Justified(x)'
    <2>1. ASSUME x \in Requests, tx[x].step \in {"insert", "commit"},
                 NEW ignoreCache \in BOOLEAN, NEW now \in call[x].ask.since..clock
          PROVE  /\ now \in (call[x].ask.since..clock)'
                 /\ Candidates(call[x].ask.doc, ignoreCache, now)' = Candidates(call[x].ask.doc, ignoreCache, now)
                 /\ Newest(Candidates(call[x].ask.doc, ignoreCache, now))'
                        = Newest(Candidates(call[x].ask.doc, ignoreCache, now))
                 /\ \A d \in Candidates(call[x].ask.doc, ignoreCache, now) : row'[d] = row[d]
      <3> DEFINE doc == call[x].ask.doc
      <3>1. \A d \in Dips : row'[d] = row[d] \/ (row[d].docKey # doc /\ row'[d].docKey # doc)
        BY <2>1
      <3> HIDE DEF doc
      <3>2. /\ {d \in Dips : row'[d].docKey = doc /\ Reusable(row'[d], ignoreCache, now)}
                    = Candidates(doc, ignoreCache, now)
            /\ \A d \in Candidates(doc, ignoreCache, now) : row'[d] = row[d]
        BY <3>1 DEF Candidates
      <3>3. doc' = doc
        BY DEF doc
      <3>4. Candidates(doc, ignoreCache, now)' = Candidates(doc, ignoreCache, now)
        BY <3>2, <3>3 DEF Candidates
      <3>5. Newest(Candidates(doc, ignoreCache, now))' = Newest(Candidates(doc, ignoreCache, now))
        BY <3>2, <3>4 DEF Newest
      <3>6. now \in (call[x].ask.since..clock)'
        BY <2>1, <1>1
      <3>7. QED
        BY <3>2, <3>4, <3>5, <3>6 DEF doc
    <2>2. ASSUME x \in Requests, tx[x].step \in {"insert", "commit"}, InsertJustified(x)
          PROVE  InsertJustified(x)'
      <3>1. PICK ignoreCache \in BOOLEAN, now \in call[x].ask.since..clock :
                 /\ Candidates(call[x].ask.doc, ignoreCache, now) = {}
                 /\ tx[x].new = QueuedRow(call[x].ask.doc, now)
        BY <2>2 DEF InsertJustified
      <3>2. /\ Candidates(call[x].ask.doc, ignoreCache, now)' = {}
            /\ (tx[x].new = QueuedRow(call[x].ask.doc, now))'
            /\ now \in (call[x].ask.since..clock)'
        BY <2>1, <2>2, <3>1 DEF QueuedRow
      <3>3. QED
        BY <3>2 DEF InsertJustified
    <2>3. ASSUME x \in Requests, tx[x].step = "commit", ReuseJustified(x)
          PROVE  ReuseJustified(x)'
      <3>1. PICK ignoreCache \in BOOLEAN, now \in call[x].ask.since..clock,
                 retention \in Retentions :
                 /\ tx[x].dip \in Newest(Candidates(call[x].ask.doc, ignoreCache, now))
                 /\ tx[x].new = Renewed(row[tx[x].dip], retention, now)
        BY <2>3 DEF ReuseJustified
      <3>2. tx[x].dip \in Candidates(call[x].ask.doc, ignoreCache, now)
        BY <3>1 DEF Newest
      <3>3. /\ (tx[x].dip \in Newest(Candidates(call[x].ask.doc, ignoreCache, now)))'
            /\ now \in (call[x].ask.since..clock)'
            /\ row'[tx[x].dip] = row[tx[x].dip]
        BY <2>1, <2>3, <3>1, <3>2
      <3>4. (tx[x].new = Renewed(row[tx[x].dip], retention, now))'
        BY <3>1, <3>3 DEF Renewed, Never
      <3>5. QED
        BY <3>3, <3>4 DEF ReuseJustified
    <2>4. ASSUME x \notin Requests, tx[x].step \in {"mark", "commit"}
          PROVE  row'[tx[x].dip] = row[tx[x].dip]
      BY <1>2, <2>4 DEF CallInv, Holding
    <2>5. ASSUME x \notin Requests, tx[x].step \in {"mark", "commit"}, UpdateJustified(x)
          PROVE  UpdateJustified(x)'
      <3>1. PICK now \in call[x].ask.since..clock :
                 tx[x].new \in UpdatedRows(call[x].ask.op, row[tx[x].dip], now)
        BY <2>5 DEF UpdateJustified
      <3>2. /\ (tx[x].new \in UpdatedRows(call[x].ask.op, row[tx[x].dip], now))'
            /\ now \in (call[x].ask.since..clock)'
        <4>1. now \in (call[x].ask.since..clock)'
          BY <1>1
        <4>2. (tx[x].new \in UpdatedRows(call[x].ask.op, row[tx[x].dip], now))'
          BY <2>4, <2>5, <3>1, Zenon DEF UpdatedRows, InProgressUpdate, StoredUpdate, FailedUpdate,
             DeletedUpdate, ClearKeyUpdate
        <4>3. QED
          BY <4>1, <4>2
      <3>3. QED
        BY <2>4, <2>5, <3>2 DEF UpdateJustified
    <2>6. tx[x].step = "insert" => x \in Requests
      BY <1>2 DEF CallInv, Stepping, Calls
    <2>7. /\ tx[x].step = "insert" \/ Inserting(x) => x \in Requests /\ InsertJustified(x)
          /\ x \in Requests /\ tx[x].step = "commit" /\ tx[x].dip # x => ReuseJustified(x)
          /\ x \in Updates /\ tx[x].step = "commit" => UpdateJustified(x)
          /\ x \in Deletions /\ tx[x].step \in {"mark", "commit"} =>
                row[tx[x].dip].status # "absent" /\ tx[x].new = Absent
      BY <1>2, <2>6 DEF CallInv, Justified, Inserting
    <2>8. x \in Updates \cup Deletions => x \notin Requests
      BY IdAssumption
    <2>9. (tx[x].step = "insert" \/ Inserting(x) => InsertJustified(x))'
      BY <1>3, <2>2, <2>7 DEF Inserting
    <2>10. (x \in Requests /\ tx[x].step = "commit" /\ tx[x].dip # x => ReuseJustified(x))'
      BY <2>3, <2>7
    <2>11. (x \in Updates /\ tx[x].step = "commit" => UpdateJustified(x))'
      BY <2>5, <2>7, <2>8
    <2>12. (x \in Deletions /\ tx[x].step \in {"mark", "commit"} =>
                row[tx[x].dip].status # "absent" /\ tx[x].new = Absent)'
      BY <2>4, <2>7, <2>8
    <2>13. QED
      BY <2>9, <2>10, <2>11, <2>12 DEF Justified
  <1>8. QED
    BY <1>4, <1>5, <1>6, <1>7 DEF CallInv


(***************************************************************************)
(* A step of call c that changes only its locks, its statement and what    *)
(* its caller knows.                                                       *)
(***************************************************************************)
LEMMA Private ==
    ASSUME TxInv, NEW c \in Calls, TypeOK',
           row' = row, clock' = clock, id' = id,
           \A x \in Calls \ {c} : tx'[x] = tx[x] /\ call'[x] = call[x],
           Inserting(c)' <=> Inserting(c),
           Inserting(c) => call'[c].ask = call[c].ask,
           row[c].status # "absent" /\ c \in Requests => call'[c].at \in {"committed", "done", "error"},
           \A x \in Calls \ {c} : /\ tx'[c].entries \cap tx[x].entries = {}
                                  /\ tx'[c].rows \cap tx[x].rows = {},
           \A d \in tx'[c].entries \cup tx'[c].rows : id[d] # 0,
           CallInv(c)'
    PROVE  TxInv'
  <1> USE DEF TxInv
  <1>1. \A x \in Calls : Inserting(x)' <=> Inserting(x)
    BY DEF Inserting
  <1>2. \A d \in Dips : id[d] # 0 => DocOf(d)' = DocOf(d)
    <2> SUFFICES ASSUME NEW d \in Dips, id[d] # 0, row[d].status = "absent"
                 PROVE  call'[d].ask.doc = call[d].ask.doc
      BY DEF DocOf
    <2>1. Inserting(d)
      BY DEF Indexed
    <2>2. d \in Calls
      BY <2>1 DEF Inserting, Calls
    <2>3. QED
      BY <2>1, <2>2
  <1>3. \A key : Entries(key)' = Entries(key)
    BY <1>2 DEF Entries
  <1>4. ASSUME NEW x \in Calls \ {c}
        PROVE  CallInv(x)'
    <2>1. clock' \in Nat /\ clock <= clock'
      BY DEF TypeOK
    <2>2. KeyOf(x)' = KeyOf(x)
      BY DEF KeyOf
    <2>3. Entries(KeyOf(x))' \subseteq Entries(KeyOf(x))
      BY <1>3, <2>2
    <2>4. QED
      BY <2>1, <2>3, Frame
  <1>5. Exclusive'
    BY DEF Exclusive
  <1>6. Indexed'
    <2>1. \A d \in Requests : d \in Calls
      BY DEF Calls
    <2>2. \A d \in Requests : row[d].status # "absent" => call'[d].at \in {"committed", "done", "error"}
      BY <2>1 DEF Indexed, Dips
    <2>3. \A d \in Dips : Inserting(d)' <=> Inserting(d)
      BY <1>1, <2>1 DEF Inserting
    <2>4. QED
      BY <2>2, <2>3 DEF Indexed
  <1>7. QED
    BY <1>4, <1>5, <1>6

\* A pending request has no committed row.
LEMMA Uncommitted ==
    ASSUME TxInv, NEW c \in Calls, c \in Requests, tx[c].step \in {"scan", "insert", "commit"}
    PROVE  row[c].status = "absent" /\ call[c].at = "running"
  <1>1. Stepping(c) /\ c \in Dips
    BY DEF TxInv, CallInv, Dips
  <1>2. call[c].at \in Progress
    BY DEF TxInv, TypeOK, CallState
  <1>3. call[c].at = "running"
    BY <1>1, <1>2 DEF Stepping, Progress
  <1>4. QED
    BY <1>1, <1>3 DEF TxInv, Indexed

\* The invariant holds at the start.
LEMMA InitInv == TxInit => TxInv
  <1> SUFFICES ASSUME TxInit PROVE TxInv
    OBVIOUS
  <1> USE DEF TxInit, Init
  <1>1. PICK old \in OldTables :
            row = [d \in Dips |-> IF d \in OldDips THEN old[d] ELSE Absent]
    OBVIOUS
  <1>2. /\ old \in [OldDips -> Row]
        /\ \A d \in OldDips : \/ old[d] = Absent
                              \/ old[d].status # "absent" /\ old[d].docKey \in Docs
    BY OldAssumption
  <1>3. row \in [Dips -> Row]
    BY <1>1, <1>2, AbsentType
  <1>4. lastId \in Nat
    BY NumberAssumption, FS_CardinalityType
  <1>5. \A c \in Calls : /\ tx[c] = NoTransaction
                         /\ call[c] = [ask |-> NothingAsked, at |-> "idle", answer |-> NoDip]
    OBVIOUS
  <1>6. TypeOK
    <2>1. NothingAsked \in Asked
      BY DEF NothingAsked, Asked
    <2>2. call \in [Calls -> CallState]
      BY <2>1 DEF CallState, Progress
    <2>3. tx \in [Calls -> Transaction]
      BY NoTransactionType
    <2>4. id \in [Dips -> Nat]
      BY <1>4
    <2>5. QED
      BY <1>3, <1>4, <2>2, <2>3, <2>4, NumberAssumption DEF TypeOK
  <1>7. Exclusive
    BY <1>5 DEF Exclusive, NoTransaction
  <1>8. \A c \in Calls : ~Inserting(c)
    BY <1>5 DEF Inserting, NoTransaction
  <1>9. Indexed
    <2>1. \A d \in Dips : ~Inserting(d)
      BY <1>8 DEF Inserting, Calls
    <2>2. \A d \in Dips : row[d].status = "absent" => row[d].docKey = NoDoc
      BY <1>1, <1>2, AbsentType
    <2>3. \A d \in Dips : row[d].status # "absent" => row[d].docKey \in Docs /\ d \notin Requests
      BY <1>1, <1>2, AbsentType, IdAssumption DEF Calls
    <2>4. QED
      BY <2>1, <2>2, <2>3 DEF Indexed
  <1>10. ASSUME NEW c \in Calls
         PROVE  CallInv(c)
    BY <1>5, <1>8 DEF CallInv, Stepping, Holding, Scanned, Justified, NoTransaction
  <1>11. QED
    BY <1>6, <1>7, <1>9, <1>10 DEF TxInv

(***************************************************************************)
(* The steps.                                                              *)
(***************************************************************************)

\* What a statement leaves of the type invariant.
LEMMA StatementType ==
    ASSUME TypeOK, NEW c \in Calls, NEW t \in Transaction, tx' = [tx EXCEPT ![c] = t],
           call' \in [Calls -> CallState], row' = row, clock' = clock, id' = id,
           lastId' = lastId, faults' \in 0..MaxFaults
    PROVE  TypeOK'
  BY DEF TypeOK

\* The count of faults stays in its bound.
LEMMA FaultType ==
    ASSUME TypeOK, NoFault \/ Fault
    PROVE  faults' \in 0..MaxFaults
  <1>1. faults \in 0..MaxFaults /\ MaxFaults \in Nat
    BY NumberAssumption DEF TypeOK
  <1>2. CASE NoFault
    BY <1>1, <1>2 DEF NoFault
  <1>3. CASE Fault
    BY <1>1, <1>3 DEF Fault
  <1>4. QED
    BY <1>2, <1>3

\* A call begins and holds nothing yet.
LEMMA StepStart ==
    ASSUME TxInv, NEW c \in Calls, Start(c)
    PROVE  TxInv'
  <1> USE DEF TxInv
  <1>1. /\ call[c].at = "idle" /\ tx[c].step = "none" /\ call[c].answer = NoDip
        /\ ~Inserting(c)
    BY DEF Start, BeginCall, CallInv, Stepping, Inserting
  <1>2. PICK op \in UpdateOp \cup {"request", "delete"}, d \in Dips, doc \in Docs \cup {NoDoc} :
            /\ Begin(c, op, d, doc)
            /\ c \in Requests => op = "request" /\ d = c /\ doc \in Docs
            /\ c \in Updates => op \in UpdateOp
            /\ c \in Deletions => op = "delete"
    <2>1. CASE c \in Requests
      <3>1. PICK doc \in Docs : Begin(c, "request", c, doc)
        BY <2>1, IdAssumption DEF Start, BeginCall
      <3>2. QED
        BY <2>1, <3>1, IdAssumption DEF Dips
    <2>2. CASE c \in Updates
      <3>1. PICK d \in Dips, op \in Asking : Begin(c, op, d, NoDoc)
        BY <2>2, IdAssumption DEF Start, BeginCall
      <3>2. QED
        BY <2>2, <3>1, IdAssumption, AskingAssumption
    <2>3. CASE c \in Deletions
      <3>1. PICK d \in Requests : Begin(c, "delete", d, NoDoc)
        BY <2>3, IdAssumption DEF Start, BeginCall
      <3>2. QED
        BY <2>3, <3>1, IdAssumption DEF Dips
    <2>4. QED
      BY <2>1, <2>2, <2>3 DEF Calls
  <1> DEFINE ask == [op |-> op, dip |-> d, doc |-> doc, since |-> clock]
  <1>3. ask \in Asked
    BY DEF TypeOK, Asked
  <1>4. call' = [call EXCEPT ![c] = [ask |-> ask, at |-> "running", answer |-> NoDip]]
    BY <1>2 DEF Begin
  <1>5. call' \in [Calls -> CallState]
    BY <1>3, <1>4 DEF TypeOK, CallState, Progress
  <1> DEFINE s == IF c \in Requests THEN "scan" ELSE "lock"
  <1>6. /\ row' = row /\ clock' = clock /\ id' = id /\ lastId' = lastId /\ faults' = faults
        /\ tx' = [tx EXCEPT ![c] = [tx[c] EXCEPT !.step = s]]
    BY DEF Start, BeginCall, TypeOK
  <1>7. [tx[c] EXCEPT !.step = s] \in Transaction
    BY DEF TypeOK, Transaction, Step
  <1>8. TypeOK'
    BY <1>5, <1>6, <1>7, StatementType DEF TypeOK
  <1>9. /\ tx'[c] = [tx[c] EXCEPT !.step = s]
        /\ call'[c] = [ask |-> ask, at |-> "running", answer |-> NoDip]
        /\ \A x \in Calls \ {c} : tx'[x] = tx[x] /\ call'[x] = call[x]
    BY <1>4, <1>6 DEF TypeOK
  <1>10. /\ tx'[c].step = s /\ tx'[c].entries = {} /\ tx'[c].rows = {} /\ ~tx'[c].gap
         /\ tx'[c].dip = NoDip /\ tx'[c].new = Absent
    <2>1. Holding(c)
      BY DEF CallInv
    <2>2. QED
      BY <1>1, <1>7, <1>9, <2>1 DEF Holding, TypeOK, Transaction
  <1>11. ~Inserting(c)' /\ s \in {"scan", "lock"}
    BY <1>10 DEF Inserting
  <1>12. row[c].status # "absent" /\ c \in Requests => FALSE
    BY <1>1 DEF Indexed, Dips
  <1>13. CallInv(c)'
    <2>1. AskOK(c)'
      BY <1>2, <1>6, <1>9 DEF AskOK, TypeOK
    <2>2. Stepping(c)'
      BY <1>9, <1>10, <2>1, IdAssumption DEF Stepping
    <2>3. Holding(c)'
      BY <1>10, <1>11 DEF Holding
    <2>4. Scanned(c)' /\ Justified(c)'
      BY <1>10, <1>11 DEF Scanned, Justified
    <2>5. QED
      BY <2>2, <2>3, <2>4 DEF CallInv
  <1>14. QED
    BY <1>1, <1>6, <1>8, <1>9, <1>10, <1>11, <1>12, <1>13, Private


\* A statement that leaves the call as it is and takes locks for it.
LEMMA Locking ==
    ASSUME TxInv, NEW c \in Calls, NEW t \in Transaction, tx' = [tx EXCEPT ![c] = t],
           UNCHANGED <<row, call, clock, id, lastId, faults>>,
           t.step = "commit" /\ c \in Requests => t.dip # c,
           ~Inserting(c),
           \A x \in Calls \ {c} : /\ t.entries \cap tx[x].entries = {}
                                  /\ t.rows \cap tx[x].rows = {},
           \A d \in t.entries \cup t.rows : id[d] # 0,
           CallInv(c)'
    PROVE  TxInv'
  <1>1. tx'[c] = t /\ \A x \in Calls \ {c} : tx'[x] = tx[x]
    BY DEF TxInv, TypeOK
  <1>2. TypeOK'
    BY StatementType DEF TxInv, TypeOK
  <1>3. ~Inserting(c)'
    BY <1>1 DEF Inserting
  <1>4. row[c].status # "absent" /\ c \in Requests => call'[c].at \in {"committed", "done", "error"}
    BY DEF TxInv, Indexed, Dips
  <1>5. QED
    BY <1>1, <1>2, <1>3, <1>4, Private

\* The caller's view of a statement that does not end the call.
LEMMA StillRunning ==
    ASSUME TxInv, NEW c \in Calls, tx[c].step \notin {"none", "recover"},
           UNCHANGED <<call, clock>>
    PROVE  /\ call[c].at = "running" /\ AskOK(c) /\ AskOK(c)' /\ call'[c].answer = NoDip
           /\ call[c].ask.since \in Nat /\ clock \in Nat /\ clock \in call[c].ask.since..clock
  <1>1. Stepping(c) /\ call[c] \in CallState /\ clock \in Nat
    BY DEF TxInv, CallInv, TypeOK
  <1>2. call[c].at = "running"
    BY <1>1 DEF Stepping, CallState, Progress
  <1>3. call[c].ask.since \in Nat
    BY <1>1 DEF CallState, Asked
  <1>4. QED
    BY <1>1, <1>2, <1>3 DEF Stepping, AskOK

\* A scan takes the next entry of its key.
LEMMA StepScanEntry ==
    ASSUME TxInv, NEW c \in Calls, ScanEntry(c)
    PROVE  TxInv'
  <1> USE DEF TxInv
  <1>1. /\ tx[c].step = "scan" /\ tx[c].entries = tx[c].rows
        /\ UNCHANGED <<row, call, clock, id, lastId, faults>>
    BY DEF ScanEntry
  <1>2. PICK d \in NextEntries(c) :
            /\ Blockers(c) = {}
            /\ tx' = [tx EXCEPT ![c].entries = @ \cup {d}]
    BY DEF ScanEntry
  <1>3. d \in Dips /\ id[d] # 0
    BY <1>2 DEF NextEntries, Entries
  <1> DEFINE t == [tx[c] EXCEPT !.entries = @ \cup {d}]
  <1>4. t \in Transaction /\ tx[c] \in Transaction
    BY <1>3 DEF TypeOK, Transaction
  <1>5. tx' = [tx EXCEPT ![c] = t]
    BY <1>2 DEF TypeOK
  <1>6. /\ t.step = "scan" /\ t.rows = tx[c].rows /\ t.entries = tx[c].entries \cup {d}
        /\ t.gap = tx[c].gap /\ t.dip = tx[c].dip /\ t.new = tx[c].new
    BY <1>1, <1>4 DEF Transaction
  <1> HIDE DEF t
  <1>7. \A x \in Calls \ {c} : d \notin tx[x].entries
    BY <1>1, <1>2 DEF Blockers, Blocks
  <1>8. tx'[c] = t
    BY <1>5 DEF TypeOK
  <1>9. CallInv(c)'
    <2>1. Stepping(c)'
      BY <1>1, <1>6, <1>8, StillRunning DEF CallInv, Stepping
    <2>2. Holding(c)'
      BY <1>1, <1>6, <1>8 DEF CallInv, Holding, Inserting
    <2>3. Scanned(c)' /\ Justified(c)'
      BY <1>6, <1>8 DEF Scanned, Justified, Inserting
    <2>4. QED
      BY <2>1, <2>2, <2>3 DEF CallInv
  <1>10. /\ \A x \in Calls \ {c} : /\ t.entries \cap tx[x].entries = {}
                                   /\ t.rows \cap tx[x].rows = {}
         /\ \A e \in t.entries \cup t.rows : id[e] # 0
    BY <1>3, <1>6, <1>7 DEF Exclusive
  <1>11. ~Inserting(c)
    BY <1>1 DEF Inserting
  <1>12. QED
    BY <1>1, <1>4, <1>5, <1>6, <1>9, <1>10, <1>11, Locking

\* A scan takes the row of its last entry.
LEMMA StepScanRow ==
    ASSUME TxInv, NEW c \in Calls, ScanRow(c)
    PROVE  TxInv'
  <1> USE DEF TxInv
  <1>1. /\ tx[c].step = "scan" /\ Blockers(c) = {}
        /\ tx' = [tx EXCEPT ![c].rows = tx[c].entries]
        /\ UNCHANGED <<row, call, clock, id, lastId, faults>>
    BY DEF ScanRow
  <1> DEFINE t == [tx[c] EXCEPT !.rows = tx[c].entries]
  <1>4. t \in Transaction /\ tx[c] \in Transaction
    BY DEF TypeOK, Transaction
  <1>5. tx' = [tx EXCEPT ![c] = t]
    BY <1>1 DEF TypeOK
  <1>6. /\ t.step = "scan" /\ t.rows = tx[c].entries /\ t.entries = tx[c].entries
        /\ t.gap = tx[c].gap /\ t.dip = tx[c].dip /\ t.new = tx[c].new
    BY <1>1, <1>4 DEF Transaction
  <1> HIDE DEF t
  <1>7. \A x \in Calls \ {c} : (tx[c].entries \ tx[c].rows) \cap tx[x].rows = {}
    BY <1>1 DEF Blockers, Blocks
  <1>8. tx'[c] = t
    BY <1>5 DEF TypeOK
  <1>9. CallInv(c)'
    <2>1. Stepping(c)'
      BY <1>1, <1>6, <1>8, StillRunning DEF CallInv, Stepping
    <2>2. Holding(c)'
      BY <1>1, <1>6, <1>8 DEF CallInv, Holding, Inserting
    <2>3. Scanned(c)' /\ Justified(c)'
      BY <1>6, <1>8 DEF Scanned, Justified, Inserting
    <2>4. QED
      BY <2>1, <2>2, <2>3 DEF CallInv
  <1>10. /\ \A x \in Calls \ {c} : /\ t.entries \cap tx[x].entries = {}
                                   /\ t.rows \cap tx[x].rows = {}
         /\ \A e \in t.entries \cup t.rows : id[e] # 0
    <2>1. \A x \in Calls \ {c} : /\ tx[c].entries \cap tx[x].entries = {}
                                 /\ tx[c].rows \cap tx[x].rows = {}
      BY DEF Exclusive
    <2>2. \A x \in Calls \ {c} : tx[c].entries \cap tx[x].rows = {}
      BY <1>7, <2>1
    <2>3. QED
      BY <1>6, <2>1, <2>2 DEF Exclusive
  <1>11. ~Inserting(c)
    BY <1>1 DEF Inserting
  <1>12. QED
    BY <1>1, <1>4, <1>5, <1>6, <1>9, <1>10, <1>11, Locking

\* An update takes its row.
LEMMA StepLockForUpdate ==
    ASSUME TxInv, NEW c \in Calls, LockForUpdate(c)
    PROVE  TxInv'
  <1> USE DEF TxInv
  <1> DEFINE d == call[c].ask.dip
  <1>1. /\ tx[c].step = "lock" /\ c \in Updates /\ c \notin Requests /\ c \notin Deletions
        /\ row[d].status # "absent" /\ Blockers(c) = {}
        /\ UNCHANGED <<row, call, clock, id, lastId, faults>>
    BY IdAssumption DEF LockForUpdate
  <1>2. PICK r \in UpdatedRows(call[c].ask.op, row[d], clock) :
          tx' = [tx EXCEPT ![c].step = "commit", ![c].rows = {d}, ![c].dip = d, ![c].new = r]
    BY DEF LockForUpdate
  <1>3. /\ d \in Dips /\ call[c].ask.op \in UpdateOp /\ id[d] # 0
        /\ call[c].at = "running" /\ AskOK(c)' /\ call'[c].answer = NoDip
        /\ clock \in Nat /\ clock \in call[c].ask.since..clock
    <2>1. /\ AskOK(c) /\ call[c].at = "running" /\ AskOK(c)' /\ call'[c].answer = NoDip
          /\ clock \in Nat /\ clock \in call[c].ask.since..clock
      BY <1>1, StillRunning
    <2>2. d \in Dips /\ call[c].ask.op \in UpdateOp
      BY <1>1, <2>1 DEF AskOK
    <2>3. QED
      BY <1>1, <2>1, <2>2 DEF Indexed
  <1>4. row[d] \in Row /\ r \in Row
    <2>1. row[d] \in Row
      BY <1>3 DEF TypeOK
    <2>2. QED
      BY <1>1, <1>3, <2>1, UpdatedType
  <1> DEFINE t == [tx[c] EXCEPT !.step = "commit", !.rows = {d}, !.dip = d, !.new = r]
  <1>5. t \in Transaction /\ tx[c] \in Transaction
    BY <1>3, <1>4, ZenonT(30) DEF TypeOK, Transaction, Step
  <1>6. tx' = [tx EXCEPT ![c] = t]
    BY <1>2 DEF TypeOK
  <1>7. /\ t.step = "commit" /\ t.rows = {d} /\ t.entries = tx[c].entries
        /\ t.gap = tx[c].gap /\ t.dip = d /\ t.new = r
    BY <1>5 DEF Transaction
  <1> HIDE DEF t
  <1>8. tx'[c] = t
    BY <1>6 DEF TypeOK
  <1>9. \A x \in Calls \ {c} : d \notin tx[x].rows
    BY <1>1 DEF Blockers, Blocks
  <1>10. CallInv(c)'
    <2>1. Stepping(c)'
      BY <1>1, <1>3, <1>7, <1>8 DEF Stepping
    <2>2. Holding(c)'
      BY <1>1, <1>3, <1>7, <1>8 DEF Holding, Inserting
    <2>3. UpdateJustified(c)'
      <3>1. tx'[c].new = r /\ tx'[c].dip = d /\ call' = call /\ row' = row /\ clock' = clock
        BY <1>1, <1>7, <1>8
      <3>2. (tx[c].new \in UpdatedRows(call[c].ask.op, row[tx[c].dip], clock))'
        BY <1>2, <3>1, Zenon DEF UpdatedRows, InProgressUpdate, StoredUpdate, FailedUpdate,
           DeletedUpdate, ClearKeyUpdate
      <3>3. (row[tx[c].dip].status # "absent" /\ clock \in call[c].ask.since..clock)'
        BY <1>1, <1>3, <3>1
      <3>4. QED
        BY <3>2, <3>3 DEF UpdateJustified
    <2>4. Scanned(c)' /\ Justified(c)'
      BY <1>1, <1>7, <1>8, <2>3 DEF Scanned, Justified, Inserting
    <2>5. QED
      BY <2>1, <2>2, <2>4 DEF CallInv
  <1>11. /\ \A x \in Calls \ {c} : /\ t.entries \cap tx[x].entries = {}
                                   /\ t.rows \cap tx[x].rows = {}
         /\ \A e \in t.entries \cup t.rows : id[e] # 0
    BY <1>3, <1>7, <1>9 DEF Exclusive
  <1>12. ~Inserting(c)
    BY <1>1 DEF Inserting
  <1>13. QED
    BY <1>1, <1>5, <1>6, <1>7, <1>10, <1>11, <1>12, Locking

\* A deletion takes its row.
LEMMA StepLockForDelete ==
    ASSUME TxInv, NEW c \in Calls, LockForDelete(c)
    PROVE  TxInv'
  <1> USE DEF TxInv
  <1> DEFINE d == call[c].ask.dip
  <1>1. /\ tx[c].step = "lock" /\ c \in Deletions /\ c \notin Requests /\ c \notin Updates
        /\ row[d].status # "absent" /\ Blockers(c) = {}
        /\ tx' = [tx EXCEPT ![c].step = "mark", ![c].rows = {d}, ![c].dip = d]
        /\ UNCHANGED <<row, call, clock, id, lastId, faults>>
    BY IdAssumption DEF LockForDelete
  <1>2. /\ d \in Dips /\ id[d] # 0
        /\ call[c].at = "running" /\ AskOK(c)' /\ call'[c].answer = NoDip
    <2>1. AskOK(c) /\ call[c].at = "running" /\ AskOK(c)' /\ call'[c].answer = NoDip
      BY <1>1, StillRunning
    <2>2. d \in Dips
      BY <1>1, <2>1 DEF AskOK
    <2>3. QED
      BY <1>1, <2>1, <2>2 DEF Indexed
  <1> DEFINE t == [tx[c] EXCEPT !.step = "mark", !.rows = {d}, !.dip = d]
  <1>5. t \in Transaction /\ tx[c] \in Transaction
    BY <1>2, ZenonT(30) DEF TypeOK, Transaction, Step
  <1>6. tx' = [tx EXCEPT ![c] = t]
    BY <1>1 DEF TypeOK
  <1>7. /\ t.step = "mark" /\ t.rows = {d} /\ t.entries = tx[c].entries
        /\ t.gap = tx[c].gap /\ t.dip = d /\ t.new = tx[c].new
    BY <1>5 DEF Transaction
  <1> HIDE DEF t
  <1>8. tx'[c] = t
    BY <1>6 DEF TypeOK
  <1>9. \A x \in Calls \ {c} : d \notin tx[x].rows
    BY <1>1 DEF Blockers, Blocks
  <1>10. CallInv(c)'
    <2>1. Stepping(c)'
      BY <1>1, <1>2, <1>7, <1>8 DEF Stepping
    <2>2. Holding(c)'
      BY <1>1, <1>2, <1>7, <1>8 DEF CallInv, Holding, Inserting
    <2>3. tx[c].new = Absent
      BY <1>1 DEF CallInv, Holding
    <2>4. Scanned(c)' /\ Justified(c)'
      BY <1>1, <1>7, <1>8, <2>3 DEF Scanned, Justified, Inserting
    <2>5. QED
      BY <2>1, <2>2, <2>4 DEF CallInv
  <1>11. /\ \A x \in Calls \ {c} : /\ t.entries \cap tx[x].entries = {}
                                   /\ t.rows \cap tx[x].rows = {}
         /\ \A e \in t.entries \cup t.rows : id[e] # 0
    BY <1>2, <1>7, <1>9 DEF Exclusive
  <1>12. ~Inserting(c)
    BY <1>1 DEF Inserting
  <1>13. QED
    BY <1>1, <1>5, <1>6, <1>7, <1>10, <1>11, <1>12, Locking

\* A deletion takes the entry of its row.
LEMMA StepMarkDeleted ==
    ASSUME TxInv, NEW c \in Calls, MarkDeleted(c)
    PROVE  TxInv'
  <1> USE DEF TxInv
  <1> DEFINE d == tx[c].dip
  <1>1. /\ tx[c].step = "mark" /\ Blockers(c) = {}
        /\ tx' = [tx EXCEPT ![c].step = "commit", ![c].entries = {d}]
        /\ UNCHANGED <<row, call, clock, id, lastId, faults>>
    BY DEF MarkDeleted
  <1>2. /\ c \in Deletions /\ c \notin Requests /\ c \notin Updates
        /\ d \in Dips /\ id[d] # 0 /\ d = call[c].ask.dip /\ d \in tx[c].rows
    <2>1. c \in Deletions /\ c \notin Requests /\ c \notin Updates
      BY <1>1, IdAssumption DEF CallInv, Stepping, Calls
    <2>2. d \in Dips /\ d = call[c].ask.dip /\ d \in tx[c].rows
      BY <1>1, <2>1 DEF CallInv, Holding
    <2>3. QED
      BY <2>1, <2>2 DEF Exclusive
  <1> DEFINE t == [tx[c] EXCEPT !.step = "commit", !.entries = {d}]
  <1>5. t \in Transaction /\ tx[c] \in Transaction
    BY <1>2 DEF TypeOK, Transaction, Step
  <1>6. tx' = [tx EXCEPT ![c] = t]
    BY <1>1 DEF TypeOK
  <1>7. /\ t.step = "commit" /\ t.rows = tx[c].rows /\ t.entries = {d}
        /\ t.gap = tx[c].gap /\ t.dip = d /\ t.new = tx[c].new
    BY <1>5 DEF Transaction
  <1> HIDE DEF t
  <1>8. tx'[c] = t
    BY <1>6 DEF TypeOK
  <1>9. \A x \in Calls \ {c} : d \notin tx[x].entries
    BY <1>1, <1>2 DEF Blockers, Blocks
  <1>10. CallInv(c)'
    <2>1. Stepping(c)'
      BY <1>1, <1>2, <1>7, <1>8, StillRunning DEF Stepping
    <2>2. Holding(c)'
      BY <1>1, <1>2, <1>7, <1>8 DEF CallInv, Holding, Inserting
    <2>3. tx[c].new = Absent /\ row[d].status # "absent"
      BY <1>1, <1>2 DEF CallInv, Holding, Justified
    <2>4. Scanned(c)' /\ Justified(c)'
      BY <1>1, <1>2, <1>7, <1>8, <2>3 DEF Scanned, Justified, Inserting
    <2>5. QED
      BY <2>1, <2>2, <2>4 DEF CallInv
  <1>11. /\ \A x \in Calls \ {c} : /\ t.entries \cap tx[x].entries = {}
                                   /\ t.rows \cap tx[x].rows = {}
         /\ \A e \in t.entries \cup t.rows : id[e] # 0
    BY <1>2, <1>7, <1>9 DEF Exclusive
  <1>12. ~Inserting(c)
    BY <1>1 DEF Inserting
  <1>13. QED
    BY <1>1, <1>2, <1>5, <1>6, <1>7, <1>10, <1>11, <1>12, Locking


\* The end of a call whose transaction inserted nothing, or is over.
LEMMA Ending ==
    ASSUME TxInv, NEW c \in Calls, tx[c].step # "none", ~Inserting(c),
           NEW at \in {"done", "error"}, NEW answer \in Dips \cup {NoDip},
           Ended(c, at, answer),
           UNCHANGED <<row, clock, id, lastId>>, faults' \in 0..MaxFaults
    PROVE  TxInv'
  <1> USE DEF TxInv
  <1>1. /\ tx' = [tx EXCEPT ![c] = NoTransaction]
        /\ call' = [call EXCEPT ![c].at = at, ![c].answer = answer]
    BY DEF Ended
  <1>2. /\ tx'[c] = NoTransaction /\ call'[c] = [call[c] EXCEPT !.at = at, !.answer = answer]
        /\ \A x \in Calls \ {c} : tx'[x] = tx[x] /\ call'[x] = call[x]
        /\ call[c] \in CallState
    BY <1>1 DEF TypeOK
  <1>3. call'[c].at = at /\ call'[c] \in CallState
    BY <1>2 DEF CallState, Progress
  <1>4. call' \in [Calls -> CallState]
    BY <1>1, <1>2, <1>3 DEF TypeOK
  <1>5. TypeOK'
    BY <1>1, <1>4, NoTransactionType, StatementType
  <1>6. ~Inserting(c)'
    BY <1>2 DEF Inserting, NoTransaction
  <1>7. CallInv(c)'
    BY <1>2, <1>3, <1>6 DEF CallInv, Stepping, Holding, Scanned, Justified, NoTransaction
  <1>8. tx'[c].entries = {} /\ tx'[c].rows = {}
    BY <1>2 DEF NoTransaction
  <1>9. QED
    BY <1>2, <1>3, <1>5, <1>6, <1>7, <1>8, Private

\* A call that fails gives back what it holds and leaves no trace.
LEMMA StepRollBack ==
    ASSUME TxInv, NEW c \in Calls, RollBack(c), tx[c].step \in {"scan", "insert", "lock", "mark"},
           NoFault \/ Fault
    PROVE  TxInv'
  <1>1. ~Inserting(c)
    BY DEF Inserting
  <1>2. faults' \in 0..MaxFaults
    BY FaultType DEF TxInv
  <1>3. QED
    BY <1>1, <1>2, Ending DEF RollBack

\* A request whose commit was not answered reads its row.
LEMMA StepRecover ==
    ASSUME TxInv, NEW c \in Calls, Recover(c)
    PROVE  TxInv'
  <1>1. tx[c].step = "recover" /\ c \in Requests /\ ~Inserting(c)
    <2>1. tx[c].step = "recover" /\ Stepping(c)
      BY DEF Recover, TxInv, CallInv
    <2>2. c \in Requests
      BY <2>1 DEF Stepping, Calls
    <2>3. QED
      BY <2>1, <2>2 DEF Inserting
  <1>2. faults' \in 0..MaxFaults
    BY FaultType DEF TxInv, Recover
  <1>3. /\ UNCHANGED <<row, clock, id, lastId>>
        /\ Ended(c, "done", c) \/ Ended(c, "error", NoDip)
    BY DEF Recover
  <1>4. c \in Dips
    BY <1>1 DEF Dips
  <1>5. QED
    BY <1>1, <1>2, <1>3, <1>4, Ending

\* What a request selects is a committed row of its document.
LEMMA Selected ==
    ASSUME TxInv, NEW c \in Calls, tx[c].step = "scan", NEW ignoreCache \in BOOLEAN, NEW now \in Nat,
           NEW d \in Newest(Candidates(call[c].ask.doc, ignoreCache, now))
    PROVE  /\ c \in Requests /\ d \in Dips /\ d # c
           /\ row[d].docKey = call[c].ask.doc /\ row[d].status # "absent"
           /\ id[d] # 0 /\ d \in Entries(KeyOf(c))
  <1> USE DEF TxInv
  <1>1. Stepping(c)
    BY DEF CallInv
  <1>2. c \in Requests
    BY <1>1, IdAssumption DEF Stepping, Calls
  <1>3. d \in Dips /\ row[d].docKey = call[c].ask.doc /\ row[d].status # "absent"
    BY DEF Newest, Candidates, Reusable, Pending
  <1>4. row[c].status = "absent"
    BY <1>2, Uncommitted
  <1>5. id[d] # 0
    BY <1>3 DEF Indexed
  <1>6. d \in Entries(KeyOf(c))
    BY <1>3, <1>5 DEF Entries, KeyOf, DocOf
  <1>7. QED
    BY <1>2, <1>3, <1>4, <1>5, <1>6

\* A request at the end of its scan decides on what it has read.
LEMMA StepChoose ==
    ASSUME TxInv, NEW c \in Calls, Choose(c)
    PROVE  TxInv'
  <1> USE DEF TxInv
  <1>1. /\ tx[c].step = "scan" /\ ~Inserting(c)
        /\ tx[c].entries = tx[c].rows /\ Entries(KeyOf(c)) \subseteq tx[c].entries
        /\ UNCHANGED <<row, clock, id, lastId>>
    BY DEF Choose, Inserting
  <1>2. clock \in Nat /\ tx[c] \in Transaction
    BY DEF TypeOK
  <1>3. c \in Requests /\ c \notin Updates /\ c \notin Deletions
    BY <1>1, IdAssumption DEF CallInv, Stepping, Calls
  <1> DEFINE doc == call[c].ask.doc
  <1>4. PICK ignoreCache \in BOOLEAN :
         LET found == Candidates(doc, ignoreCache, clock)
         IN  \/ \E d \in Newest(found), retention \in Retentions :
                  LET r == Renewed(row[d], retention, clock)
                  IN  IF r # row[d]
                      THEN /\ tx' = [tx EXCEPT ![c].step = "commit", ![c].gap = TRUE,
                                               ![c].dip = d, ![c].new = r]
                           /\ NoFault
                           /\ UNCHANGED call
                      ELSE \/ NoFault /\ Ended(c, "done", d)
                           \/ Fault /\ Ended(c, "error", NoDip)
             \/ /\ found = {}
                /\ tx' = [tx EXCEPT ![c].step = "insert", ![c].gap = TRUE,
                                    ![c].new = QueuedRow(doc, clock)]
                /\ NoFault
                /\ UNCHANGED call
    BY DEF Choose
  <1>5. /\ \A x \in Calls \ {c} : /\ tx[c].entries \cap tx[x].entries = {}
                                  /\ tx[c].rows \cap tx[x].rows = {}
        /\ \A e \in tx[c].entries \cup tx[c].rows : id[e] # 0
    BY DEF Exclusive
  <1>6. ASSUME NEW t \in Transaction, tx' = [tx EXCEPT ![c] = t], NoFault, UNCHANGED call,
               t.entries = tx[c].entries, t.rows = tx[c].rows, t.gap = TRUE,
               \/ /\ t.step = "insert" /\ t.dip = NoDip
                  /\ t.new = QueuedRow(doc, clock)
                  /\ Candidates(doc, ignoreCache, clock) = {}
               \/ /\ t.step = "commit" /\ t.dip \in tx[c].rows /\ t.dip \in Dips /\ t.dip # c
                  /\ t.dip \in Newest(Candidates(doc, ignoreCache, clock))
                  /\ \E retention \in Retentions : t.new = Renewed(row[t.dip], retention, clock)
        PROVE  TxInv'
    <2>1. tx'[c] = t
      BY <1>6 DEF TypeOK
    <2>2. clock \in call[c].ask.since..clock
      BY <1>1, <1>6, StillRunning
    <2>3. Stepping(c)'
      BY <1>1, <1>3, <1>6, <2>1, StillRunning DEF Stepping
    <2>4. ~Inserting(c)'
      BY <1>6, <2>1 DEF Inserting
    <2>5. Holding(c)'
      BY <1>1, <1>3, <1>6, <2>1, <2>4 DEF Holding
    <2>6. Entries(KeyOf(c))' = Entries(KeyOf(c))
      BY <1>1, <1>6 DEF Entries, KeyOf, DocOf
    <2>7. Scanned(c)'
      BY <1>1, <1>6, <2>1, <2>6 DEF Scanned
    <2>8. Justified(c)'
      <3>1. CASE t.step = "insert"
        <4>1. (Candidates(doc, ignoreCache, clock) = {} /\ tx[c].new = QueuedRow(doc, clock))'
          BY <1>1, <1>6, <2>1, <3>1 DEF Candidates, QueuedRow
        <4>2. InsertJustified(c)'
          BY <1>1, <1>6, <2>2, <4>1 DEF InsertJustified
        <4>3. QED
          BY <1>3, <2>1, <2>4, <3>1, <4>2 DEF Justified
      <3>2. CASE t.step = "commit"
        <4>1. PICK retention \in Retentions : t.new = Renewed(row[t.dip], retention, clock)
          BY <1>6, <3>2
        <4>2. /\ (tx[c].dip \in Newest(Candidates(doc, ignoreCache, clock)))'
              /\ (tx[c].new = Renewed(row[tx[c].dip], retention, clock))'
          BY <1>1, <1>6, <2>1, <3>2, <4>1 DEF Candidates, Newest, Renewed
        <4>3. ReuseJustified(c)'
          BY <1>1, <1>6, <2>2, <4>2 DEF ReuseJustified
        <4>4. QED
          BY <1>3, <2>1, <2>4, <3>2, <4>3 DEF Justified
      <3>3. QED
        BY <1>6, <3>1, <3>2
    <2>9. CallInv(c)'
      BY <2>3, <2>5, <2>7, <2>8 DEF CallInv
    <2>10. UNCHANGED <<row, call, clock, id, lastId, faults>>
      BY <1>1, <1>6 DEF NoFault
    <2>11. t.step = "commit" /\ c \in Requests => t.dip # c
      BY <1>6
    <2>12. QED
      BY <1>1, <1>5, <1>6, <2>9, <2>10, <2>11, Locking
  <1>7. CASE \E d \in Newest(Candidates(doc, ignoreCache, clock)), retention \in Retentions :
                  LET r == Renewed(row[d], retention, clock)
                  IN  IF r # row[d]
                      THEN /\ tx' = [tx EXCEPT ![c].step = "commit", ![c].gap = TRUE,
                                               ![c].dip = d, ![c].new = r]
                           /\ NoFault
                           /\ UNCHANGED call
                      ELSE \/ NoFault /\ Ended(c, "done", d)
                           \/ Fault /\ Ended(c, "error", NoDip)
    <2>1. PICK d \in Newest(Candidates(doc, ignoreCache, clock)), retention \in Retentions :
                  LET r == Renewed(row[d], retention, clock)
                  IN  IF r # row[d]
                      THEN /\ tx' = [tx EXCEPT ![c].step = "commit", ![c].gap = TRUE,
                                               ![c].dip = d, ![c].new = r]
                           /\ NoFault
                           /\ UNCHANGED call
                      ELSE \/ NoFault /\ Ended(c, "done", d)
                           \/ Fault /\ Ended(c, "error", NoDip)
      BY <1>7
    <2> DEFINE r == Renewed(row[d], retention, clock)
               t == [tx[c] EXCEPT !.step = "commit", !.gap = TRUE, !.dip = d, !.new = r]
    <2>2. d \in Dips /\ d # c /\ d \in tx[c].rows
      BY <1>1, <1>2, Selected
    <2>3. CASE r # row[d]
      <3>1. r \in Row
        <4>1. row[d] \in Row
          BY <2>2 DEF TypeOK
        <4>2. QED
          BY <1>2, <4>1, RenewedType
      <3>2. /\ tx' = [tx EXCEPT ![c].step = "commit", ![c].gap = TRUE, ![c].dip = d, ![c].new = r]
            /\ NoFault /\ UNCHANGED call
        BY <2>1, <2>3
      <3>3. tx' = [tx EXCEPT ![c] = t] /\ t \in Transaction
        BY <1>2, <2>2, <3>1, <3>2 DEF TypeOK, Transaction, Step
      <3>4. /\ t.entries = tx[c].entries /\ t.rows = tx[c].rows /\ t.gap = TRUE
            /\ t.step = "commit" /\ t.dip = d /\ t.new = r
        BY <1>2 DEF Transaction
      <3> HIDE DEF t
      <3>5. \E ret \in Retentions : t.new = Renewed(row[t.dip], ret, clock)
        BY <3>4
      <3>6. QED
        BY <1>6, <2>2, <3>2, <3>3, <3>4, <3>5
    <2>4. CASE r = row[d]
      <3>1. \/ NoFault /\ Ended(c, "done", d)
            \/ Fault /\ Ended(c, "error", NoDip)
        BY <2>1, <2>4
      <3>2. faults' \in 0..MaxFaults
        BY <3>1, FaultType
      <3>3. QED
        BY <1>1, <2>2, <3>1, <3>2, Ending
    <2>5. QED
      BY <2>3, <2>4
  <1>8. CASE /\ Candidates(doc, ignoreCache, clock) = {}
             /\ tx' = [tx EXCEPT ![c].step = "insert", ![c].gap = TRUE,
                                 ![c].new = QueuedRow(doc, clock)]
             /\ NoFault
             /\ UNCHANGED call
    <2> DEFINE t == [tx[c] EXCEPT !.step = "insert", !.gap = TRUE, !.new = QueuedRow(doc, clock)]
    <2>1. QueuedRow(doc, clock) \in Row
      <3>1. AskOK(c)
        BY <1>1, <1>8, StillRunning
      <3>2. doc \in Docs
        BY <1>3, <3>1 DEF AskOK
      <3>3. QED
        BY <1>2, <3>2, QueuedType
    <2>2. tx' = [tx EXCEPT ![c] = t] /\ t \in Transaction
      BY <1>2, <1>8, <2>1 DEF TypeOK, Transaction, Step
    <2>3. /\ t.entries = tx[c].entries /\ t.rows = tx[c].rows /\ t.gap = TRUE
          /\ t.step = "insert" /\ t.dip = tx[c].dip /\ t.new = QueuedRow(doc, clock)
      BY <1>2 DEF Transaction
    <2> HIDE DEF t
    <2>4. tx[c].dip = NoDip
      BY <1>1 DEF CallInv, Holding
    <2>5. QED
      BY <1>6, <1>8, <2>2, <2>3, <2>4
  <1>9. QED
    BY <1>4, <1>7, <1>8


\* The lock on the gap keeps an insertion away from the requests past their scan.
LEMMA StepInsert ==
    ASSUME TxInv, NEW c \in Calls, Insert(c)
    PROVE  TxInv'
  <1> USE DEF TxInv
  <1>1. /\ tx[c].step = "insert" /\ Blockers(c) = {}
        /\ id' = [id EXCEPT ![c] = lastId + 1] /\ lastId' = lastId + 1
        /\ tx' = [tx EXCEPT ![c].step = "commit", ![c].dip = c,
                            ![c].entries = @ \cup {c}, ![c].rows = @ \cup {c}]
        /\ UNCHANGED <<row, call, clock, faults>>
    BY DEF Insert
  <1>2. c \in Requests /\ c \notin Updates /\ c \notin Deletions /\ c \in Dips
    BY <1>1, IdAssumption DEF CallInv, Stepping, Calls, Dips
  <1>3. row[c].status = "absent" /\ call[c].at = "running" /\ call'[c].answer = NoDip /\ AskOK(c)'
    BY <1>1, <1>2, Uncommitted, StillRunning
  <1>4. id[c] = 0
    BY <1>1, <1>2, <1>3 DEF Indexed, Inserting
  <1> DEFINE t == [tx[c] EXCEPT !.step = "commit", !.dip = c, !.entries = @ \cup {c}, !.rows = @ \cup {c}]
  <1>5. t \in Transaction /\ tx[c] \in Transaction /\ tx' = [tx EXCEPT ![c] = t]
    BY <1>1, <1>2 DEF TypeOK, Transaction, Step
  <1>6. /\ t.step = "commit" /\ t.dip = c /\ t.gap = tx[c].gap /\ t.new = tx[c].new
        /\ t.entries = tx[c].entries \cup {c} /\ t.rows = tx[c].rows \cup {c}
    BY <1>5 DEF Transaction
  <1> HIDE DEF t
  <1>7. tx'[c] = t /\ \A x \in Calls \ {c} : tx'[x] = tx[x]
    BY <1>5 DEF TypeOK
  <1>8. TypeOK'
    <2>1. /\ row \in [Dips -> Row] /\ call \in [Calls -> CallState] /\ clock \in Nat \ {0}
          /\ faults \in 0..MaxFaults
      BY DEF TypeOK
    <2>2. lastId' \in Nat /\ id' \in [Dips -> Nat]
      <3>1. lastId \in Nat /\ id \in [Dips -> Nat]
        BY DEF TypeOK
      <3>2. lastId + 1 \in Nat
        BY <3>1
      <3>3. QED
        BY <1>1, <3>1, <3>2
    <2>3. tx' \in [Calls -> Transaction]
      BY <1>5 DEF TypeOK
    <2>4. QED
      BY <1>1, <2>1, <2>2, <2>3 DEF TypeOK
  <1>9. id'[c] # 0 /\ \A d \in Dips \ {c} : id'[d] = id[d]
    BY <1>1, <1>2 DEF TypeOK
  <1>10. \A d \in Dips : DocOf(d)' = DocOf(d)
    BY <1>1 DEF DocOf
  <1>11. Entries(KeyOf(c))' \subseteq Entries(KeyOf(c)) \cup {c}
    <2>1. KeyOf(c)' = KeyOf(c)
      BY <1>1 DEF KeyOf
    <2>2. QED
      BY <1>9, <1>10, <2>1 DEF Entries
  <1>12. ASSUME NEW x \in Calls \ {c}
         PROVE  CallInv(x)'
    <2>1. KeyOf(x)' = KeyOf(x)
      BY <1>1 DEF KeyOf
    <2>2. ASSUME x \in Requests, tx[x].step \in {"insert", "commit"}
          PROVE  Entries(KeyOf(x))' \subseteq Entries(KeyOf(x))
      <3>1. tx[x].gap
        BY <2>2 DEF CallInv, Holding
      <3>2. ~GapBlocks(x, c)
        BY <1>1 DEF Blockers, Blocks
      <3>3. KeyOf(x) # KeyOf(c)
        BY <2>2, <3>1, <3>2 DEF GapBlocks, Covers
      <3>4. Key[DocOf(c)] = KeyOf(c)
        BY <1>3 DEF DocOf, KeyOf
      <3>5. QED
        BY <1>9, <1>10, <2>1, <3>3, <3>4 DEF Entries
    <2>3. /\ tx'[x] = tx[x] /\ call'[x] = call[x] /\ clock' \in Nat /\ clock <= clock'
          /\ \A d \in Dips : row'[d] = row[d]
      BY <1>1, <1>7 DEF TypeOK
    <2>4. QED
      BY <2>2, <2>3, Frame
  <1>13. Inserting(c)'
    BY <1>2, <1>6, <1>7 DEF Inserting
  <1>14. CallInv(c)'
    <2>1. Stepping(c)'
      BY <1>1, <1>2, <1>3, <1>6, <1>7 DEF Stepping
    <2>2. Holding(c)'
      BY <1>1, <1>2, <1>6, <1>7 DEF CallInv, Holding
    <2>3. Scanned(c)'
      BY <1>1, <1>2, <1>6, <1>7, <1>11 DEF CallInv, Scanned
    <2>4. InsertJustified(c)
      BY <1>1 DEF CallInv, Justified
    <2>5. InsertJustified(c)'
      <3>1. row' = row /\ call' = call /\ clock' = clock /\ tx'[c].new = tx[c].new
        BY <1>1, <1>6, <1>7
      <3>2. QED
        BY <2>4, <3>1, Zenon DEF InsertJustified, Candidates, Reusable, Expired, QueuedRow
    <2>6. Justified(c)'
      BY <1>2, <1>6, <1>7, <1>13, <2>5 DEF Justified
    <2>7. QED
      BY <2>1, <2>2, <2>3, <2>6 DEF CallInv
  <1>15. \A x \in Calls \ {c} : c \notin tx[x].entries /\ c \notin tx[x].rows
    BY <1>4 DEF Exclusive
  <1>16. Exclusive'
    <2>1. \A x \in Calls \ {c} : /\ tx[c].entries \cap tx[x].entries = {}
                                 /\ tx[c].rows \cap tx[x].rows = {}
      BY DEF Exclusive
    <2>2. \A x \in Calls \ {c} : /\ t.entries \cap tx[x].entries = {}
                                 /\ t.rows \cap tx[x].rows = {}
      BY <1>6, <1>15, <2>1
    <2>3. \A x, y \in Calls \ {c} : x # y => /\ tx[x].entries \cap tx[y].entries = {}
                                             /\ tx[x].rows \cap tx[y].rows = {}
      BY DEF Exclusive
    <2>4. \A x \in Calls : tx[x].entries \subseteq Dips /\ tx[x].rows \subseteq Dips
      BY DEF TypeOK, Transaction
    <2>5. \A x \in Calls : \A d \in tx[x].entries \cup tx[x].rows : id'[d] # 0
      <3> SUFFICES ASSUME NEW x \in Calls, NEW d \in tx[x].entries \cup tx[x].rows
                   PROVE  id'[d] # 0
        OBVIOUS
      <3>1. id[d] # 0 /\ d \in Dips
        BY <2>4 DEF Exclusive
      <3>2. QED
        BY <1>9, <3>1
    <2>6. \A x \in Calls : \A d \in tx'[x].entries \cup tx'[x].rows : id'[d] # 0
      BY <1>6, <1>7, <1>9, <2>5
    <2>7. \A x, y \in Calls : x # y => /\ tx'[x].entries \cap tx'[y].entries = {}
                                       /\ tx'[x].rows \cap tx'[y].rows = {}
      BY <1>7, <2>2, <2>3
    <2>8. QED
      BY <2>6, <2>7 DEF Exclusive
  <1>17. Indexed'
    <2>1. \A d \in Dips \ {c} : Inserting(d)' <=> Inserting(d)
      BY <1>7 DEF Inserting, Calls
    <2>2. QED
      BY <1>1, <1>9, <1>13, <2>1 DEF Indexed
  <1>18. QED
    BY <1>8, <1>12, <1>14, <1>16, <1>17

\* Time passes.
LEMMA StepTick ==
    ASSUME TxInv, TxTick
    PROVE  TxInv'
  <1> USE DEF TxInv
  <1>1. /\ clock' = clock + 1 /\ clock' \in Nat \ {0} /\ clock <= clock'
        /\ UNCHANGED <<row, call, tx, id, lastId, faults>>
    BY DEF TxTick, Tick, TypeOK
  <1>2. TypeOK'
    BY <1>1 DEF TypeOK
  <1>3. \A x \in Calls : Entries(KeyOf(x))' = Entries(KeyOf(x))
    BY <1>1 DEF Entries, KeyOf, DocOf
  <1>4. ASSUME NEW x \in Calls
        PROVE  CallInv(x)'
    BY <1>1, <1>3, Frame
  <1>5. Exclusive' /\ Indexed'
    BY <1>1 DEF Exclusive, Indexed, Inserting
  <1>6. QED
    BY <1>2, <1>4, <1>5

\* The row a transaction commits.
LEMMA Written ==
    ASSUME TxInv, NEW c \in Calls, tx[c].step = "commit"
    PROVE  /\ tx[c].dip \in Dips /\ tx[c].dip \in tx[c].rows /\ id[tx[c].dip] # 0
           /\ tx[c].new \in Row
           /\ c \notin Deletions => /\ tx[c].new.status # "absent"
                                    /\ tx[c].new.docKey = DocOf(tx[c].dip)
                                    /\ tx[c].new.docKey \in Docs
           /\ c \in Deletions => tx[c].new = Absent
           /\ tx[c].dip # c => row[tx[c].dip].status # "absent"
           /\ tx[c].dip = c => Inserting(c) /\ row[c].status = "absent" /\ tx[c].new.status = "queued"
  <1> USE DEF TxInv
  <1> DEFINE d == tx[c].dip
  <1>1. d \in Dips /\ d \in tx[c].rows
    BY DEF CallInv, Holding
  <1>2. id[d] # 0
    BY <1>1 DEF Exclusive
  <1>3. row[d] \in Row /\ tx[c].new \in Row /\ clock \in Nat /\ call[c].ask.since \in Nat
    BY <1>1 DEF TypeOK, Transaction, CallState, Asked
  <1>4. AskOK(c) /\ Justified(c)
    <2>1. UNCHANGED <<call, clock>> => AskOK(c)
      BY StillRunning
    <2>2. Stepping(c) /\ Justified(c) /\ call[c].at \in Progress
      BY DEF CallInv, TypeOK, CallState
    <2>3. QED
      BY <2>2 DEF Stepping, Progress
  <1>5. CASE c \in Requests /\ d = c
    <2>1. Inserting(c)
      BY <1>5 DEF Inserting
    <2>2. PICK now \in call[c].ask.since..clock : tx[c].new = QueuedRow(call[c].ask.doc, now)
      BY <1>4, <2>1 DEF Justified, InsertJustified
    <2>3. call[c].ask.doc \in Docs /\ now \in Nat
      BY <1>3, <1>4, <1>5 DEF AskOK
    <2>4. /\ tx[c].new.docKey = call[c].ask.doc /\ tx[c].new.status = "queued"
      BY <2>2, <2>3, QueuedType
    <2>5. row[c].status = "absent"
      BY <1>5, Uncommitted
    <2>6. QED
      BY <1>1, <1>2, <1>3, <1>5, <2>1, <2>3, <2>4, <2>5, IdAssumption DEF DocOf
  <1>6. CASE c \in Requests /\ d # c
    <2>1. PICK ignoreCache \in BOOLEAN, now \in call[c].ask.since..clock, retention \in Retentions :
        /\ d \in Newest(Candidates(call[c].ask.doc, ignoreCache, now))
        /\ tx[c].new = Renewed(row[d], retention, now)
      BY <1>4, <1>6 DEF Justified, ReuseJustified
    <2>2. row[d].status # "absent" /\ row[d].docKey = call[c].ask.doc
      BY <2>1 DEF Newest, Candidates, Reusable, Pending
    <2>3. now \in Nat
      BY <1>3
    <2>4. tx[c].new.docKey = row[d].docKey /\ tx[c].new.status = row[d].status
      BY <1>3, <2>1, <2>3, RenewedType
    <2>5. call[c].ask.doc \in Docs
      BY <1>4, <1>6 DEF AskOK
    <2>6. QED
      BY <1>1, <1>2, <1>3, <1>6, <2>2, <2>4, <2>5, IdAssumption DEF DocOf
  <1>7. CASE c \in Updates
    <2>1. PICK now \in call[c].ask.since..clock :
              tx[c].new \in UpdatedRows(call[c].ask.op, row[d], now) /\ row[d].status # "absent"
      BY <1>4, <1>7 DEF Justified, UpdateJustified
    <2>2. now \in Nat /\ call[c].ask.op \in UpdateOp
      BY <1>3, <1>4, <1>7 DEF AskOK
    <2>3. tx[c].new.docKey = row[d].docKey /\ tx[c].new.status # "absent"
      BY <1>3, <2>1, <2>2, UpdatedType
    <2>4. row[d].docKey \in Docs
      BY <1>1, <2>1 DEF Indexed
    <2>5. d # c
      BY <1>1, <1>7, IdAssumption DEF Dips
    <2>6. QED
      BY <1>1, <1>2, <1>3, <1>7, <2>1, <2>3, <2>4, <2>5, IdAssumption DEF DocOf
  <1>8. CASE c \in Deletions
    <2>1. row[d].status # "absent" /\ tx[c].new = Absent
      BY <1>4, <1>8 DEF Justified
    <2>2. d # c
      BY <1>1, <1>8, IdAssumption DEF Dips
    <2>3. QED
      BY <1>1, <1>2, <1>3, <1>8, <2>1, <2>2, IdAssumption DEF DocOf
  <1>9. QED
    BY <1>5, <1>6, <1>7, <1>8 DEF Calls


\* What a commit changes, whatever becomes of its answer.
LEMMA Committed ==
    ASSUME TxInv, NEW c \in Calls, Commit(c)
    PROVE  LET d == tx[c].dip
               written == [row EXCEPT ![d] = tx[c].new]
           IN  /\ tx[c].step = "commit"
               /\ row' = row \/ row' = written
               /\ UNCHANGED <<clock, lastId>>
               /\ faults' \in 0..MaxFaults
               /\ id' = [e \in Dips |-> IF row'[e].status = "absent" /\ e = d THEN 0 ELSE id[e]]
               /\ \A x \in Calls \ {c} : tx'[x] = tx[x] /\ call'[x] = call[x]
               /\ tx' \in [Calls -> Transaction] /\ call' \in [Calls -> CallState]
               /\ tx'[c].entries = {} /\ tx'[c].rows = {} /\ ~tx'[c].gap
               /\ tx'[c].dip = NoDip /\ tx'[c].new = Absent
               /\ call'[c].ask = call[c].ask
               /\ \/ /\ tx'[c].step = "none" /\ call'[c].at = "done"
                     /\ call'[c].answer = d /\ row' = written
                  \/ /\ tx'[c].step = "none" /\ call'[c].at = "error"
                     /\ call'[c].answer = NoDip /\ d # c
                  \/ /\ tx'[c].step = "recover" /\ call' = call /\ d = c /\ row' = row
                  \/ /\ tx'[c].step = "recover" /\ call'[c].at = "committed" /\ d = c
                     /\ call'[c].answer = call[c].answer /\ row' = written
  <1> USE DEF TxInv
  <1> DEFINE d == tx[c].dip
             written == [row EXCEPT ![d] = tx[c].new]
  <1>1. /\ tx[c].step = "commit" /\ UNCHANGED <<clock, lastId>>
        /\ id' = [e \in Dips |-> IF row'[e].status = "absent" /\ e = d THEN 0 ELSE id[e]]
    BY DEF Commit
  <1>2. d \in Dips /\ tx[c] \in Transaction /\ call[c] \in CallState
        /\ call \in [Calls -> CallState] /\ tx \in [Calls -> Transaction]
    BY <1>1, Written DEF TypeOK
  <1>3. faults' \in 0..MaxFaults
    BY FaultType DEF Commit
  <1> DEFINE Rest ==
        /\ \A x \in Calls \ {c} : tx'[x] = tx[x] /\ call'[x] = call[x]
        /\ tx' \in [Calls -> Transaction] /\ call' \in [Calls -> CallState]
        /\ tx'[c].entries = {} /\ tx'[c].rows = {} /\ ~tx'[c].gap
        /\ tx'[c].dip = NoDip /\ tx'[c].new = Absent
        /\ call'[c].ask = call[c].ask
  <1>4. ASSUME NEW at \in {"done", "error"}, NEW answer \in Dips \cup {NoDip}, Ended(c, at, answer)
        PROVE  /\ Rest /\ tx'[c].step = "none"
               /\ call'[c].at = at /\ call'[c].answer = answer
    <2>1. tx' = [tx EXCEPT ![c] = NoTransaction]
          /\ call' = [call EXCEPT ![c] = [call[c] EXCEPT !.at = at, !.answer = answer]]
      BY <1>2, <1>4 DEF Ended
    <2>2. [call[c] EXCEPT !.at = at, !.answer = answer] \in CallState
          /\ [call[c] EXCEPT !.at = at, !.answer = answer].at = at
          /\ [call[c] EXCEPT !.at = at, !.answer = answer].answer = answer
          /\ [call[c] EXCEPT !.at = at, !.answer = answer].ask = call[c].ask
      BY <1>2 DEF CallState, Progress
    <2>3. QED
      BY <1>2, <2>1, <2>2, NoTransactionType DEF NoTransaction
  <1>5. CASE NoFault /\ row' = written /\ Ended(c, "done", d)
    BY <1>1, <1>2, <1>3, <1>4, <1>5
  <1>6. CASE Fault /\ row' \in {row, written} /\ d # c /\ Ended(c, "error", NoDip)
    BY <1>1, <1>3, <1>4, <1>6
  <1>7. CASE /\ Fault /\ row' \in {row, written} /\ d = c
             /\ tx' = [tx EXCEPT ![c] = [NoTransaction EXCEPT !.step = "recover"]]
             /\ call' = IF row' = row THEN call ELSE [call EXCEPT ![c].at = "committed"]
    <2>1. [NoTransaction EXCEPT !.step = "recover"] \in Transaction
      BY NoTransactionType DEF Transaction, Step
    <2>2. [NoTransaction EXCEPT !.step = "recover"].step = "recover"
      BY DEF NoTransaction
    <2>3. tx' \in [Calls -> Transaction] /\ tx'[c] = [NoTransaction EXCEPT !.step = "recover"]
          /\ \A x \in Calls \ {c} : tx'[x] = tx[x]
      BY <1>2, <1>7, <2>1
    <2>4. /\ tx'[c].entries = {} /\ tx'[c].rows = {} /\ ~tx'[c].gap
          /\ tx'[c].dip = NoDip /\ tx'[c].new = Absent /\ tx'[c].step = "recover"
      BY <2>2, <2>3 DEF NoTransaction
    <2>5. CASE row' = row
      BY <1>1, <1>2, <1>3, <1>7, <2>3, <2>4, <2>5
    <2>6. CASE row' # row
      <3>1. row' = written /\ call' = [call EXCEPT ![c] = [call[c] EXCEPT !.at = "committed"]]
        BY <1>2, <1>7, <2>6
      <3>2. [call[c] EXCEPT !.at = "committed"] \in CallState
            /\ [call[c] EXCEPT !.at = "committed"].at = "committed"
            /\ [call[c] EXCEPT !.at = "committed"].answer = call[c].answer
            /\ [call[c] EXCEPT !.at = "committed"].ask = call[c].ask
        BY <1>2 DEF CallState, Progress
      <3>3. /\ call' \in [Calls -> CallState] /\ call'[c] = [call[c] EXCEPT !.at = "committed"]
            /\ \A x \in Calls \ {c} : call'[x] = call[x]
        BY <1>2, <3>1, <3>2
      <3>4. QED
        BY <1>1, <1>3, <1>7, <2>3, <2>4, <3>1, <3>2, <3>3
    <2>7. QED
      BY <2>5, <2>6
  <1>8. QED
    BY <1>5, <1>6, <1>7 DEF Commit

\* An entry of the index that a commit leaves is the same as before.
LEMMA CommitKeeps ==
    ASSUME TxInv, NEW c \in Calls, Commit(c), NEW e \in Dips, id'[e] # 0
    PROVE  id[e] # 0 /\ id'[e] = id[e] /\ DocOf(e)' = DocOf(e)
  <1> USE DEF TxInv
  <1> DEFINE d == tx[c].dip
             written == [row EXCEPT ![d] = tx[c].new]
  <1>1. /\ tx[c].step = "commit"
        /\ row' = row \/ row' = written
        /\ id' = [f \in Dips |-> IF row'[f].status = "absent" /\ f = d THEN 0 ELSE id[f]]
        /\ \A x \in Calls \ {c} : call'[x] = call[x]
        /\ call'[c].ask = call[c].ask
    BY Committed
  <1>2. /\ d \in Dips /\ id[d] # 0 /\ tx[c].new \in Row
        /\ c \notin Deletions => tx[c].new.docKey = DocOf(d)
        /\ c \in Deletions => tx[c].new = Absent
        /\ c \notin Deletions => tx[c].new.status # "absent"
    BY <1>1, Written
  <1>3. /\ row' = written => row'[d] = tx[c].new
        /\ \A f \in Dips \ {d} : row'[f] = row[f]
    BY <1>1, <1>2 DEF TypeOK
  <1> HIDE DEF written
  <1>4. id[e] # 0 /\ id'[e] = id[e]
    BY <1>1, <1>2
  <1>5. CASE e # d
    <2>1. row'[e] = row[e]
      BY <1>3, <1>5
    <2>2. CASE row[e].status = "absent"
      <3>1. Inserting(e)
        BY <1>4, <2>2 DEF Indexed
      <3>2. call'[e].ask = call[e].ask
        BY <1>1, <3>1 DEF Inserting, Calls
      <3>3. QED
        BY <1>4, <2>1, <2>2, <3>2 DEF DocOf
    <2>3. QED
      BY <1>4, <2>1, <2>2 DEF DocOf
  <1>6. CASE e = d
    <2>1. row'[d].status # "absent"
      BY <1>1, <1>2, <1>6
    <2>2. CASE row' = row
      BY <1>4, <1>6, <2>1, <2>2 DEF DocOf
    <2>3. CASE row' = written
      <3>1. c \notin Deletions
        BY <1>2, <1>3, <2>1, <2>3, AbsentType
      <3>2. QED
        BY <1>2, <1>3, <1>4, <1>6, <2>1, <2>3, <3>1 DEF DocOf
    <2>4. QED
      BY <1>1, <2>2, <2>3
  <1>7. QED
    BY <1>5, <1>6

\* A commit makes the work of one call visible, and of no other.
LEMMA StepCommit ==
    ASSUME TxInv, NEW c \in Calls, Commit(c)
    PROVE  TxInv'
  <1> USE DEF TxInv
  <1> DEFINE d == tx[c].dip
             written == [row EXCEPT ![d] = tx[c].new]
  <1>1. /\ tx[c].step = "commit"
        /\ row' = row \/ row' = written
        /\ UNCHANGED <<clock, lastId>> /\ faults' \in 0..MaxFaults
        /\ id' = [e \in Dips |-> IF row'[e].status = "absent" /\ e = d THEN 0 ELSE id[e]]
        /\ \A x \in Calls \ {c} : tx'[x] = tx[x] /\ call'[x] = call[x]
        /\ tx' \in [Calls -> Transaction] /\ call' \in [Calls -> CallState]
    BY Committed
  <1>2. /\ tx'[c].entries = {} /\ tx'[c].rows = {} /\ ~tx'[c].gap
        /\ tx'[c].dip = NoDip /\ tx'[c].new = Absent
        /\ call'[c].ask = call[c].ask /\ tx'[c].step \in {"none", "recover"}
    BY Committed
  <1>3. \/ /\ tx'[c].step = "none" /\ call'[c].at = "done"
           /\ call'[c].answer = d /\ row' = written
        \/ /\ tx'[c].step = "none" /\ call'[c].at = "error"
           /\ call'[c].answer = NoDip /\ d # c
        \/ /\ tx'[c].step = "recover" /\ call' = call /\ d = c /\ row' = row
        \/ /\ tx'[c].step = "recover" /\ call'[c].at = "committed" /\ d = c
           /\ call'[c].answer = call[c].answer /\ row' = written
    BY Committed
  <1>4. /\ d \in Dips /\ d \in tx[c].rows /\ id[d] # 0
        /\ tx[c].new \in Row
        /\ c \notin Deletions => /\ tx[c].new.status # "absent"
                                 /\ tx[c].new.docKey = DocOf(d)
                                 /\ tx[c].new.docKey \in Docs
        /\ c \in Deletions => tx[c].new = Absent
        /\ d # c => row[d].status # "absent"
        /\ d = c => Inserting(c) /\ row[c].status = "absent" /\ tx[c].new.status = "queued"
    BY <1>1, Written
  <1>5. row' \in [Dips -> Row] /\ (row' = written => row'[d] = tx[c].new)
        /\ \A e \in Dips \ {d} : row'[e] = row[e]
    BY <1>1, <1>4 DEF TypeOK
  <1>6. /\ id' \in [Dips -> Nat] /\ id'[d] = (IF row'[d].status = "absent" THEN 0 ELSE id[d])
        /\ \A e \in Dips \ {d} : id'[e] = id[e]
    BY <1>1, <1>4 DEF TypeOK
  <1> HIDE DEF written
  <1>7. TypeOK'
    BY <1>1, <1>5, <1>6 DEF TypeOK
  <1>8. ~Inserting(c)'
    BY <1>2 DEF Inserting
  <1>9. \A x \in Calls \ {c} : Inserting(x)' <=> Inserting(x)
    BY <1>1 DEF Inserting
  <1>10. ~(c \in Deletions /\ d = c)
    BY <1>4, IdAssumption DEF Inserting
  <1>11. \A e \in Dips : id'[e] # 0 => id[e] # 0 /\ DocOf(e)' = DocOf(e)
    BY CommitKeeps
  <1>12. ASSUME NEW x \in Calls \ {c}
         PROVE  CallInv(x)'
    <2>1. KeyOf(x)' = KeyOf(x)
      BY <1>1 DEF KeyOf
    <2>2. Entries(KeyOf(x))' \subseteq Entries(KeyOf(x))
      BY <1>11, <2>1 DEF Entries
    <2>3. d \notin tx[x].rows
      BY <1>4 DEF Exclusive
    <2>4. ASSUME x \in Requests, tx[x].step \in {"insert", "commit"}
          PROVE  row[d].docKey # call[x].ask.doc /\ row'[d].docKey # call[x].ask.doc
      <3>1. Entries(KeyOf(x)) \subseteq tx[x].rows
        BY <2>4 DEF CallInv, Scanned
      <3>2. DocOf(d) # call[x].ask.doc
        BY <1>4, <2>3, <3>1 DEF Entries, KeyOf
      <3>3. call[x].ask.doc \in Docs
        <4>1. Stepping(x) /\ call[x].at \in Progress
          BY DEF CallInv, TypeOK, CallState
        <4>2. AskOK(x)
          BY <2>4, <4>1 DEF Stepping, Progress
        <4>3. QED
          BY <2>4, <4>2 DEF AskOK
      <3>4. row[d].docKey # call[x].ask.doc
        <4>1. CASE row[d].status = "absent"
          BY <1>4, <3>3, <4>1, IdAssumption DEF Indexed
        <4>2. CASE row[d].status # "absent"
          BY <3>2, <4>2 DEF DocOf
        <4>3. QED
          BY <4>1, <4>2
      <3>5. tx[c].new.docKey # call[x].ask.doc
        <4>1. CASE c \in Deletions
          BY <1>4, <3>3, <4>1, AbsentType, IdAssumption
        <4>2. CASE c \notin Deletions
          BY <1>4, <3>2, <4>2
        <4>3. QED
          BY <4>1, <4>2
      <3>6. QED
        BY <1>1, <1>5, <3>4, <3>5
    <2>5. \A e \in Dips : \/ row'[e] = row[e]
                          \/ x \in Requests /\ tx[x].step \notin {"insert", "commit"}
                          \/ x \in Requests /\ row[e].docKey # call[x].ask.doc
                                            /\ row'[e].docKey # call[x].ask.doc
                          \/ x \notin Requests /\ e \notin tx[x].rows
      BY <1>5, <2>3, <2>4
    <2>6. tx'[x] = tx[x] /\ call'[x] = call[x] /\ clock' \in Nat /\ clock <= clock'
      BY <1>1 DEF TypeOK
    <2>7. QED
      BY <2>2, <2>5, <2>6, Frame
  <1>13. CallInv(c)'
    <2>1. Stepping(c)
      BY DEF CallInv
    <2>2. call[c].at = "running" /\ AskOK(c) /\ call[c].answer = NoDip
      <3>1. call[c].at \in Progress
        BY DEF TypeOK, CallState
      <3>2. QED
        BY <1>1, <2>1, <3>1 DEF Stepping, Progress
    <2>3. AskOK(c)'
      BY <1>1, <1>2, <2>2 DEF AskOK
    <2>4. Stepping(c)'
      BY <1>2, <1>3, <1>4, <2>2, <2>3, IdAssumption DEF Stepping, Inserting
    <2>5. Holding(c)' /\ Scanned(c)' /\ Justified(c)'
      BY <1>2, <1>8 DEF Holding, Scanned, Justified
    <2>6. QED
      BY <2>4, <2>5 DEF CallInv
  <1>14. Exclusive'
    <2>1. \A x \in Calls : tx[x].entries \subseteq Dips /\ tx[x].rows \subseteq Dips
      BY DEF TypeOK, Transaction
    <2>2. ASSUME NEW x \in Calls \ {c}, NEW e \in tx[x].entries \cup tx[x].rows
          PROVE  id'[e] # 0
      <3>1. id[e] # 0 /\ e \in Dips
        BY <2>1 DEF Exclusive
      <3>2. CASE e # d
        BY <1>6, <3>1, <3>2
      <3>3. CASE e = d
        <4>1. e \notin tx[x].rows
          BY <1>4, <3>3 DEF Exclusive
        <4>2. d \notin tx[c].entries
          BY <2>2, <3>3, <4>1 DEF Exclusive
        <4>3. c \notin Deletions /\ d # c
          BY <1>1, <1>4, <4>2 DEF CallInv, Holding
        <4>4. row'[d].status # "absent"
          BY <1>1, <1>4, <1>5, <4>3
        <4>5. QED
          BY <1>4, <1>6, <3>3, <4>4
      <3>4. QED
        BY <3>2, <3>3
    <2>3. \A x, y \in Calls : x # y => /\ tx'[x].entries \cap tx'[y].entries = {}
                                       /\ tx'[x].rows \cap tx'[y].rows = {}
      <3>1. \A x, y \in Calls \ {c} : x # y => /\ tx[x].entries \cap tx[y].entries = {}
                                               /\ tx[x].rows \cap tx[y].rows = {}
        BY DEF Exclusive
      <3>2. QED
        BY <1>1, <1>2, <3>1
    <2>4. ASSUME NEW x \in Calls, NEW e \in tx'[x].entries \cup tx'[x].rows
          PROVE  id'[e] # 0
      <3>1. x # c
        BY <1>2, <2>4
      <3>2. tx'[x] = tx[x]
        BY <1>1, <3>1
      <3>3. QED
        BY <2>2, <2>4, <3>1, <3>2
    <2>5. QED
      BY <2>3, <2>4 DEF Exclusive
  <1>15. Indexed'
    <2> SUFFICES ASSUME NEW e \in Dips
                 PROVE  /\ id'[e] # 0 <=> row'[e].status # "absent" \/ Inserting(e)'
                        /\ row'[e].status = "absent" => row'[e].docKey = NoDoc
                        /\ row'[e].status # "absent" => row'[e].docKey \in Docs
                        /\ row'[e].status # "absent" /\ e \in Requests =>
                              call'[e].at \in {"committed", "done", "error"}
      BY DEF Indexed
    <2>1. /\ id[e] # 0 <=> row[e].status # "absent" \/ Inserting(e)
          /\ row[e].status = "absent" => row[e].docKey = NoDoc
          /\ row[e].status # "absent" => row[e].docKey \in Docs
          /\ row[e].status # "absent" /\ e \in Requests =>
                call[e].at \in {"committed", "done", "error"}
      BY DEF Indexed
    <2>2. CASE e # d
      <3>1. Inserting(e)' <=> Inserting(e)
        <4>1. CASE e = c
          <5>1. ~Inserting(c)
            BY <2>2, <4>1 DEF Inserting
          <5>2. QED
            BY <1>8, <4>1, <5>1
        <4>2. CASE e # c
          BY <1>9, <4>2 DEF Inserting, Calls
        <4>3. QED
          BY <4>1, <4>2
      <3>2. e \in Requests /\ row[e].status # "absent" => call'[e].at \in {"committed", "done", "error"}
        <4>1. CASE e = c
          <5>1. call[c].at \notin {"done", "error"} /\ call[c].at # "committed"
            BY <1>1 DEF CallInv, Stepping
          <5>2. QED
            BY <2>1, <4>1, <5>1
        <4>2. CASE e # c
          BY <1>1, <2>1, <4>2 DEF Calls
        <4>3. QED
          BY <4>1, <4>2
      <3>3. QED
        BY <1>5, <1>6, <2>1, <2>2, <3>1, <3>2
    <2>3. CASE e = d
      <3>1. ~Inserting(e)'
        <4>1. CASE e = c
          BY <1>8, <4>1
        <4>2. CASE e # c
          <5>1. Inserting(e) => e \in Calls /\ e \in tx[e].rows
            BY DEF Inserting, Calls, CallInv, Holding
          <5>2. ~Inserting(e)
            BY <1>4, <2>3, <4>2, <5>1 DEF Exclusive
          <5>3. QED
            BY <1>9, <4>2, <5>2 DEF Inserting, Calls
        <4>3. QED
          BY <4>1, <4>2
      <3>2. id'[d] # 0 <=> row'[d].status # "absent"
        BY <1>4, <1>6
      <3>3. /\ row'[d].status = "absent" => row'[d].docKey = NoDoc
            /\ row'[d].status # "absent" => row'[d].docKey \in Docs
        BY <1>1, <1>4, <1>5, <2>1, <2>3, AbsentType
      <3>4. row'[d].status # "absent" /\ d \in Requests =>
                call'[d].at \in {"committed", "done", "error"}
        <4>1. CASE d = c
          BY <1>3, <1>4, <4>1
        <4>2. CASE d # c
          BY <1>1, <1>4, <2>1, <2>3, <4>2 DEF Calls
        <4>3. QED
          BY <4>1, <4>2
      <3>5. QED
        BY <2>3, <3>1, <3>2, <3>3, <3>4
    <2>4. QED
      BY <2>2, <2>3
  <1>16. QED
    BY <1>7, <1>12, <1>13, <1>14, <1>15


(***************************************************************************)
(* The theorems.                                                           *)
(***************************************************************************)
LEMMA StepInv == TxInv /\ [TxNext]_vars => TxInv'
  <1> SUFFICES ASSUME TxInv, [TxNext]_vars
               PROVE  TxInv'
    OBVIOUS
  <1>1. ASSUME NEW c \in Calls, Statement(c)
        PROVE  TxInv'
    <2>1. CASE NotFound(c)
      BY <2>1, StepRollBack DEF NotFound
    <2>2. QED
      BY <1>1, <2>1, StepScanEntry, StepScanRow, StepChoose, StepInsert, StepLockForUpdate,
         StepLockForDelete, StepMarkDeleted, StepCommit, StepRecover DEF Statement
  <1>2. ASSUME NEW c \in Calls, StatementFails(c)
        PROVE  TxInv'
    BY <1>2, StepRollBack DEF StatementFails
  <1>3. ASSUME NEW c \in Calls, Victim(c)
        PROVE  TxInv'
    <2>1. tx[c].step \in {"scan", "insert", "lock", "mark"}
      BY <1>3 DEF Victim, InCycle, Blockers, Blocks
    <2>2. QED
      BY <1>3, <2>1, StepRollBack DEF Victim
  <1>4. CASE UNCHANGED vars
    <2>1. UNCHANGED <<row, call, clock, tx, id, lastId, faults>>
      BY <1>4 DEF vars
    <2>2. \A x \in Calls : Entries(KeyOf(x))' = Entries(KeyOf(x))
      BY <2>1 DEF Entries, KeyOf, DocOf
    <2>3. TypeOK' /\ Exclusive' /\ Indexed'
      BY <2>1 DEF TxInv, TypeOK, Exclusive, Indexed, Inserting
    <2>4. clock' \in Nat /\ clock <= clock'
      BY <2>1 DEF TxInv, TypeOK
    <2>5. \A x \in Calls : CallInv(x)'
      BY <2>1, <2>2, <2>4, Frame
    <2>6. QED
      BY <2>3, <2>5 DEF TxInv
  <1>5. QED
    BY <1>1, <1>2, <1>3, <1>4, StepStart, StepTick DEF TxNext

\* The invariant holds in every reachable state.
THEOREM SpecTxInv == Spec => []TxInv
  BY InitInv, StepInv, PTL DEF Spec

\* Every row, call and transaction has its type: what the statements commit are
\* rows of the schema.
THEOREM SpecTypeOK == Spec => []TypeOK
  <1>1. TxInv => TypeOK
    BY DEF TxInv
  <1>2. QED
    BY <1>1, SpecTxInv, PTL

\* Two requests never both insert a generation of one document, for any number of
\* concurrent calls and however the documents share their index keys.
THEOREM SpecInserterIsAlone == Spec => []InserterIsAlone
  <1>1. TxInv => InserterIsAlone
    <2> SUFFICES ASSUME TxInv, NEW c \in Requests, tx[c].step = "commit", tx[c].dip = c
                 PROVE  /\ \A d \in Dips : ~(row[d].docKey = call[c].ask.doc /\ row[d].status \in Pending)
                        /\ \A e \in Requests \ {c} :
                              ~ /\ tx[e].step = "commit" /\ tx[e].dip = e
                                /\ call[e].ask.doc = call[c].ask.doc
      BY DEF InserterIsAlone
    <2>1. c \in Calls /\ Inserting(c) /\ CallInv(c)
      BY DEF TxInv, Calls, Inserting
    <2>2. PICK ignoreCache \in BOOLEAN, now \in call[c].ask.since..clock :
              Candidates(call[c].ask.doc, ignoreCache, now) = {}
      BY <2>1 DEF CallInv, Justified, InsertJustified
    <2>3. \A d \in Dips : ~(row[d].docKey = call[c].ask.doc /\ row[d].status \in Pending)
      BY <2>2 DEF Candidates, Reusable
    <2>4. ASSUME NEW e \in Requests \ {c}, tx[e].step = "commit", tx[e].dip = e,
                 call[e].ask.doc = call[c].ask.doc
          PROVE  FALSE
      <3>1. e \in Calls /\ Inserting(e) /\ e \in Dips
        BY <2>4 DEF Calls, Inserting, Dips
      <3>2. row[e].status = "absent" /\ id[e] # 0
        BY <2>4, <3>1, Uncommitted DEF TxInv, Indexed
      <3>3. e \in Entries(KeyOf(c))
        BY <2>4, <3>1, <3>2 DEF Entries, KeyOf, DocOf
      <3>4. e \in tx[c].entries
        BY <2>1, <3>3 DEF CallInv, Scanned
      <3>5. e \in tx[e].entries
        BY <3>1 DEF TxInv, CallInv, Holding
      <3>6. QED
        BY <2>1, <2>4, <3>1, <3>4, <3>5 DEF TxInv, Exclusive
    <2>5. QED
      BY <2>3, <2>4
  <1>2. QED
    BY <1>1, SpecTxInv, PTL


\* A call without an effect on the table, seen from the table: it fails, or goes on.
LEMMA FailsAtomically ==
    ASSUME TxInv, NEW c \in Calls, tx[c].step \notin {"none", "recover"},
           Ended(c, "error", NoDip), UNCHANGED <<row, clock>>
    PROVE  Fail(c)
  <1>1. call[c].at = "running" /\ call[c].answer = NoDip /\ call[c] \in CallState
    <2>1. Stepping(c) /\ call[c] \in CallState
      BY DEF TxInv, CallInv, TypeOK
    <2>2. QED
      BY <2>1 DEF Stepping, CallState, Progress
  <1>2. call \in [Calls -> CallState]
    BY DEF TxInv, TypeOK
  <1>3. [call[c] EXCEPT !.at = "error", !.answer = NoDip] = [call[c] EXCEPT !.at = "error"]
    BY <1>1 DEF CallState
  <1>4. call' = [call EXCEPT ![c] = [call[c] EXCEPT !.at = "error", !.answer = NoDip]]
    BY <1>2 DEF Ended
  <1>5. QED
    BY <1>1, <1>3, <1>4 DEF Fail

\* What a request may select or insert now is what Request does.
LEMMA ChoosesAtomically ==
    ASSUME TxInv, NEW c \in Calls, Choose(c)
    PROVE  [Next]_tableVars
  <1> USE DEF TxInv
  <1>1. tx[c].step = "scan" /\ UNCHANGED <<row, clock, id, lastId>>
    BY DEF Choose
  <1> DEFINE doc == call[c].ask.doc
  <1>2. \/ UNCHANGED call
        \/ Ended(c, "error", NoDip)
        \/ \E ignoreCache \in BOOLEAN :
           \E d \in Newest(Candidates(doc, ignoreCache, clock)), retention \in Retentions :
               row[d] = Renewed(row[d], retention, clock) /\ Ended(c, "done", d)
    BY DEF Choose
  <1>3. CASE UNCHANGED call
    BY <1>1, <1>3 DEF tableVars
  <1>4. CASE Ended(c, "error", NoDip)
    BY <1>1, <1>4, FailsAtomically DEF Next
  <1>5. ASSUME NEW ignoreCache \in BOOLEAN,
               NEW d \in Newest(Candidates(doc, ignoreCache, clock)), NEW retention \in Retentions,
               row[d] = Renewed(row[d], retention, clock), Ended(c, "done", d)
        PROVE  Request(c)
    <2>1. c \in Requests /\ d \in Dips
      BY <1>1, Selected DEF TypeOK
    <2>2. call[c].at = "running" /\ AskOK(c) /\ clock \in call[c].ask.since..clock
      <3>1. Stepping(c) /\ call[c] \in CallState /\ clock \in Nat
        BY DEF CallInv, TypeOK
      <3>2. call[c].at = "running" /\ AskOK(c)
        BY <1>1, <3>1 DEF Stepping, CallState, Progress
      <3>3. call[c].ask.since \in Nat
        BY <3>1 DEF CallState, Asked
      <3>4. QED
        BY <3>1, <3>2, <3>3 DEF AskOK
    <2>3. row' = [row EXCEPT ![d] = Renewed(row[d], retention, clock)]
      BY <1>1, <1>5, <2>1 DEF TypeOK
    <2>4. call' = [call EXCEPT ![c].at = "done", ![c].answer = d]
      BY <1>5 DEF Ended
    <2>5. Effect(c, d, Renewed(row[d], retention, clock), d)
      BY <1>1, <2>3, <2>4 DEF Effect
    <2>6. call[c].ask.op = "request"
      BY <2>1, <2>2 DEF AskOK
    <2>7. QED
      BY <2>2, <2>5, <2>6 DEF Request
  <1>6. QED
    BY <1>2, <1>3, <1>4, <1>5 DEF Next

\* The commit of a transaction is the effect of its call, or its failure.
LEMMA CommitsAtomically ==
    ASSUME TxInv, NEW c \in Calls, Commit(c)
    PROVE  [Next]_tableVars
  <1> USE DEF TxInv
  <1> DEFINE d == tx[c].dip
             r == tx[c].new
             written == [row EXCEPT ![d] = r]
  <1>1. tx[c].step = "commit" /\ UNCHANGED clock
    BY DEF Commit
  <1>2. call[c].at = "running" /\ AskOK(c) /\ Justified(c)
    <2>1. Stepping(c) /\ Justified(c) /\ call[c].at \in Progress
      BY DEF CallInv, TypeOK, CallState
    <2>2. QED
      BY <1>1, <2>1 DEF Stepping, Progress
  <1>3. \/ NoFault /\ row' = written /\ Ended(c, "done", d)
        \/ row' = row /\ d # c /\ Ended(c, "error", NoDip)
        \/ row' = written /\ d # c /\ Ended(c, "error", NoDip)
        \/ row' = row /\ d = c /\ call' = call
        \/ row' = written /\ d = c /\ call' = [call EXCEPT ![c].at = "committed"]
    BY DEF Commit
  <1>4. CASE row' = row /\ d # c /\ Ended(c, "error", NoDip)
    BY <1>1, <1>4, FailsAtomically DEF Next
  <1>5. CASE row' = row /\ d = c /\ call' = call
    BY <1>1, <1>5 DEF tableVars
  <1>6. call[c].answer = NoDip /\ call[c] \in CallState /\ call \in [Calls -> CallState]
    <2>1. Stepping(c) /\ call[c] \in CallState /\ call \in [Calls -> CallState]
      BY DEF CallInv, TypeOK
    <2>2. QED
      BY <1>2, <2>1 DEF Stepping
  <1>7. ASSUME row' = written,
               \/ Ended(c, "done", d)
               \/ Ended(c, "error", NoDip)
               \/ call' = [call EXCEPT ![c].at = "committed"]
        PROVE  Effect(c, d, r, d)
    <2>1. CASE Ended(c, "done", d)
      BY <1>1, <1>7, <2>1 DEF Effect, Ended
    <2>2. CASE Ended(c, "error", NoDip)
      BY <1>1, <1>7, <2>2 DEF Effect, Ended
    <2>3. CASE call' = [call EXCEPT ![c].at = "committed"]
      <3>1. [call[c] EXCEPT !.at = "committed"] = [call[c] EXCEPT !.at = "committed", !.answer = NoDip]
        BY <1>6 DEF CallState
      <3>2. call' = [call EXCEPT ![c].at = "committed", ![c].answer = NoDip]
        BY <1>6, <2>3, <3>1
      <3>3. QED
        BY <1>1, <1>7, <3>2 DEF Effect
    <2>4. QED
      BY <1>7, <2>1, <2>2, <2>3
  <1>8. ASSUME Effect(c, d, r, d)
        PROVE  Next
    <2>1. CASE c \in Requests /\ d = c
      <3>1. PICK ignoreCache \in BOOLEAN, now \in call[c].ask.since..clock :
                 /\ Candidates(call[c].ask.doc, ignoreCache, now) = {}
                 /\ r = QueuedRow(call[c].ask.doc, now)
        BY <1>1, <1>2, <2>1 DEF Justified, Inserting, InsertJustified
      <3>2. Effect(c, c, QueuedRow(call[c].ask.doc, now), c)
        BY <1>8, <2>1, <3>1
      <3>3. Request(c)
        BY <1>2, <2>1, <3>1, <3>2 DEF Request, AskOK
      <3>4. QED
        BY <3>3 DEF Next
    <2>2. CASE c \in Requests /\ d # c
      <3>1. PICK ignoreCache \in BOOLEAN, now \in call[c].ask.since..clock,
                 retention \in Retentions :
                 /\ d \in Newest(Candidates(call[c].ask.doc, ignoreCache, now))
                 /\ r = Renewed(row[d], retention, now)
        BY <1>1, <1>2, <2>2 DEF Justified, ReuseJustified
      <3>2. Effect(c, d, Renewed(row[d], retention, now), d)
        BY <1>8, <3>1
      <3>3. Request(c)
        BY <1>2, <2>2, <3>1, <3>2 DEF Request, AskOK
      <3>4. QED
        BY <3>3 DEF Next
    <2>3. CASE c \in Updates
      <3>1. c \notin Requests /\ d = call[c].ask.dip
        BY <1>1, <2>3, IdAssumption DEF CallInv, Holding
      <3>2. PICK now \in call[c].ask.since..clock :
                 r \in UpdatedRows(call[c].ask.op, row[d], now) /\ row[d].status # "absent"
        BY <1>1, <1>2, <2>3 DEF Justified, UpdateJustified
      <3>3. Update(c)
        BY <1>2, <1>8, <2>3, <3>1, <3>2 DEF Update, AskOK
      <3>4. QED
        BY <3>3 DEF Next
    <2>4. CASE c \in Deletions
      <3>1. c \notin Requests /\ d = call[c].ask.dip
        BY <1>1, <2>4, IdAssumption DEF CallInv, Holding
      <3>2. r = Absent /\ row[d].status # "absent"
        BY <1>1, <1>2, <2>4 DEF Justified
      <3>3. Delete(c)
        BY <1>2, <1>8, <2>4, <3>1, <3>2 DEF Delete, AskOK
      <3>4. QED
        BY <3>3 DEF Next
    <2>5. QED
      BY <2>1, <2>2, <2>3, <2>4 DEF Calls
  <1>9. QED
    BY <1>3, <1>4, <1>5, <1>7, <1>8

\* The answer to a commit that got none is read from the table.
LEMMA RecoversAtomically ==
    ASSUME TxInv, NEW c \in Calls, Recover(c)
    PROVE  [Next]_tableVars
  <1> USE DEF TxInv
  <1>1. /\ tx[c].step = "recover" /\ UNCHANGED <<row, clock>>
        /\ \/ row[c].status # "absent" /\ Ended(c, "done", c)
           \/ Ended(c, "error", NoDip)
    BY DEF Recover
  <1>2. /\ c \in Requests /\ c \in Dips /\ Stepping(c)
        /\ call[c] \in CallState /\ call \in [Calls -> CallState]
    <2>1. Stepping(c) /\ call[c] \in CallState /\ call \in [Calls -> CallState]
      BY DEF CallInv, TypeOK
    <2>2. c \in Requests
      BY <1>1, <2>1 DEF Stepping, Calls
    <2>3. QED
      BY <2>1, <2>2 DEF Dips
  <1>3. call[c].at \in {"running", "committed"} /\ AskOK(c) /\ call[c].answer = NoDip
    BY <1>1, <1>2 DEF Stepping, CallState, Progress
  <1>4. call[c].ask.dip = c
    BY <1>2, <1>3 DEF AskOK
  <1>5. CASE row[c].status # "absent" /\ Ended(c, "done", c)
    <2>1. call[c].at = "committed"
      BY <1>2, <1>3, <1>5 DEF Indexed
    <2>2. call' = [call EXCEPT ![c].at = "done", ![c].answer = call[c].ask.dip]
      BY <1>4, <1>5 DEF Ended
    <2>3. Report(c)
      BY <1>1, <2>1, <2>2 DEF Report
    <2>4. QED
      BY <2>3 DEF Next
  <1>6. CASE Ended(c, "error", NoDip)
    <2>1. [call[c] EXCEPT !.at = "error", !.answer = NoDip] = [call[c] EXCEPT !.at = "error"]
      BY <1>2, <1>3 DEF CallState
    <2>2. call' = [call EXCEPT ![c] = [call[c] EXCEPT !.at = "error", !.answer = NoDip]]
      BY <1>2, <1>6 DEF Ended
    <2>3. call' = [call EXCEPT ![c].at = "error"]
      BY <2>1, <2>2
    <2>4. Report(c) \/ Fail(c)
      BY <1>1, <1>3, <2>3 DEF Report, Fail
    <2>5. QED
      BY <2>4 DEF Next
  <1>7. QED
    BY <1>1, <1>5, <1>6

\* The transactions, interleaved statement by statement, are atomic: the ent client
\* implements DipTable.
THEOREM SpecIsAtomic == Spec => IsAtomic
  <1>1. TxInit => Init
    BY DEF TxInit
  <1>2. TxInv /\ [TxNext]_vars => [Next]_tableVars
    <2> SUFFICES ASSUME TxInv, [TxNext]_vars
                 PROVE  [Next]_tableVars
      OBVIOUS
    <2>1. ASSUME NEW c \in Calls, RollBack(c), tx[c].step \notin {"none", "recover"}
          PROVE  Fail(c)
      BY <2>1, FailsAtomically DEF RollBack
    <2>2. ASSUME NEW c \in Calls, Statement(c)
          PROVE  [Next]_tableVars
      <3>1. CASE ScanEntry(c) \/ ScanRow(c) \/ Insert(c) \/ LockForUpdate(c) \/ LockForDelete(c)
                 \/ MarkDeleted(c)
        BY <3>1 DEF ScanEntry, ScanRow, Insert, LockForUpdate, LockForDelete, MarkDeleted, tableVars
      <3>2. CASE NotFound(c)
        BY <2>1, <3>2 DEF NotFound, Next
      <3>3. QED
        BY <2>2, <3>1, <3>2, ChoosesAtomically, CommitsAtomically, RecoversAtomically DEF Statement
    <2>3. ASSUME NEW c \in Calls, StatementFails(c)
          PROVE  Next
      BY <2>1, <2>3 DEF StatementFails, Next
    <2>4. ASSUME NEW c \in Calls, Victim(c)
          PROVE  Next
      <3>1. tx[c].step \in {"scan", "insert", "lock", "mark"}
        BY <2>4 DEF Victim, InCycle, Blockers, Blocks
      <3>2. QED
        BY <2>1, <2>4, <3>1 DEF Victim, Next
    <2>5. ASSUME NEW c \in Calls, Start(c)
          PROVE  Next
      BY <2>5 DEF Start, Next
    <2>6. CASE TxTick
      BY <2>6 DEF TxTick, Next
    <2>7. CASE UNCHANGED vars
      BY <2>7 DEF vars, tableVars
    <2>8. QED
      BY <2>2, <2>3, <2>4, <2>5, <2>6, <2>7 DEF TxNext
  <1>3. QED
    BY <1>1, <1>2, SpecTxInv, PTL DEF Spec, IsAtomic, Atomic

(***************************************************************************)
(* The deadlocks.                                                          *)
(***************************************************************************)

\* A primary key is given out once, and a scan has locked the first entries of its
\* index key.
Numbered ==
    /\ \A d \in Dips : id[d] <= lastId
    /\ \A d, e \in Dips : id[d] = id[e] /\ id[d] # 0 => d = e

InOrder(c) ==
    tx[c].step = "scan" =>
        /\ tx[c].rows \subseteq tx[c].entries
        /\ \A d \in tx[c].entries, e \in Entries(KeyOf(c)) \ tx[c].entries : id[d] < id[e]

OrderInv == TxInv /\ Numbered /\ \A c \in Calls : InOrder(c)

\* A step that changes no primary key and no row.
LEMMA OrderKept ==
    ASSUME OrderInv, NEW x \in Calls, row' = row, id' = id,
           tx'[x].step = "scan" => /\ tx[x].step = "scan" /\ tx'[x].entries = tx[x].entries
                                   /\ call'[x].ask = call[x].ask
                                   /\ tx'[x].rows \in {tx[x].rows, tx[x].entries},
           \A d \in Dips : id[d] # 0 => DocOf(d)' = DocOf(d)
    PROVE  InOrder(x)'
  <1> SUFFICES ASSUME tx'[x].step = "scan"
               PROVE  /\ tx'[x].rows \subseteq tx'[x].entries
                      /\ \A d \in tx'[x].entries, e \in Entries(KeyOf(x))' \ tx'[x].entries :
                            id'[d] < id'[e]
    BY DEF InOrder
  <1>1. Entries(KeyOf(x))' = Entries(KeyOf(x))
    BY DEF Entries, KeyOf
  <1>2. QED
    BY <1>1 DEF OrderInv, InOrder

\* Neither what a call asks for nor its row changes while its entry is in the index.
LEMMA DocKept ==
    ASSUME TxInv, NEW c \in Calls, row' = row,
           \A x \in Calls \ {c} : call'[x] = call[x],
           call'[c].ask = call[c].ask \/ tx[c].step = "none"
    PROVE  \A d \in Dips : id[d] # 0 => DocOf(d)' = DocOf(d)
  <1> SUFFICES ASSUME NEW d \in Dips, id[d] # 0, row[d].status = "absent"
               PROVE  call'[d].ask = call[d].ask
    BY DEF DocOf
  <1>1. Inserting(d)
    BY DEF TxInv, Indexed
  <1>2. QED
    BY <1>1 DEF Inserting, Calls

\* What the statements that insert or remove no entry change.
LEMMA Quiet ==
    ASSUME TxInv, NEW c \in Calls,
           \/ Start(c) \/ ScanRow(c) \/ Choose(c) \/ LockForUpdate(c) \/ LockForDelete(c)
           \/ MarkDeleted(c) \/ NotFound(c) \/ Recover(c) \/ StatementFails(c) \/ Victim(c)
    PROVE  /\ row' = row /\ id' = id /\ lastId' = lastId
           /\ \A x \in Calls \ {c} : tx'[x] = tx[x] /\ call'[x] = call[x]
           /\ call'[c].ask = call[c].ask \/ tx[c].step = "none"
           /\ tx'[c].step = "scan" => \/ tx'[c].entries = {} /\ tx'[c].rows = {}
                                      \/ /\ tx[c].step = "scan" /\ tx'[c].entries = tx[c].entries
                                         /\ call'[c].ask = call[c].ask
                                         /\ tx'[c].rows \in {tx[c].rows, tx[c].entries}
  <1> USE DEF TxInv, TypeOK
  <1>1. CASE Start(c)
    <2>1. tx[c].step = "none" /\ tx[c].entries = {} /\ tx[c].rows = {}
      BY <1>1 DEF Start, BeginCall, CallInv, Stepping, Holding
    <2>2. QED
      BY <1>1, <2>1 DEF Start, BeginCall, Begin, Transaction
  <1>2. CASE ScanRow(c)
    BY <1>2 DEF ScanRow, Transaction
  <1>3. CASE Choose(c)
    <2>1. row' = row /\ id' = id /\ lastId' = lastId
      BY <1>3 DEF Choose
    <2>2. \/ \E d, r : /\ tx' = [tx EXCEPT ![c].step = "commit", ![c].gap = TRUE,
                                         ![c].dip = d, ![c].new = r]
                       /\ UNCHANGED call
          \/ \E d : Ended(c, "done", d) \/ Ended(c, "error", d)
          \/ \E r : /\ tx' = [tx EXCEPT ![c].step = "insert", ![c].gap = TRUE, ![c].new = r]
                    /\ UNCHANGED call
      BY <1>3 DEF Choose
    <2>3. CASE \E d : Ended(c, "done", d) \/ Ended(c, "error", d)
      BY <2>1, <2>3 DEF Ended, NoTransaction, CallState
    <2>4. ASSUME NEW d, NEW r,
                 tx' = [tx EXCEPT ![c].step = "commit", ![c].gap = TRUE, ![c].dip = d, ![c].new = r]
          PROVE  tx'[c].step # "scan" /\ \A x \in Calls \ {c} : tx'[x] = tx[x]
      BY <2>4 DEF Transaction
    <2>5. ASSUME NEW r, tx' = [tx EXCEPT ![c].step = "insert", ![c].gap = TRUE, ![c].new = r]
          PROVE  tx'[c].step # "scan" /\ \A x \in Calls \ {c} : tx'[x] = tx[x]
      BY <2>5 DEF Transaction
    <2>6. QED
      BY <2>1, <2>2, <2>3, <2>4, <2>5
  <1>4. CASE LockForUpdate(c) \/ LockForDelete(c) \/ MarkDeleted(c)
    <2>1. CASE LockForUpdate(c)
      <3>1. /\ row' = row /\ id' = id /\ lastId' = lastId /\ call' = call
            /\ \E d, r : tx' = [tx EXCEPT ![c].step = "commit", ![c].rows = {d}, ![c].dip = d,
                                         ![c].new = r]
        BY <2>1 DEF LockForUpdate
      <3>2. tx'[c].step = "commit" /\ \A x \in Calls \ {c} : tx'[x] = tx[x]
        BY <3>1 DEF Transaction
      <3>3. QED
        BY <3>1, <3>2
    <2>2. CASE LockForDelete(c)
      BY <2>2 DEF LockForDelete, Transaction
    <2>3. CASE MarkDeleted(c)
      BY <2>3 DEF MarkDeleted, Transaction
    <2>4. QED
      BY <1>4, <2>1, <2>2, <2>3
  <1>5. CASE NotFound(c) \/ Recover(c) \/ StatementFails(c) \/ Victim(c)
    BY <1>5 DEF NotFound, Recover, StatementFails, Victim, RollBack, Ended, NoTransaction,
       Transaction, CallState
  <1>6. QED
    BY <1>1, <1>2, <1>3, <1>4, <1>5

\* Steps that insert and commit nothing leave keys and scans in order.
LEMMA QuietOrder ==
    ASSUME OrderInv, NEW c \in Calls,
           \/ Start(c) \/ ScanRow(c) \/ Choose(c) \/ LockForUpdate(c) \/ LockForDelete(c)
           \/ MarkDeleted(c) \/ NotFound(c) \/ Recover(c) \/ StatementFails(c) \/ Victim(c)
    PROVE  Numbered' /\ \A x \in Calls : InOrder(x)'
  <1>1. /\ row' = row /\ id' = id /\ lastId' = lastId
        /\ \A x \in Calls \ {c} : tx'[x] = tx[x] /\ call'[x] = call[x]
        /\ call'[c].ask = call[c].ask \/ tx[c].step = "none"
        /\ tx'[c].step = "scan" => \/ tx'[c].entries = {} /\ tx'[c].rows = {}
                                   \/ /\ tx[c].step = "scan" /\ tx'[c].entries = tx[c].entries
                                      /\ call'[c].ask = call[c].ask
                                      /\ tx'[c].rows \in {tx[c].rows, tx[c].entries}
    BY Quiet DEF OrderInv
  <1>2. \A d \in Dips : id[d] # 0 => DocOf(d)' = DocOf(d)
    BY <1>1, DocKept DEF OrderInv
  <1>3. ASSUME NEW x \in Calls \ {c}
        PROVE  InOrder(x)'
    BY <1>1, <1>2, OrderKept
  <1>4. InOrder(c)'
    <2>1. CASE tx'[c].entries = {} /\ tx'[c].rows = {}
      BY <2>1 DEF InOrder
    <2>2. CASE ~(tx'[c].entries = {} /\ tx'[c].rows = {})
      BY <1>1, <1>2, <2>2, OrderKept
    <2>3. QED
      BY <2>1, <2>2
  <1>5. Numbered'
    BY <1>1 DEF OrderInv, Numbered
  <1>6. QED
    BY <1>3, <1>4, <1>5

\* The scan goes on with the first entry it does not have.
LEMMA ScanOrder ==
    ASSUME OrderInv, NEW c \in Calls, ScanEntry(c)
    PROVE  Numbered' /\ \A x \in Calls : InOrder(x)'
  <1>1. PICK d \in NextEntries(c) : tx' = [tx EXCEPT ![c].entries = @ \cup {d}]
    BY DEF ScanEntry
  <1>2. /\ tx[c].step = "scan" /\ UNCHANGED <<row, call, clock, id, lastId, faults>>
        /\ tx'[c].entries = tx[c].entries \cup {d} /\ tx'[c].rows = tx[c].rows
        /\ \A x \in Calls \ {c} : tx'[x] = tx[x]
    BY <1>1 DEF ScanEntry, OrderInv, TxInv, TypeOK, Transaction
  <1>3. \A e \in Dips : DocOf(e)' = DocOf(e)
    BY <1>2 DEF DocOf
  <1>4. \A x \in Calls \ {c} : InOrder(x)'
    BY <1>2, <1>3, OrderKept
  <1>5. InOrder(c)'
    <2>1. Entries(KeyOf(c))' = Entries(KeyOf(c))
      BY <1>2, <1>3 DEF Entries, KeyOf
    <2>2. ASSUME NEW e \in Entries(KeyOf(c)) \ (tx[c].entries \cup {d})
          PROVE  id[d] < id[e] /\ \A f \in tx[c].entries : id[f] < id[e]
      <3>1. d \in Dips /\ e \in Dips /\ id[d] # 0 /\ id[d] <= id[e] /\ d # e
        BY <2>2 DEF NextEntries, Entries
      <3>2. id[d] # id[e] /\ id[d] \in Nat /\ id[e] \in Nat
        BY <3>1 DEF OrderInv, Numbered, TxInv, TypeOK
      <3>3. QED
        BY <1>2, <2>2, <3>1, <3>2 DEF OrderInv, InOrder
    <2>3. tx[c].rows \subseteq tx[c].entries
      BY <1>2 DEF OrderInv, InOrder
    <2>4. QED
      BY <1>2, <2>1, <2>2, <2>3 DEF InOrder
  <1>6. Numbered'
    BY <1>2 DEF OrderInv, Numbered
  <1>7. QED
    BY <1>4, <1>5, <1>6

\* A new row gets a larger primary key than all entries of the index.
LEMMA InsertOrder ==
    ASSUME OrderInv, NEW c \in Calls, Insert(c)
    PROVE  Numbered' /\ \A x \in Calls : InOrder(x)'
  <1> USE DEF OrderInv
  <1>1. /\ c \in Requests /\ c \in Dips
        /\ lastId \in Nat /\ id \in [Dips -> Nat] /\ tx \in [Calls -> Transaction]
    BY DEF Insert, TxInv, CallInv, Stepping, Calls, Dips, TypeOK
  <1>2. /\ id' = [id EXCEPT ![c] = lastId + 1] /\ lastId' = lastId + 1
        /\ UNCHANGED <<row, call>>
        /\ \A x \in Calls \ {c} : tx'[x] = tx[x]
        /\ tx'[c].step = "commit"
    BY <1>1 DEF Insert, Transaction
  <1>3. /\ \A d \in Dips \ {c} : id'[d] = id[d] /\ id[d] < id'[c] /\ id[d] \in Nat
        /\ id'[c] = lastId + 1
    BY <1>1, <1>2 DEF Numbered
  <1>4. Numbered'
    BY <1>1, <1>2, <1>3 DEF Numbered
  <1>5. ASSUME NEW x \in Calls \ {c}
        PROVE  InOrder(x)'
    <2>1. ASSUME tx[x].step = "scan", NEW d \in tx[x].entries,
                 NEW e \in Entries(KeyOf(x))' \ tx[x].entries
          PROVE  id'[d] < id'[e]
      <3>1. d \in Dips /\ id[d] # 0
        BY <1>1, <2>1 DEF TxInv, Exclusive, Transaction
      <3>2. d # c
        <4>1. tx[c].step = "insert"
          BY DEF Insert
        <4>2. row[c].status = "absent" /\ ~Inserting(c)
          BY <1>1, <4>1, Uncommitted DEF Inserting
        <4>3. QED
          BY <1>1, <3>1, <4>2 DEF TxInv, Indexed
      <3>3. CASE e = c
        BY <1>3, <3>1, <3>2, <3>3
      <3>4. CASE e # c
        <4>1. e \in Entries(KeyOf(x))
          BY <1>2, <1>3, <2>1, <3>4 DEF Entries, KeyOf, DocOf
        <4>2. QED
          BY <1>3, <2>1, <3>1, <3>2, <3>4, <4>1 DEF InOrder, Entries
      <3>5. QED
        BY <3>3, <3>4
    <2>2. QED
      BY <1>2, <2>1 DEF InOrder
  <1>6. InOrder(c)'
    BY <1>2 DEF InOrder
  <1>7. QED
    BY <1>4, <1>5, <1>6

\* A commit takes at most entries out of the index that the transaction holds.
LEMMA CommitOrder ==
    ASSUME OrderInv, NEW c \in Calls, Commit(c)
    PROVE  Numbered' /\ \A x \in Calls : InOrder(x)'
  <1> USE DEF OrderInv
  <1> DEFINE d == tx[c].dip
  <1>1. /\ tx[c].step = "commit" /\ lastId' = lastId
        /\ id' = [e \in Dips |-> IF row'[e].status = "absent" /\ e = d THEN 0 ELSE id[e]]
        /\ \A x \in Calls \ {c} : tx'[x] = tx[x] /\ call'[x] = call[x]
        /\ row' = row \/ row' = [row EXCEPT ![d] = tx[c].new]
        /\ tx'[c].step # "scan"
    BY Committed
  <1>2. /\ d \in Dips
        /\ d # c => row[d].status # "absent"
        /\ c \notin Deletions => tx[c].new.status # "absent"
        /\ lastId \in Nat /\ id \in [Dips -> Nat] /\ row \in [Dips -> Row]
    BY <1>1, Written DEF TxInv, TypeOK
  <1>3. \A e \in Dips : id'[e] # 0 => id[e] # 0 /\ id'[e] = id[e] /\ DocOf(e)' = DocOf(e)
    BY CommitKeeps
  <1>4. Numbered'
    <2>1. \A e \in Dips : id'[e] = id[e] \/ id'[e] = 0
      BY <1>1
    <2>2. QED
      BY <1>1, <1>2, <1>3, <2>1 DEF Numbered
  <1>5. row'[d].status = "absent" => d \in tx[c].entries
    <2>1. CASE c \in Deletions
      BY <1>1, <2>1 DEF TxInv, CallInv, Holding
    <2>2. CASE c \notin Deletions
      <3>1. row'[d].status = "absent" => d = c
        BY <1>1, <1>2, <2>2
      <3>2. d = c => Inserting(c)
        BY <1>1, Written
      <3>3. QED
        BY <3>1, <3>2 DEF TxInv, CallInv, Holding
    <2>3. QED
      BY <2>1, <2>2
  <1>6. ASSUME NEW x \in Calls \ {c}
        PROVE  InOrder(x)'
    <2>1. ASSUME tx[x].step = "scan", NEW e \in tx[x].entries,
                 NEW f \in Entries(KeyOf(x))' \ tx[x].entries
          PROVE  id'[e] < id'[f]
      <3>1. e \in Dips /\ id'[e] = id[e]
        <4>1. e \in Dips
          BY <2>1 DEF TxInv, TypeOK, Transaction
        <4>2. e = d => row'[d].status # "absent"
          BY <1>5, <2>1 DEF TxInv, Exclusive
        <4>3. QED
          BY <1>1, <4>1, <4>2
      <3>2. f \in Dips /\ id'[f] # 0
        BY <2>1 DEF Entries
      <3>3. f \in Entries(KeyOf(x)) /\ id'[f] = id[f]
        BY <1>1, <1>3, <2>1, <3>2 DEF Entries, KeyOf
      <3>4. QED
        BY <2>1, <3>1, <3>3 DEF InOrder
    <2>2. QED
      BY <1>1, <2>1 DEF InOrder
  <1>7. InOrder(c)'
    BY <1>1 DEF InOrder
  <1>8. QED
    BY <1>4, <1>6, <1>7

\* Keys and scans are in order at the start.
LEMMA OrderInit == TxInit => OrderInv
  <1> SUFFICES ASSUME TxInit PROVE OrderInv
    OBVIOUS
  <1>1. TxInv
    BY InitInv
  <1>2. \A c \in Calls : tx[c].step = "none"
    BY DEF TxInit, NoTransaction
  <1>3. \A d \in Dips : id[d] # 0 => d \in OldDips
    <2>1. \A d \in Dips : ~Inserting(d)
      BY <1>2 DEF Inserting, Calls
    <2>2. QED
      BY <1>1, <2>1, AbsentType DEF TxInit, Init, Dips
  <1>4. Numbered
    BY <1>1, <1>3 DEF TxInit, Numbered, TxInv, TypeOK
  <1>5. QED
    BY <1>1, <1>2, <1>4 DEF OrderInv, InOrder

\* Every step leaves keys and scans in order.
LEMMA OrderStep == OrderInv /\ [TxNext]_vars => OrderInv'
  <1> SUFFICES ASSUME OrderInv, [TxNext]_vars
               PROVE  OrderInv'
    OBVIOUS
  <1>1. TxInv'
    BY StepInv DEF OrderInv
  <1>2. ASSUME NEW c \in Calls, Statement(c)
        PROVE  Numbered' /\ \A x \in Calls : InOrder(x)'
    BY <1>2, QuietOrder, ScanOrder, InsertOrder, CommitOrder DEF Statement
  <1>3. ASSUME UNCHANGED <<row, call, tx, id, lastId>>
        PROVE  Numbered' /\ \A x \in Calls : InOrder(x)'
    <2>1. \A d \in Dips : DocOf(d)' = DocOf(d)
      BY <1>3 DEF DocOf
    <2>2. \A x \in Calls : InOrder(x)'
      BY <1>3, <2>1, OrderKept
    <2>3. QED
      BY <1>3, <2>2 DEF OrderInv, Numbered
  <1>4. Numbered' /\ \A x \in Calls : InOrder(x)'
    BY <1>2, <1>3, QuietOrder DEF TxNext, TxTick, Tick, vars
  <1>5. QED
    BY <1>1, <1>4 DEF OrderInv

\* Scans and updates alone make no cycle of waits: a scan never waits for one that has
\* not come further.
LEMMA ScansDoNotMeet ==
    ASSUME OrderInv, NEW S \in SUBSET Calls, IsCycle(S),
           \A x \in S : tx[x].step \notin {"insert", "mark"}
    PROVE  FALSE
  <1> USE DEF OrderInv
  <1>1. \A x \in S : tx[x].step \in {"scan", "lock"} /\ Blockers(x) \cap S # {}
    BY DEF IsCycle, Waiting, Blockers, Blocks
  \* Only a scan holds locks, so that all wait for scans.
  <1>2. ASSUME NEW x \in S, NEW y \in Blockers(x) \cap S
        PROVE  tx[y].step = "scan" /\ y \in Calls /\ y # x /\ Blocks(y, x)
    <2>1. y \in Calls /\ y # x /\ Blocks(y, x)
      BY <1>2 DEF Blockers
    <2>2. tx[y].step = "lock" => tx[y].entries = {} /\ tx[y].rows = {}
      BY <2>1 DEF TxInv, CallInv, Holding
    <2>3. QED
      BY <1>1, <1>2, <2>1, <2>2 DEF Blocks
  <1> DEFINE Scans == {x \in S : tx[x].step = "scan"}
  <1>3. PICK c \in Scans : TRUE
    <2>1. PICK x \in S : TRUE
      BY DEF IsCycle, Waiting
    <2>2. QED
      BY <1>1, <1>2, <2>1
  \* A scan waits for another one for its next entry only, which comes before the
  \* next entry of the other.
  <1>4. ASSUME NEW x \in Scans, NEW y \in Blockers(x) \cap S
        PROVE  \E d \in NextEntries(x) : /\ tx[x].entries = tx[x].rows
                                         /\ \A e \in NextEntries(y) : id[d] < id[e]
    <2>1. /\ y \in Calls /\ x \in Calls /\ x # y /\ tx[y].step = "scan" /\ tx[x].step = "scan"
          /\ Blocks(y, x)
      BY <1>2, <1>4
    <2>2. tx[y].rows \subseteq tx[y].entries /\ tx[x].rows \subseteq tx[x].entries
      BY <2>1 DEF InOrder
    <2>3. (tx[x].entries \ tx[x].rows) \cap tx[y].rows = {}
      BY <2>1, <2>2 DEF TxInv, Exclusive
    <2>4. tx[x].entries = tx[x].rows /\ NextEntries(x) \cap tx[y].entries # {}
      BY <2>1, <2>3 DEF Blocks
    <2>5. PICK d \in NextEntries(x) : d \in tx[y].entries
      BY <2>4
    <2>6. \A e \in NextEntries(y) : id[d] < id[e]
      BY <2>1, <2>5 DEF InOrder, NextEntries
    <2>7. QED
      BY <2>4, <2>5, <2>6
  \* So those that come later than one of them wait for each other.
  <1> DEFINE Later == {x \in Scans : \A d \in NextEntries(c), e \in NextEntries(x) : id[d] < id[e]}
  <1>5. PICK y \in Blockers(c) \cap S : y \in Later
    <2>1. PICK y \in Blockers(c) \cap S : TRUE
      BY <1>1, <1>3
    <2>2. QED
      <3>1. c \in Scans /\ c \in Calls /\ y \in Scans /\ y \in Calls
        BY <1>2, <1>3, <2>1
      <3>2. PICK d \in NextEntries(c) : \A e \in NextEntries(y) : id[d] < id[e]
        BY <1>4, <2>1, <3>1
      <3>3. \A f \in NextEntries(c) : id[f] <= id[d]
        BY <3>2 DEF NextEntries
      <3>4. \A x \in Calls : \A e \in NextEntries(x) : id[e] \in Nat
        BY DEF NextEntries, Entries, TxInv, TypeOK
      <3>5. QED
        BY <2>1, <3>1, <3>2, <3>3, <3>4
  <1>6. Waiting(Later)
    <2>1. ASSUME NEW x \in Later
          PROVE  Blockers(x) \cap Later # {}
      <3>1. PICK z \in Blockers(x) \cap S : TRUE
        BY <1>1, <2>1
      <3>2. z \in Later
        <4>1. /\ x \in Scans /\ z \in Scans /\ x \in Calls /\ z \in Calls /\ c \in Calls
              /\ z \in Blockers(x) \cap S
          BY <1>2, <1>3, <2>1, <3>1
        <4>2. PICK d \in NextEntries(x) : \A e \in NextEntries(z) : id[d] < id[e]
          BY <1>4, <4>1
        <4>3. \A f \in NextEntries(c) : id[f] < id[d]
          BY <2>1, <4>2
        <4>4. \A w \in Calls : \A e \in NextEntries(w) : id[e] \in Nat
          BY DEF NextEntries, Entries, TxInv, TypeOK
        <4>5. QED
          BY <4>1, <4>2, <4>3, <4>4
      <3>3. QED
        BY <3>1, <3>2
    <2>2. QED
      BY <1>5, <2>1 DEF Waiting
  <1>7. c \notin Later
    <2>1. PICK d \in NextEntries(c) : TRUE
      BY <1>3, <1>4, <1>5
    <2>2. ~(id[d] < id[d])
      BY <2>1 DEF NextEntries, Entries, TxInv, TypeOK
    <2>3. QED
      BY <2>1, <2>2
  <1>8. QED
    BY <1>6, <1>7, <1>3 DEF IsCycle

\* The waits of insertions for gaps are among themselves.
LEMMA InsertionsMeet ==
    ASSUME TxInv, NEW S \in SUBSET Calls, IsCycle(S), NEW c \in S, tx[c].step = "insert"
    PROVE  \A x \in S : tx[x].step = "insert"
  <1> DEFINE T == {x \in S : tx[x].step = "insert"}
  <1>1. ASSUME NEW x \in T
        PROVE  Blockers(x) \cap T # {}
    <2>1. PICK y \in Blockers(x) \cap S : TRUE
      BY DEF IsCycle, Waiting
    <2>2. y \in Requests /\ tx[y].gap /\ y \in Calls
      BY <1>1, <2>1 DEF Blockers, Blocks, GapBlocks
    <2>3. tx[y].step \in {"scan", "insert", "lock", "mark"}
      BY <2>1 DEF IsCycle, Waiting, Blockers, Blocks
    <2>4. tx[y].step = "insert"
      BY <2>2, <2>3 DEF TxInv, CallInv, Stepping, Holding
    <2>5. QED
      BY <2>1, <2>4
  <1>2. Waiting(T)
    BY <1>1 DEF Waiting
  <1>3. QED
    BY <1>2 DEF IsCycle

\* A call that does not insert is never the victim of a deadlock, unless a deletion is
\* part of it: for any number of concurrent calls, and documents that share index keys.
THEOREM SpecDeadlocksAreOfInsertions == Spec => []DeadlocksAreOfInsertions
  <1>1. OrderInv => DeadlocksAreOfInsertions
    <2> SUFFICES ASSUME OrderInv, NEW c \in Calls, InCycle(c), tx[c].step # "insert"
                 PROVE  \E x \in Deletions : tx[x].step = "mark" /\ InCycle(x)
      BY DEF DeadlocksAreOfInsertions
    <2>1. PICK S \in SUBSET {x \in Calls : Blockers(x) # {}} : c \in S /\ IsCycle(S)
      BY DEF InCycle
    <2>2. S \in SUBSET Calls /\ \A x \in S : InCycle(x)
      BY <2>1 DEF InCycle
    <2>3. \A x \in S : tx[x].step # "insert"
      BY <2>1, <2>2, InsertionsMeet DEF OrderInv
    <2>4. PICK x \in S : tx[x].step = "mark"
      BY <2>1, <2>2, <2>3, ScansDoNotMeet
    <2>5. x \in Deletions
      BY <2>2, <2>4 DEF OrderInv, TxInv, CallInv, Stepping, Calls
    <2>6. QED
      BY <2>2, <2>4, <2>5
  <1>2. Spec => []OrderInv
    BY OrderInit, OrderStep, PTL DEF Spec
  <1>3. QED
    BY <1>1, <1>2, PTL

(***************************************************************************)
(* The way to the end: each statement is the last, or one further on, and  *)
(* whoever waits does so for a transaction that goes on, or in a cycle.    *)
(***************************************************************************)

\* The statements in their order.
Place == [none |-> 0, scan |-> 1, lock |-> 1, insert |-> 2, mark |-> 2, commit |-> 3, recover |-> 4]

\* The transaction is over, at a later statement, or its scan has locked more.
Farther(c) ==
    \/ tx'[c] = NoTransaction
    \/ Place[tx'[c].step] > Place[tx[c].step]
    \/ /\ tx[c].step = "scan" /\ tx'[c].step = "scan"
       /\ tx[c].entries \subseteq tx'[c].entries /\ tx[c].rows \subseteq tx'[c].rows
       /\ tx'[c].entries # tx[c].entries \/ tx'[c].rows # tx[c].rows

OwnStep(c) == Statement(c) \/ StatementFails(c) \/ Victim(c)

\* The transactions that have begun and not ended.
UnderWay == {c \in Calls : tx[c].step # "none"}

\* Calls that wait only for each other are in a deadlock, at least one of them, and
\* who holds a lock is under way.
WaitsAreFreed ==
    /\ \A c \in Calls : Blockers(c) \subseteq UnderWay
    /\ \A T \in SUBSET UnderWay :
          T # {} /\ (\A c \in T : Blockers(c) \subseteq T)
             => \E c \in T : Blockers(c) = {} \/ InCycle(c)

\* The numbers.
LEMMA PlaceValues ==
    /\ Place["none"] = 0 /\ Place["scan"] = 1 /\ Place["lock"] = 1 /\ Place["insert"] = 2
    /\ Place["mark"] = 2 /\ Place["commit"] = 3 /\ Place["recover"] = 4
BY DEF Place

\* A step of a call is its own, and takes it further.
LEMMA GoesFarther ==
    ASSUME OrderInv, NEW c \in Calls, OwnStep(c)
    PROVE  Farther(c) /\ \A x \in Calls \ {c} : tx'[x] = tx[x]
  <1>1. tx \in [Calls -> Transaction] /\ call \in [Calls -> CallState] /\ tx[c] \in Transaction
    BY DEF OrderInv, TxInv, TypeOK
  <1>2. ASSUME NEW at, NEW answer, Ended(c, at, answer)
        PROVE  Farther(c) /\ \A x \in Calls \ {c} : tx'[x] = tx[x]
    BY <1>1, <1>2 DEF Ended, Farther
  <1>3. CASE NotFound(c) \/ Recover(c) \/ StatementFails(c) \/ Victim(c)
    BY <1>2, <1>3 DEF NotFound, Recover, StatementFails, Victim, RollBack
  <1>4. CASE ScanEntry(c)
    <2>1. PICK d \in NextEntries(c) : tx' = [tx EXCEPT ![c].entries = @ \cup {d}]
      BY <1>4 DEF ScanEntry
    <2>2. d \notin tx[c].entries
      BY <2>1 DEF NextEntries
    <2>3. tx[c].step = "scan" /\ tx'[c] = [tx[c] EXCEPT !.entries = tx[c].entries \cup {d}]
      BY <1>1, <1>4, <2>1 DEF ScanEntry
    <2>4. /\ tx'[c].step = tx[c].step /\ tx'[c].rows = tx[c].rows
          /\ tx'[c].entries = tx[c].entries \cup {d}
      BY <1>1, <2>3 DEF Transaction
    <2>5. QED
      BY <1>1, <2>1, <2>2, <2>3, <2>4 DEF Farther
  <1>5. CASE ScanRow(c)
    <2>1. tx[c].step = "scan" /\ tx[c].entries # tx[c].rows
          /\ tx' = [tx EXCEPT ![c].rows = tx[c].entries]
      BY <1>5 DEF ScanRow
    <2>2. /\ tx'[c].step = tx[c].step /\ tx'[c].rows = tx[c].entries
          /\ tx'[c].entries = tx[c].entries
      BY <1>1, <2>1 DEF Transaction
    <2>3. tx[c].rows \subseteq tx[c].entries
      BY <2>1 DEF OrderInv, InOrder
    <2>4. QED
      BY <1>1, <2>1, <2>2, <2>3 DEF Farther
  <1>6. ASSUME tx'[c].step \in {"insert", "mark", "commit"}, Place[tx'[c].step] > Place[tx[c].step]
        PROVE  Farther(c)
    BY <1>6 DEF Farther
  <1>7. CASE Choose(c)
    <2>1. tx[c].step = "scan"
      BY <1>7 DEF Choose
    <2>2. CASE \E d, r : tx' = [tx EXCEPT ![c].step = "commit", ![c].gap = TRUE,
                                         ![c].dip = d, ![c].new = r]
      <3>1. tx'[c].step = "commit" /\ \A x \in Calls \ {c} : tx'[x] = tx[x]
        BY <1>1, <2>2 DEF Transaction
      <3>2. QED
        BY <2>1, <3>1, PlaceValues DEF Farther
    <2>3. CASE \E r : tx' = [tx EXCEPT ![c].step = "insert", ![c].gap = TRUE, ![c].new = r]
      <3>1. tx'[c].step = "insert" /\ \A x \in Calls \ {c} : tx'[x] = tx[x]
        BY <1>1, <2>3 DEF Transaction
      <3>2. QED
        BY <2>1, <3>1, PlaceValues DEF Farther
    <2>4. CASE \E at, answer : Ended(c, at, answer)
      BY <1>2, <2>4
    <2>5. QED
      BY <1>7, <2>2, <2>3, <2>4 DEF Choose
  <1>8. CASE Insert(c)
    <2>1. tx[c].step = "insert" /\ tx'[c].step = "commit" /\ \A x \in Calls \ {c} : tx'[x] = tx[x]
      BY <1>1, <1>8 DEF Insert, Transaction
    <2>2. QED
      BY <2>1, PlaceValues DEF Farther
  <1>9. CASE LockForUpdate(c)
    <2>1. tx[c].step = "lock" /\ tx'[c].step = "commit" /\ \A x \in Calls \ {c} : tx'[x] = tx[x]
      BY <1>1, <1>9 DEF LockForUpdate, Transaction
    <2>2. QED
      BY <2>1, PlaceValues DEF Farther
  <1>10. CASE LockForDelete(c)
    <2>1. tx[c].step = "lock" /\ tx'[c].step = "mark" /\ \A x \in Calls \ {c} : tx'[x] = tx[x]
      BY <1>1, <1>10 DEF LockForDelete, Transaction
    <2>2. QED
      BY <2>1, PlaceValues DEF Farther
  <1>11. CASE MarkDeleted(c)
    <2>1. tx[c].step = "mark" /\ tx'[c].step = "commit" /\ \A x \in Calls \ {c} : tx'[x] = tx[x]
      BY <1>1, <1>11 DEF MarkDeleted, Transaction
    <2>2. QED
      BY <2>1, PlaceValues DEF Farther
  <1>12. CASE Commit(c)
    <2>1. CASE \E at, answer : Ended(c, at, answer)
      BY <1>2, <2>1
    <2>2. CASE tx' = [tx EXCEPT ![c] = [NoTransaction EXCEPT !.step = "recover"]]
      <3>1. tx'[c].step = "recover" /\ \A x \in Calls \ {c} : tx'[x] = tx[x]
        BY <1>1, <2>2 DEF NoTransaction
      <3>2. tx[c].step = "commit"
        BY <1>12 DEF Commit
      <3>3. QED
        BY <3>1, <3>2, PlaceValues DEF Farther
    <2>3. QED
      BY <1>12, <2>1, <2>2 DEF Commit
  <1>13. QED
    BY <1>3, <1>4, <1>5, <1>7, <1>8, <1>9, <1>10, <1>11, <1>12 DEF OwnStep, Statement

\* So is the first step of a call.
LEMMA StartsAlone ==
    ASSUME TxInv, NEW c \in Calls, Start(c)
    PROVE  \A x \in Calls \ {c} : tx'[x] = tx[x]
BY DEF Start, TxInv, TypeOK

\* A set of waiting calls has a cycle in it: a least set that still waits.
LEMMA WaitsMeet ==
    ASSUME NEW T \in SUBSET Calls, IsFiniteSet(T), Waiting(T)
    PROVE  \E c \in T : InCycle(c)
  <1> DEFINE W == {S \in SUBSET T : Waiting(S)}
  <1>1. W \subseteq FiniteSubsetsOf(T) /\ W # {}
    <2>1. \A S \in SUBSET T : IsFiniteSet(S)
      BY FS_Subset
    <2>2. QED
      BY <2>1 DEF FiniteSubsetsOf
  <1>2. IsWellFoundedOn(StrictSubsetOrdering(T), FiniteSubsetsOf(T))
    BY FS_StrictSubsetOrderingWellFounded
  <1>3. PICK S \in W : \A R \in W : ~(<<R, S>> \in StrictSubsetOrdering(T))
    BY <1>1, <1>2, WFMin
  <1>4. IsCycle(S)
    <2>1. SUFFICES ASSUME NEW R \in SUBSET S, Waiting(R), R # S PROVE FALSE
      BY DEF IsCycle
    <2>2. R \in W /\ S \in SUBSET T /\ R \in SUBSET T
      BY <2>1
    <2>3. <<R, S>> \in StrictSubsetOrdering(T)
      BY <2>1, <2>2 DEF StrictSubsetOrdering
    <2>4. QED
      BY <1>3, <2>2, <2>3
  <1>5. S # {} /\ S \in SUBSET Calls /\ S \subseteq T /\ \A x \in S : Blockers(x) # {}
    BY DEF Waiting
  <1>6. QED
    BY <1>4, <1>5 DEF InCycle

\* Who holds a lock is under way, and so is who waits for it.
LEMMA HoldersAreUnderWay ==
    ASSUME TxInv, NEW c \in Calls, NEW x \in Blockers(c)
    PROVE  c \in UnderWay /\ x \in UnderWay
  <1>1. x \in Calls /\ Blocks(x, c)
    BY DEF Blockers
  <1>2. tx[c].step # "none"
    BY <1>1 DEF Blocks
  <1>3. tx[x].step = "none" => tx[x].entries = {} /\ tx[x].rows = {} /\ ~tx[x].gap
    BY <1>1 DEF TxInv, CallInv, Holding
  <1>4. tx[x].step # "none"
    BY <1>1, <1>3 DEF Blocks, GapBlocks
  <1>5. QED
    BY <1>1, <1>2, <1>4 DEF UnderWay

\* At any time a finite number of calls is under way.
FewAtOnce == IsFiniteSet(UnderWay)

LEMMA FewUnderWay == OrderInv /\ FewAtOnce /\ [TxNext]_vars => FewAtOnce'
  <1> SUFFICES ASSUME OrderInv, IsFiniteSet(UnderWay), [TxNext]_vars
               PROVE  IsFiniteSet(UnderWay')
    BY DEF FewAtOnce
  <1>1. CASE \E c \in Calls : \A x \in Calls \ {c} : tx'[x] = tx[x]
    <2>1. PICK c \in Calls : \A x \in Calls \ {c} : tx'[x] = tx[x]
      BY <1>1
    <2>2. UnderWay' \subseteq UnderWay \cup {c}
      BY <2>1 DEF UnderWay
    <2>3. IsFiniteSet(UnderWay \cup {c})
      BY FS_AddElement
    <2>4. QED
      BY <2>2, <2>3, FS_Subset
  <1>2. CASE \E c \in Calls : Start(c)
    <2>1. \E c \in Calls : \A x \in Calls \ {c} : tx'[x] = tx[x]
      BY <1>2, StartsAlone DEF OrderInv
    <2>2. QED
      BY <1>1, <2>1
  <1>3. CASE \E c \in Calls : OwnStep(c)
    BY <1>1, <1>3, GoesFarther
  <1>4. CASE tx' = tx
    <2>1. UnderWay' = UnderWay
      BY <1>4 DEF UnderWay
    <2>2. QED
      BY <2>1
  <1>5. QED
    BY <1>2, <1>3, <1>4 DEF TxNext, TxTick, vars, OwnStep

\* For any number of calls: each statement of a call is its last, or the next one, or locks
\* another entry or row of its scan, and nobody else touches its transaction; and calls that
\* wait for no one but each other have a deadlock among them, which the database ends.  No
\* wait is for ever, if the calls that do not wait go on.
THEOREM SpecCallsGoOn ==
    Spec => /\ []WaitsAreFreed
            /\ [][\A c \in Calls : /\ OwnStep(c) => Farther(c)
                                   /\ tx'[c] # tx[c] => Start(c) \/ OwnStep(c)]_vars
  <1>1. ASSUME OrderInv, FewAtOnce PROVE WaitsAreFreed
    <2>1. TxInv
      BY <1>1 DEF OrderInv
    <2>2. \A c \in Calls : Blockers(c) \subseteq UnderWay
      BY <2>1, HoldersAreUnderWay
    <2>3. ASSUME NEW T \in SUBSET UnderWay, T # {}, \A c \in T : Blockers(c) \subseteq T
          PROVE  \E c \in T : Blockers(c) = {} \/ InCycle(c)
      <3>1. SUFFICES ASSUME \A c \in T : Blockers(c) # {} PROVE \E c \in T : InCycle(c)
        OBVIOUS
      <3>2. Waiting(T)
        BY <2>3, <3>1 DEF Waiting
      <3>3. T \in SUBSET Calls /\ IsFiniteSet(T)
        BY <1>1, FS_Subset DEF UnderWay, FewAtOnce
      <3>4. QED
        BY <3>2, <3>3, WaitsMeet
    <2>4. QED
      BY <2>2, <2>3 DEF WaitsAreFreed
  <1>2. ASSUME OrderInv, [TxNext]_vars
        PROVE  [\A c \in Calls : /\ OwnStep(c) => Farther(c)
                                 /\ tx'[c] # tx[c] => Start(c) \/ OwnStep(c)]_vars
    <2>1. SUFFICES ASSUME TxNext, NEW c \in Calls, tx'[c] # tx[c] PROVE Start(c) \/ OwnStep(c)
      BY <1>2, GoesFarther
    <2>2. ASSUME NEW x \in Calls, Start(x) PROVE x = c
      BY <1>2, <2>1, <2>2, StartsAlone DEF OrderInv
    <2>3. ASSUME NEW x \in Calls, OwnStep(x) PROVE x = c
      BY <1>2, <2>1, <2>3, GoesFarther
    <2>4. ~TxTick
      BY <2>1 DEF TxTick
    <2>5. QED
      BY <2>1, <2>2, <2>3, <2>4 DEF TxNext, OwnStep
  <1>3. TxInit => FewAtOnce
    <2>1. SUFFICES ASSUME TxInit PROVE UnderWay = {}
      BY FS_EmptySet DEF FewAtOnce
    <2>2. QED
      BY <2>1 DEF TxInit, UnderWay, NoTransaction
  <1>4. Spec => []OrderInv
    BY OrderInit, OrderStep, PTL DEF Spec
  <1>5. Spec => []FewAtOnce
    BY <1>3, <1>4, FewUnderWay, PTL DEF Spec
  <1>6. QED
    BY <1>1, <1>2, <1>4, <1>5, PTL DEF Spec
================================================================================
