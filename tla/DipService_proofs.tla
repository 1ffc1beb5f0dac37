--------------------------- MODULE DipService_proofs ---------------------------
(***************************************************************************)
(* Theorems about DipService for every set of DIPs, documents and calls,   *)
(* every number of attempts and every bound.                               *)
(***************************************************************************)
EXTENDS DipService, TLAPS

(***************************************************************************)
(* The functions of DipRecord.                                             *)
(***************************************************************************)

\* What an update of the workflow does to a row that exists: it keeps the
\* document and the creation time, and a completed row keeps its status and
\* expiry unless it has expired and becomes deleted.
RowUpdate(old, new) ==
    /\ new \in Row
    /\ new.docKey = old.docKey
    /\ new.status # "absent"
    /\ old.status \in Completed =>
          /\ new.expiresAt = old.expiresAt
          /\ \/ new.status = old.status
             \/ old.status = "stored" /\ new.status = "deleted" /\ Expired(old, clock)

\* A renewal changes the expiry only: it moves a finite one forward or lifts it.
LEMMA RenewedRow ==
    ASSUME NEW r \in Row, r.status # "absent",
           NEW retention \in Nat, NEW now \in Nat
    PROVE  /\ Renewed(r, retention, now) \in Row
           /\ Renewed(r, retention, now).status = r.status
           /\ Renewed(r, retention, now).docKey = r.docKey
           /\ Renewed(r, retention, now).hasKey = r.hasKey
           /\ \/ Renewed(r, retention, now).expiresAt = r.expiresAt
              \/ /\ r.expiresAt # Never
                 /\ \/ Renewed(r, retention, now).expiresAt = Never
                    \/ Renewed(r, retention, now).expiresAt > r.expiresAt
  BY DEF Renewed, Row, Never

\* What an update of update-dip does to a row, whatever it was: a completed row
\* keeps its expiry and its status, but for the deletion of an expired one.
LEMMA UpdatedRow ==
    ASSUME TypeOK, NEW d \in Dips, wf[d].pc \in UpdatePC, row[d].status # "absent",
           NEW r \in UpdatedRows(d)
    PROVE  RowUpdate(row[d], r)
  <1>1. row[d] \in Row /\ clock \in Nat /\ wf[d].key \in BOOLEAN
    BY DEF TypeOK, Workflow
  <1>2. CASE wf[d].pc = "initial"
    <2>1. r = InProgressUpdate(row[d])
      BY <1>2 DEF UpdatedRows
    <2>2. QED
      BY <1>1, <2>1 DEF InProgressUpdate, RowUpdate, Row, Status, Pending, Completed
  <1>3. CASE wf[d].pc = "final" /\ wf[d].err
    <2>1. r = FailedUpdate(row[d], wf[d].key)
      BY <1>3 DEF UpdatedRows
    <2>2. QED
      BY <1>1, <2>1 DEF FailedUpdate, RowUpdate, Row, Status, Pending, Completed
  <1>4. CASE wf[d].pc = "final" /\ ~wf[d].err
    <2>1. PICK retention \in Retentions : r = StoredUpdate(row[d], retention, clock)
      BY <1>4 DEF UpdatedRows
    <2> DEFINE e == IF retention > 0 /\ clock + retention > row[d].expiresAt
                    THEN clock + retention ELSE row[d].expiresAt
    <2>2. e \in Nat
      <3>1. row[d].expiresAt \in Nat /\ retention \in Nat /\ clock \in Nat
        BY <1>1, NumberAssumption DEF Row
      <3>2. QED
        BY <3>1
    <2>3. CASE row[d].status \in Completed
      BY <1>1, <2>1, <2>3 DEF StoredUpdate, RowUpdate, Row, Status, Pending, Completed
    <2>4. CASE row[d].status \notin Completed
      <3>1. r = [row[d] EXCEPT !.status = "stored", !.hasKey = TRUE, !.expiresAt = e]
        BY <2>1, <2>4 DEF StoredUpdate
      <3>2. QED
        BY <1>1, <2>2, <2>4, <3>1 DEF RowUpdate, Row, Status, Pending, Completed
    <2>5. QED
      BY <2>3, <2>4
  <1>5. CASE wf[d].pc = "expire"
    <2>1. r = DeletedUpdate(row[d], clock)
      BY <1>5 DEF UpdatedRows
    <2>2. QED
      BY <1>1, <2>1 DEF DeletedUpdate, RowUpdate, Row, Status, Pending, Completed
  <1>6. CASE wf[d].pc = "clear"
    <2>1. r = ClearKeyUpdate(row[d])
      BY <1>6 DEF UpdatedRows
    <2>2. QED
      BY <1>1, <2>1 DEF ClearKeyUpdate, RowUpdate, Row, Status, Pending, Completed
  <1>7. QED
    BY <1>2, <1>3, <1>4, <1>5, <1>6 DEF UpdatePC

(***************************************************************************)
(* Type correctness.                                                       *)
(***************************************************************************)

\* The steps of a workflow lead to workflows.
LEMMA WorkflowAfter ==
    ASSUME TypeOK, NEW d \in Dips, NEW pc \in WfPC, NEW failed \in BOOLEAN
    PROVE  /\ At(d, pc) \in Workflow
           /\ ToFinal(d, failed) \in Workflow
           /\ [ToFinal(d, failed) EXCEPT !.key = TRUE] \in Workflow
           /\ AfterError(d) \in Workflow
           /\ AfterAttempt(d) \in Workflow
  <1>1. wf[d] \in Workflow /\ 1 \in 1..MaxTries
    BY NumberAssumption DEF TypeOK
  <1>2. \A p \in WfPC : At(d, p) \in Workflow
    BY <1>1 DEF At, Workflow, Context
  <1>3. \A f \in BOOLEAN : ToFinal(d, f) \in Workflow
    <2>1. At(d, "final") \in Workflow
      BY <1>2 DEF WfPC
    <2>2. QED
      BY <2>1 DEF ToFinal, Workflow, Canceled
  <1>4. [ToFinal(d, failed) EXCEPT !.key = TRUE] \in Workflow
    BY <1>3 DEF Workflow
  <1>5. AfterError(d) \in Workflow
    <2>1. \A p \in {"delete", "closed"} : [At(d, p) EXCEPT !.err = TRUE] \in Workflow
      BY <1>2, ZenonT(30) DEF Workflow, WfPC
    <2>2. QED
      BY <1>1, <1>3, <2>1 DEF AfterError
  <1>6. AfterAttempt(d) \in Workflow
    <2>1. CASE wf[d].tries < MaxTries
      <3>1. [wf[d] EXCEPT !.tries = wf[d].tries + 1] \in Workflow
        BY <1>1, <2>1, NumberAssumption DEF Workflow
      <3>2. QED
        BY <1>5, <3>1 DEF AfterAttempt
    <2>2. CASE ~(wf[d].tries < MaxTries)
      BY <1>5, <2>2 DEF AfterAttempt
    <2>3. QED
      BY <2>1, <2>2
  <1>7. QED
    BY <1>2, <1>3, <1>4, <1>5, <1>6

\* So do the answers to its updates.
LEMMA WorkflowAfterUpdate ==
    ASSUME TypeOK, NEW d \in Dips, wf[d].pc \in UpdatePC, NEW r \in Row
    PROVE  AfterUpdate(d, r) \in Workflow
  <1>1. wf[d] \in Workflow
    BY DEF TypeOK
  <1>2. \A p \in WfPC : At(d, p) \in Workflow
    BY WorkflowAfter
  <1>3. AfterExpire(d, r) \in Workflow
    <2>1. At(d, "delete") \in Workflow /\ At(d, "closed") \in Workflow
          /\ At(d, "expire") \in Workflow /\ At(d, "sleep") \in Workflow
      BY <1>2 DEF WfPC
    <2>2. [At(d, "sleep") EXCEPT !.until = r.expiresAt] \in Workflow
      BY <2>1 DEF Workflow, Row
    <2>3. [At(d, "closed") EXCEPT !.err = TRUE] \in Workflow
      BY <2>1 DEF Workflow
    <2>4. QED
      BY <2>1, <2>2, <2>3 DEF AfterExpire
  <1>4. CASE wf[d].pc = "final"
    <2> DEFINE p == IF ~wf[d].err THEN "expire" ELSE IF wf[d].key THEN "delete" ELSE "closed"
    <2>1. p \in WfPC
      BY DEF WfPC
    <2>2. [At(d, p) EXCEPT !.saved = TRUE] \in Workflow
      <3>1. At(d, p) \in Workflow
        BY <1>2, <2>1
      <3>2. \A w \in Workflow : [w EXCEPT !.saved = TRUE] \in Workflow
        BY DEF Workflow
      <3>3. QED
        BY <3>1, <3>2
    <2>3. QED
      BY <1>4, <2>2 DEF AfterUpdate
  <1>5. CASE wf[d].pc # "final"
    <2>1. At(d, "generate") \in Workflow /\ At(d, "closed") \in Workflow
      BY <1>2 DEF WfPC
    <2>2. QED
      BY <1>3, <1>5, <2>1 DEF AfterUpdate, UpdatePC
  <1>6. QED
    BY <1>4, <1>5

\* The answer of a handler is one a handler may give.
LEMMA HandlerAfter ==
    ASSUME NEW d \in Dips, NEW r \in Row
    PROVE  Accepted(d, r) \in Handler
  BY DEF Accepted, Handler, Row, ReqPC, Answer

\* Every step keeps the types.
LEMMA TypeStep == TypeOK /\ [Next]_vars => TypeOK'
  <1> SUFFICES ASSUME TypeOK, [Next]_vars
               PROVE  TypeOK'
    OBVIOUS
  <1>1. faults \in Nat /\ (Fault => faults' \in 0..MaxFaults)
        /\ (NoFault => faults' \in 0..MaxFaults)
    BY NumberAssumption DEF TypeOK, Fault, NoFault
  <1>2. ASSUME NEW q \in Requests, Reuse(q)
        PROVE  TypeOK'
    <2>1. PICK doc \in Docs, ignoreCache \in BOOLEAN, retention \in Retentions,
               d \in Dips :
                 /\ d \in Newest(Candidates(doc, ignoreCache))
                 /\ row' = [row EXCEPT ![d] = Renewed(row[d], retention, clock)]
                 /\ \/ NoFault /\ req' = [req EXCEPT ![q] =
                                      Accepted(d, Renewed(row[d], retention, clock))]
                    \/ Fault /\ req' = [req EXCEPT ![q].pc = "error"]
      <3>1. \A doc, ignoreCache : Newest(Candidates(doc, ignoreCache)) \subseteq Dips
        BY DEF Newest, Candidates
      <3>2. QED
        BY <1>2, <3>1 DEF Reuse
    <2>2. d \in Dips /\ row[d] \in Row /\ row[d].status # "absent"
          /\ retention \in Nat /\ clock \in Nat
      BY <2>1, NumberAssumption
         DEF TypeOK, Newest, Candidates, Reusable, Pending
    <2>3. Renewed(row[d], retention, clock) \in Row
      BY <2>2, RenewedRow
    <2>4. row' \in [Dips -> Row]
      BY <2>1, <2>2, <2>3 DEF TypeOK
    <2>5. req' \in [Requests -> Handler]
      <3>1. Accepted(d, Renewed(row[d], retention, clock)) \in Handler
        BY <2>2, <2>3, HandlerAfter
      <3>2. [req[q] EXCEPT !.pc = "error"] \in Handler
        BY DEF TypeOK, Handler, ReqPC
      <3>3. QED
        BY <2>1, <3>1, <3>2 DEF TypeOK
    <2>6. QED
      BY <1>1, <1>2, <2>1, <2>4, <2>5 DEF Reuse, TypeOK
  <1>3. ASSUME NEW q \in Requests, Create(q)
        PROVE  TypeOK'
    <2>1. PICK doc \in Docs, d \in Dips :
                 /\ row' = [row EXCEPT ![d] = QueuedRow(doc, clock)]
                 /\ \/ NoFault /\ req' = [req EXCEPT ![q].pc = "start", ![q].dip = d]
                    \/ Fault /\ req' = [req EXCEPT ![q].pc = "error"]
      BY <1>3 DEF Create
    <2>2. QueuedRow(doc, clock) \in Row
      BY DEF QueuedRow, Row, Status, Pending, Never, TypeOK
    <2>3. [req[q] EXCEPT !.pc = "start", !.dip = d] \in Handler
          /\ [req[q] EXCEPT !.pc = "error"] \in Handler
      BY DEF TypeOK, Handler, ReqPC
    <2>4. QED
      BY <1>1, <1>3, <2>1, <2>2, <2>3, ZenonT(30) DEF Create, TypeOK
  <1>4. ASSUME NEW q \in Requests, RequestFails(q) \/ Crash(q)
        PROVE  TypeOK'
    <2>1. [req[q] EXCEPT !.pc = "error"] \in Handler
          /\ [req[q] EXCEPT !.pc = "crashed"] \in Handler
      BY DEF TypeOK, Handler, ReqPC
    <2>2. QED
      BY <1>1, <1>4, <2>1 DEF RequestFails, Crash, TypeOK
  <1>5. ASSUME NEW q \in Requests, StartWorkflow(q)
        PROVE  TypeOK'
    <2>1. /\ [req[q] EXCEPT !.pc = "accepted", !.answer = "created"] \in Handler
          /\ [req[q] EXCEPT !.pc = "cleanup"] \in Handler
      BY DEF TypeOK, Handler, ReqPC, Answer
    <2>2. req' \in [Requests -> Handler]
      BY <1>5, <2>1 DEF StartWorkflow, TypeOK
    <2>3. [wf EXCEPT ![req[q].dip].pc = "initial"] \in [Dips -> Workflow]
      BY ZenonT(30) DEF TypeOK, Workflow, WfPC
    <2>4. wf' \in [Dips -> Workflow]
      BY <1>5, <2>3 DEF StartWorkflow, TypeOK
    <2>5. QED
      BY <1>1, <1>5, <2>2, <2>4 DEF StartWorkflow, TypeOK
  <1>6. ASSUME NEW q \in Requests, Cleanup(q)
        PROVE  TypeOK'
    <2>1. [req[q] EXCEPT !.pc = "error"] \in Handler
      BY DEF TypeOK, Handler, ReqPC
    <2>2. [row EXCEPT ![req[q].dip] = Absent] \in [Dips -> Row]
      BY DEF TypeOK, Row, Absent, Never
    <2>3. QED
      BY <1>1, <1>6, <2>1, <2>2 DEF Cleanup, TypeOK
  <1>7. ASSUME NEW d \in Dips, UpdateDIP(d)
        PROVE  TypeOK'
    <2>1. PICK r \in UpdatedRows(d) :
            \/ /\ NoFault
               /\ row' = [row EXCEPT ![d] = r]
               /\ wf' = [wf EXCEPT ![d] = AfterUpdate(d, r)]
            \/ /\ Fault
               /\ row' \in {row, [row EXCEPT ![d] = r]}
               /\ wf' = [wf EXCEPT ![d] = AfterAttempt(d)]
      BY <1>7 DEF UpdateDIP
    <2>2. wf[d].pc \in UpdatePC /\ row[d].status # "absent"
      BY <1>7 DEF UpdateDIP
    <2>3. r \in Row
      BY <2>2, UpdatedRow DEF RowUpdate
    <2>4. AfterUpdate(d, r) \in Workflow
      BY <2>2, <2>3, WorkflowAfterUpdate
    <2>5. AfterAttempt(d) \in Workflow
      BY WorkflowAfter DEF WfPC
    <2>6. QED
      BY <1>1, <1>7, <2>1, <2>3, <2>4, <2>5 DEF UpdateDIP, TypeOK
  <1>8. ASSUME NEW d \in Dips, UpdateNotFound(d)
        PROVE  TypeOK'
    BY <1>8, WorkflowAfter DEF UpdateNotFound, TypeOK, WfPC
  <1>9. ASSUME NEW d \in Dips, Generate(d)
        PROVE  TypeOK'
    <2>1. /\ ToFinal(d, TRUE) \in Workflow
          /\ [ToFinal(d, TRUE) EXCEPT !.key = TRUE] \in Workflow
          /\ [ToFinal(d, FALSE) EXCEPT !.key = TRUE] \in Workflow
      BY WorkflowAfter DEF WfPC
    <2>2. QED
      BY <1>9, <2>1 DEF Generate, TypeOK
  <1>10. ASSUME NEW d \in Dips, BucketDelete(d)
         PROVE  TypeOK'
    <2>1. At(d, "clear") \in Workflow /\ AfterAttempt(d) \in Workflow
      BY WorkflowAfter DEF WfPC
    <2>2. QED
      BY <1>1, <1>10, <2>1 DEF BucketDelete, TypeOK
  <1>11. ASSUME NEW d \in Dips, Wake(d)
         PROVE  TypeOK'
    BY <1>11, WorkflowAfter DEF Wake, TypeOK, WfPC
  <1>12. ASSUME NEW d \in Dips, Abandon(d)
         PROVE  TypeOK'
    <2>1. AfterError(d) \in Workflow
      BY WorkflowAfter DEF WfPC
    <2>2. QED
      BY <1>12, <2>1 DEF Abandon, TypeOK
  <1>13. ASSUME NEW d \in Dips, Cancel(d)
         PROVE  TypeOK'
    <2>1. [wf[d] EXCEPT !.ctx = "closing"] \in Workflow
      BY DEF TypeOK, Workflow, Context
    <2>2. QED
      BY <1>13, <2>1 DEF Cancel, TypeOK
  <1>14. CASE Tick
    BY <1>14 DEF Tick, TypeOK
  <1>15. CASE UNCHANGED vars
    BY <1>15 DEF vars, TypeOK
  <1>16. QED
    BY <1>2, <1>3, <1>4, <1>5, <1>6, <1>7, <1>8, <1>9, <1>10, <1>11, <1>12,
       <1>13, <1>14, <1>15 DEF Next, HandlerStep, WorkflowStep

\* The table, the handlers, the workflows, the bucket, the clock and the faults keep
\* their types.
THEOREM TypeCorrect == Spec => []TypeOK
  <1>1. Init => TypeOK
    BY NumberAssumption
       DEF Init, TypeOK, Row, Handler, Workflow, Absent, Status, ReqPC, Answer,
           WfPC, Context, Never
  <1>2. QED
    BY <1>1, TypeStep, PTL DEF Spec

(***************************************************************************)
(* How a step changes the table: not at all, or one row by an insertion, a *)
(* renewal, a deletion or an update of its workflow.                       *)
(***************************************************************************)
Inserts(d, doc) ==
    /\ row[d].status = "absent" /\ wf[d].pc = "none"
    /\ \A e \in Dips : row[e].docKey = doc => row[e].status \notin Pending
    /\ row' = [row EXCEPT ![d] = QueuedRow(doc, clock)]

Renews(d, retention) ==
    /\ row[d].status # "absent"
    /\ row' = [row EXCEPT ![d] = Renewed(row[d], retention, clock)]

Deletes(q) ==
    /\ req[q].pc = "cleanup"
    /\ row' = [row EXCEPT ![req[q].dip] = Absent]

Updates(d, r) ==
    /\ wf[d].pc \in UpdatePC /\ row[d].status # "absent"
    /\ r \in UpdatedRows(d)
    /\ row' = [row EXCEPT ![d] = r]

\* A reusing request renews one row of the table and does nothing else to it.
LEMMA ReuseRenews ==
    ASSUME NEW q \in Requests, Reuse(q)
    PROVE  \E d \in Dips, retention \in Retentions : Renews(d, retention)
  <1>1. \A doc, ignoreCache : \A d \in Newest(Candidates(doc, ignoreCache)) :
           d \in Dips /\ row[d].status # "absent"
    BY DEF Newest, Candidates, Reusable, Pending
  <1>2. PICK doc \in Docs, ignoreCache \in BOOLEAN, retention \in Retentions :
           \E d \in Newest(Candidates(doc, ignoreCache)) :
              row' = [row EXCEPT ![d] = Renewed(row[d], retention, clock)]
    BY DEF Reuse
  <1>3. QED
    BY <1>1, <1>2, ZenonT(30) DEF Renews

\* Every step leaves the table alone or does one of the four things to one row.
LEMMA RowStep ==
    ASSUME TypeOK, [Next]_vars
    PROVE  \/ row' = row
           \/ \E d \in Dips, doc \in Docs : Inserts(d, doc)
           \/ \E d \in Dips, retention \in Retentions : Renews(d, retention)
           \/ \E q \in Requests : Deletes(q)
           \/ \E d \in Dips : \E r \in UpdatedRows(d) : Updates(d, r)
  <1>1. ASSUME NEW q \in Requests, Reuse(q)
        PROVE  \E d \in Dips, retention \in Retentions : Renews(d, retention)
    BY <1>1, ReuseRenews
  <1>2. ASSUME NEW q \in Requests, Create(q)
        PROVE  \E d \in Dips, doc \in Docs : Inserts(d, doc)
    <2>1. PICK doc \in Docs, ignoreCache \in BOOLEAN, d \in Dips :
             /\ Candidates(doc, ignoreCache) = {}
             /\ Fresh(d)
             /\ row' = [row EXCEPT ![d] = QueuedRow(doc, clock)]
      BY <1>2 DEF Create
    <2>2. \A e \in Dips : row[e].docKey = doc => row[e].status \notin Pending
      BY <2>1 DEF Candidates, Reusable
    <2>3. QED
      BY <2>1, <2>2 DEF Inserts, Fresh
  <1>3. ASSUME NEW q \in Requests, Cleanup(q)
        PROVE  row' = row \/ Deletes(q)
    BY <1>3 DEF Cleanup, Deletes
  <1>4. ASSUME NEW d \in Dips, UpdateDIP(d)
        PROVE  row' = row \/ \E r \in UpdatedRows(d) : Updates(d, r)
    BY <1>4 DEF UpdateDIP, Updates
  <1>5. ASSUME NEW q \in Requests, RequestFails(q) \/ StartWorkflow(q) \/ Crash(q)
        PROVE  row' = row
    BY <1>5 DEF RequestFails, StartWorkflow, Crash
  <1>6. ASSUME NEW d \in Dips, \/ UpdateNotFound(d) \/ Generate(d) \/ BucketDelete(d)
                               \/ Wake(d) \/ Abandon(d) \/ Cancel(d)
        PROVE  row' = row
    BY <1>6 DEF UpdateNotFound, Generate, BucketDelete, Wake, Abandon, Cancel
  <1>7. CASE Tick \/ UNCHANGED vars
    BY <1>7 DEF Tick, vars
  <1>8. QED
    BY <1>1, <1>2, <1>3, <1>4, <1>5, <1>6, <1>7 DEF Next, HandlerStep, WorkflowStep

(***************************************************************************)
(* A document never has two pending generations.                           *)
(***************************************************************************)

\* RequestDIP never lets a document have two queued or running generations, whatever
\* the number of requests, workflows, retries and lost calls.
THEOREM SpecOneGeneration == Spec => []OneGenerationPerDocument
  <1>1. Init => OneGenerationPerDocument
    <2>1. Init => \A d \in Dips : row[d].status = "absent"
      BY DEF Init, Absent
    <2>2. QED
      BY <2>1 DEF OneGenerationPerDocument, Pending
  <1>2. TypeOK /\ OneGenerationPerDocument /\ [Next]_vars => OneGenerationPerDocument'
    <2> SUFFICES ASSUME TypeOK, OneGenerationPerDocument, [Next]_vars
                 PROVE  OneGenerationPerDocument'
      OBVIOUS
    <2>1. CASE row' = row
      BY <2>1 DEF OneGenerationPerDocument
    <2>2. ASSUME NEW d \in Dips, NEW doc \in Docs, Inserts(d, doc)
          PROVE  OneGenerationPerDocument'
      BY <2>2 DEF Inserts, QueuedRow, OneGenerationPerDocument, TypeOK
    <2>3. ASSUME NEW d \in Dips, NEW retention \in Retentions, Renews(d, retention)
          PROVE  OneGenerationPerDocument'
      <3>1. /\ Renewed(row[d], retention, clock).status = row[d].status
            /\ Renewed(row[d], retention, clock).docKey = row[d].docKey
        BY <2>3, RenewedRow, NumberAssumption DEF Renews, TypeOK
      <3>2. \A e \in Dips : row'[e].status = row[e].status /\ row'[e].docKey = row[e].docKey
        BY <2>3, <3>1 DEF Renews, TypeOK
      <3>3. QED
        BY <3>2 DEF OneGenerationPerDocument
    <2>4. ASSUME NEW q \in Requests, Deletes(q)
          PROVE  OneGenerationPerDocument'
      BY <2>4 DEF Deletes, Absent, Pending, OneGenerationPerDocument, TypeOK
    <2>5. ASSUME NEW d \in Dips, NEW r \in UpdatedRows(d), Updates(d, r)
          PROVE  OneGenerationPerDocument'
      <3>1. RowUpdate(row[d], r) /\ row[d] \in Row /\ row[d].status # "absent"
        BY <2>5, UpdatedRow DEF Updates, TypeOK
      <3>2. r.docKey = row[d].docKey /\ (r.status \in Pending => row[d].status \in Pending)
        BY <3>1 DEF RowUpdate, Row, Status, Pending, Completed
      <3>3. \A e \in Dips : /\ row'[e].docKey = row[e].docKey
                            /\ row'[e].status \in Pending => row[e].status \in Pending
        BY <2>5, <3>2 DEF Updates, TypeOK
      <3>4. QED
        BY <3>3 DEF OneGenerationPerDocument
    <2>6. QED
      BY <2>1, <2>2, <2>3, <2>4, <2>5, RowStep
  <1>3. QED
    BY <1>1, <1>2, TypeCorrect, PTL DEF Spec

(***************************************************************************)
(* Completed generations and their expiry.                                 *)
(***************************************************************************)

\* The step a completed row may take.
LEMMA CompletedRowStep ==
    ASSUME TypeOK, [Next]_vars, NEW d \in Dips, row[d].status \in Completed
    PROVE  \/ row'[d].status = "absent"
           \/ /\ \/ row'[d].status = row[d].status
                 \/ /\ row[d].status = "stored" /\ row'[d].status = "deleted"
                    /\ Expired(row[d], clock)
              /\ \/ row'[d].expiresAt = row[d].expiresAt
                 \/ /\ row[d].expiresAt # Never
                    /\ \/ row'[d].expiresAt = Never
                       \/ row'[d].expiresAt > row[d].expiresAt
  <1>1. row[d] \in Row /\ row[d].status # "absent"
    BY DEF TypeOK, Completed
  <1>2. CASE row' = row
    BY <1>2
  <1>3. ASSUME NEW e \in Dips, NEW doc \in Docs, Inserts(e, doc)
        PROVE  row'[d] = row[d]
    BY <1>1, <1>3 DEF Inserts, TypeOK
  <1>4. ASSUME NEW e \in Dips, NEW retention \in Retentions, Renews(e, retention)
        PROVE  \/ row'[d] = row[d]
               \/ row'[d] = Renewed(row[d], retention, clock)
    BY <1>4 DEF Renews, TypeOK
  <1>5. ASSUME NEW q \in Requests, Deletes(q)
        PROVE  row'[d] = row[d] \/ row'[d].status = "absent"
    BY <1>5 DEF Deletes, Absent, TypeOK
  <1>6. ASSUME NEW e \in Dips, NEW r \in UpdatedRows(e), Updates(e, r)
        PROVE  row'[d] = row[d] \/ RowUpdate(row[d], row'[d])
    <2>1. RowUpdate(row[e], r)
      BY <1>6, UpdatedRow DEF Updates
    <2>2. QED
      BY <1>6, <2>1 DEF Updates, TypeOK
  <1>7. ASSUME NEW retention \in Retentions, row'[d] = Renewed(row[d], retention, clock)
        PROVE  /\ row'[d].status = row[d].status
               /\ \/ row'[d].expiresAt = row[d].expiresAt
                  \/ /\ row[d].expiresAt # Never
                     /\ \/ row'[d].expiresAt = Never
                        \/ row'[d].expiresAt > row[d].expiresAt
    BY <1>1, <1>7, RenewedRow, NumberAssumption DEF TypeOK
  <1>8. QED
    BY <1>2, <1>3, <1>4, <1>5, <1>6, <1>7, RowStep DEF RowUpdate

\* No late, repeated or uncertain update revives or relabels a completed DIP.
THEOREM SpecCompletedIsFinal == Spec => CompletedIsFinal
  <1>1. TypeOK /\ [Next]_vars =>
          [\A d \in Dips :
             row[d].status \in Completed /\ row'[d].status # row[d].status =>
                 \/ row'[d].status = "absent"
                 \/ /\ row[d].status = "stored" /\ row'[d].status = "deleted"
                    /\ Expired(row[d], clock)]_vars
    BY CompletedRowStep
  <1>2. QED
    BY <1>1, TypeCorrect, PTL DEF Spec, CompletedIsFinal

\* Neither a renewal nor a repeated final update takes an expiry back.
THEOREM SpecExpiryNeverShortened == Spec => ExpiryNeverShortened
  <1>1. TypeOK /\ [Next]_vars =>
          [\A d \in Dips :
             row[d].status = "stored" /\ row'[d].status = "stored" =>
                 \/ row'[d].expiresAt = Never
                 \/ row[d].expiresAt # Never
                    /\ row'[d].expiresAt >= row[d].expiresAt]_vars
    <2> SUFFICES ASSUME TypeOK, [Next]_vars, NEW d \in Dips,
                        row[d].status = "stored", row'[d].status = "stored"
                 PROVE  \/ row'[d].expiresAt = Never
                        \/ row[d].expiresAt # Never
                           /\ row'[d].expiresAt >= row[d].expiresAt
      OBVIOUS
    <2>1. row[d] \in Row /\ row[d].expiresAt \in Nat
      BY DEF TypeOK, Row
    <2>2. \/ row'[d].expiresAt = row[d].expiresAt
          \/ /\ row[d].expiresAt # Never
             /\ \/ row'[d].expiresAt = Never
                \/ row'[d].expiresAt > row[d].expiresAt
      BY CompletedRowStep DEF Completed
    <2>3. TypeOK'
      BY TypeStep
    <2>4. row'[d].expiresAt \in Nat
      BY <2>3 DEF TypeOK, Row
    <2>5. QED
      BY <2>1, <2>2, <2>4
  <1>2. QED
    BY <1>1, TypeCorrect, PTL DEF Spec, ExpiryNeverShortened

(***************************************************************************)
(* A handler about to start a workflow is the only one to do so for its    *)
(* DIP, and the first.                                                     *)
(***************************************************************************)
OwnInv ==
    \A q \in Requests :
        req[q].pc = "start" =>
            /\ req[q].dip \in Dips /\ wf[req[q].dip].pc = "none"
            /\ \A p \in Requests : p # q /\ req[p].pc = "start" => req[p].dip # req[q].dip

\* Every step keeps the ownership of the rows whose workflow is not started yet.
LEMMA OwnStep == TypeOK /\ OwnInv /\ [Next]_vars => OwnInv'
  <1> SUFFICES ASSUME TypeOK, OwnInv, [Next]_vars
               PROVE  OwnInv'
    OBVIOUS
  <1>1. ASSUME NEW q \in Requests, Create(q)
        PROVE  OwnInv'
    <2>1. PICK d \in Dips :
             /\ Fresh(d)
             /\ \/ req' = [req EXCEPT ![q].pc = "start", ![q].dip = d]
                \/ req' = [req EXCEPT ![q].pc = "error"]
      BY <1>1 DEF Create
    <2>2. wf' = wf
      BY <1>1 DEF Create
    <2>3. CASE req' = [req EXCEPT ![q].pc = "error"]
      BY <2>2, <2>3 DEF OwnInv, TypeOK, Handler
    <2>4. CASE req' = [req EXCEPT ![q].pc = "start", ![q].dip = d]
      <3>1. /\ req'[q].pc = "start" /\ req'[q].dip = d
            /\ \A p \in Requests : p # q => req'[p] = req[p]
        BY <2>4 DEF TypeOK, Handler
      <3>2. wf[d].pc = "none" /\ \A p \in Requests : req[p].dip # d
        BY <2>1 DEF Fresh
      <3>3. QED
        BY <2>2, <3>1, <3>2 DEF OwnInv
    <2>5. QED
      BY <2>1, <2>3, <2>4
  <1>2. ASSUME NEW q \in Requests, StartWorkflow(q)
        PROVE  OwnInv'
    <2>1. wf' \in {wf, [wf EXCEPT ![req[q].dip].pc = "initial"]}
      BY <1>2 DEF StartWorkflow
    <2>2. req'[q].pc \in {"accepted", "cleanup"}
          /\ \A p \in Requests : p # q => req'[p] = req[p]
      BY <1>2 DEF StartWorkflow, TypeOK, Handler
    <2>3. ASSUME NEW p \in Requests, p # q, req[p].pc = "start"
          PROVE  wf'[req[p].dip] = wf[req[p].dip]
      BY <1>2, <2>1, <2>3 DEF StartWorkflow, OwnInv, TypeOK
    <2>4. QED
      BY <2>2, <2>3 DEF OwnInv
  <1>3. ASSUME NEW q \in Requests,
               Reuse(q) \/ RequestFails(q) \/ Cleanup(q) \/ Crash(q)
        PROVE  OwnInv'
    <2>1. wf' = wf
      BY <1>3 DEF Reuse, RequestFails, Cleanup, Crash
    <2>2. req'[q].pc # "start" /\ \A p \in Requests : p # q => req'[p] = req[p]
      <3>1. \A d, r : Accepted(d, r).pc = "accepted"
        BY DEF Accepted
      <3>2. CASE Reuse(q)
        <4>1. \/ \E d, r : req' = [req EXCEPT ![q] = Accepted(d, r)]
              \/ req' = [req EXCEPT ![q].pc = "error"]
          BY <3>2 DEF Reuse
        <4>2. QED
          BY <3>1, <4>1 DEF TypeOK, Handler
      <3>3. CASE RequestFails(q) \/ Cleanup(q) \/ Crash(q)
        BY <3>3 DEF RequestFails, Cleanup, Crash, TypeOK, Handler
      <3>4. QED
        BY <1>3, <3>2, <3>3
    <2>3. QED
      BY <2>1, <2>2 DEF OwnInv
  <1>4. ASSUME NEW d \in Dips, WorkflowStep(d) \/ Cancel(d)
        PROVE  OwnInv'
    <2>1. wf[d].pc # "none" /\ req' = req
      BY <1>4 DEF WorkflowStep, Cancel, UpdateDIP, UpdateNotFound, Generate,
                  BucketDelete, Wake, Abandon, UpdatePC
    <2>2. \A e \in Dips : e # d => wf'[e] = wf[e]
      BY <1>4 DEF WorkflowStep, Cancel, UpdateDIP, UpdateNotFound, Generate,
                  BucketDelete, Wake, Abandon, TypeOK
    <2>3. QED
      BY <2>1, <2>2 DEF OwnInv
  <1>5. CASE Tick \/ UNCHANGED vars
    BY <1>5 DEF Tick, vars, OwnInv
  <1>6. QED
    BY <1>1, <1>2, <1>3, <1>4, <1>5 DEF Next, HandlerStep

(***************************************************************************)
(* The object key of a completed row outlives the object.  The invariant   *)
(* ties the bucket to the workflow: an object appears in the generation    *)
(* only, with state.objectKey set, while the row is not completed, and it  *)
(* is gone when the key is about to be cleared.                            *)
(***************************************************************************)
KeyInv ==
    \A d \in Dips :
        /\ object[d] => wf[d].key
        /\ wf[d].pc \in {"none", "initial", "generate"} =>
              ~object[d] /\ row[d].status \notin Completed
        /\ wf[d].pc = "clear" => ~object[d]
        /\ row[d].status \in Completed /\ object[d] => row[d].hasKey

\* Where the workflow goes, and that it keeps its key.
LEMMA WorkflowMoves ==
    ASSUME TypeOK, NEW d \in Dips
    PROVE  /\ \A pc : At(d, pc).key = wf[d].key /\ At(d, pc).pc = pc
           /\ \A failed : /\ ToFinal(d, failed).key = wf[d].key
                          /\ ToFinal(d, failed).pc = "final"
           /\ AfterError(d).key = wf[d].key
           /\ AfterError(d).pc \in {"final", "delete", "closed"}
           /\ AfterAttempt(d).key = wf[d].key
           /\ AfterAttempt(d).pc \in {"final", "delete", "closed", wf[d].pc}
           /\ wf[d].pc \in UpdatePC => \A r :
                 /\ AfterUpdate(d, r).key = wf[d].key
                 /\ AfterUpdate(d, r).pc \in IF wf[d].pc = "initial" THEN {"generate"}
                                             ELSE {"expire", "sleep", "delete", "closed"}
  <1>1. wf[d] \in Workflow
    BY DEF TypeOK
  <1>2. \A pc : At(d, pc).key = wf[d].key /\ At(d, pc).pc = pc /\ DOMAIN At(d, pc) = DOMAIN wf[d]
    BY <1>1 DEF At, Workflow
  <1>3. \A failed : ToFinal(d, failed).key = wf[d].key /\ ToFinal(d, failed).pc = "final"
    BY <1>1, <1>2 DEF ToFinal, Workflow
  <1>4. \A pc : [At(d, pc) EXCEPT !.err = TRUE].key = wf[d].key
              /\ [At(d, pc) EXCEPT !.err = TRUE].pc = pc
    BY <1>1, <1>2 DEF Workflow
  <1>5. AfterError(d).key = wf[d].key /\ AfterError(d).pc \in {"final", "delete", "closed"}
    BY <1>3, <1>4 DEF AfterError
  <1>6. AfterAttempt(d).key = wf[d].key
        /\ AfterAttempt(d).pc \in {"final", "delete", "closed", wf[d].pc}
    BY <1>1, <1>5 DEF AfterAttempt, Workflow
  <1>7. ASSUME NEW r
        PROVE  /\ AfterExpire(d, r).key = wf[d].key
               /\ AfterExpire(d, r).pc \in {"expire", "sleep", "delete", "closed"}
    <2>1. [At(d, "sleep") EXCEPT !.until = r.expiresAt].key = wf[d].key
          /\ [At(d, "sleep") EXCEPT !.until = r.expiresAt].pc = "sleep"
      BY <1>1, <1>2 DEF Workflow
    <2>2. QED
      BY <1>2, <1>4, <2>1 DEF AfterExpire
  <1>8. ASSUME wf[d].pc \in UpdatePC, NEW r
        PROVE  /\ AfterUpdate(d, r).key = wf[d].key
               /\ AfterUpdate(d, r).pc \in IF wf[d].pc = "initial" THEN {"generate"}
                                           ELSE {"expire", "sleep", "delete", "closed"}
    <2>1. \A pc : [At(d, pc) EXCEPT !.saved = TRUE].key = wf[d].key
                /\ [At(d, pc) EXCEPT !.saved = TRUE].pc = pc
      BY <1>1, <1>2 DEF Workflow
    <2>2. QED
      BY <1>2, <1>7, <1>8, <2>1 DEF AfterUpdate, UpdatePC
  <1>9. QED
    BY <1>2, <1>3, <1>5, <1>6, <1>8

\* An update leaves no archive without the key of a completed row.
LEMMA UpdatedKey ==
    ASSUME TypeOK, KeyInv, NEW d \in Dips, wf[d].pc \in UpdatePC,
           row[d].status # "absent", NEW r \in UpdatedRows(d)
    PROVE  /\ wf[d].pc = "initial" => r.status \notin Completed
           /\ object[d] /\ r.status \in Completed => r.hasKey
  <1>1. row[d] \in Row /\ (object[d] => wf[d].key = TRUE)
        /\ (wf[d].pc \in {"none", "initial", "generate"} =>
              ~object[d] /\ row[d].status \notin Completed)
        /\ (wf[d].pc = "clear" => ~object[d])
        /\ (row[d].status \in Completed /\ object[d] => row[d].hasKey)
    BY DEF TypeOK, KeyInv, Workflow
  <1>2. CASE wf[d].pc = "initial"
    <2>1. r = InProgressUpdate(row[d])
      BY <1>2 DEF UpdatedRows
    <2>2. QED
      BY <1>1, <1>2, <2>1 DEF InProgressUpdate, Row, Completed
  <1>3. CASE wf[d].pc = "final" /\ wf[d].err
    <2>1. r = FailedUpdate(row[d], wf[d].key)
      BY <1>3 DEF UpdatedRows
    <2>2. QED
      BY <1>1, <1>3, <2>1 DEF FailedUpdate, Row
  <1>4. CASE wf[d].pc = "final" /\ ~wf[d].err
    <2>1. PICK retention \in Retentions : r = StoredUpdate(row[d], retention, clock)
      BY <1>4 DEF UpdatedRows
    <2>2. r = row[d] \/ r.hasKey
      BY <1>1, <2>1 DEF StoredUpdate, Row
    <2>3. QED
      BY <1>1, <1>4, <2>2
  <1>5. CASE wf[d].pc = "expire"
    <2>1. r = DeletedUpdate(row[d], clock)
      BY <1>5 DEF UpdatedRows
    <2>2. QED
      BY <1>1, <1>5, <2>1 DEF DeletedUpdate, Row, Completed
  <1>6. CASE wf[d].pc = "clear"
    BY <1>1, <1>6
  <1>7. QED
    BY <1>2, <1>3, <1>4, <1>5, <1>6 DEF UpdatePC

\* Every step keeps the key next to the archive.
LEMMA KeyStep == TypeOK /\ OwnInv /\ KeyInv /\ [Next]_vars => KeyInv'
  <1> SUFFICES ASSUME TypeOK, OwnInv, KeyInv, [Next]_vars
               PROVE  KeyInv'
    OBVIOUS
  <1>1. ASSUME NEW q \in Requests, Reuse(q)
        PROVE  KeyInv'
    <2>1. PICK d \in Dips, retention \in Retentions : Renews(d, retention)
      BY <1>1, ReuseRenews
    <2>2. /\ Renewed(row[d], retention, clock).status = row[d].status
          /\ Renewed(row[d], retention, clock).hasKey = row[d].hasKey
      BY <2>1, RenewedRow, NumberAssumption DEF Renews, TypeOK
    <2>3. \A e \in Dips : row'[e].status = row[e].status /\ row'[e].hasKey = row[e].hasKey
      BY <2>1, <2>2 DEF Renews, TypeOK
    <2>4. QED
      BY <1>1, <2>3 DEF Reuse, KeyInv
  <1>2. ASSUME NEW q \in Requests, Create(q)
        PROVE  KeyInv'
    <2>1. PICK d \in Dips, doc \in Docs : row' = [row EXCEPT ![d] = QueuedRow(doc, clock)]
      BY <1>2 DEF Create
    <2>2. QED
      BY <1>2, <2>1 DEF Create, KeyInv, QueuedRow, Completed, TypeOK
  <1>3. ASSUME NEW q \in Requests, Cleanup(q)
        PROVE  KeyInv'
    <2>1. row' \in {row, [row EXCEPT ![req[q].dip] = Absent]}
      BY <1>3 DEF Cleanup
    <2>2. QED
      BY <1>3, <2>1 DEF Cleanup, KeyInv, Absent, Completed, TypeOK
  <1>4. ASSUME NEW q \in Requests, StartWorkflow(q)
        PROVE  KeyInv'
    <2>1. CASE wf' = wf
      BY <1>4, <2>1 DEF StartWorkflow, KeyInv
    <2>2. CASE wf' = [wf EXCEPT ![req[q].dip].pc = "initial"]
      <3>1. wf[req[q].dip].pc = "none" /\ req[q].dip \in Dips
        BY <1>4 DEF StartWorkflow, OwnInv
      <3>2. QED
        BY <1>4, <2>2, <3>1 DEF StartWorkflow, KeyInv, TypeOK, Workflow
    <2>3. QED
      BY <1>4, <2>1, <2>2 DEF StartWorkflow
  <1>5. ASSUME NEW d \in Dips, UpdateDIP(d)
        PROVE  KeyInv'
    <2>1. PICK r \in UpdatedRows(d) :
            \/ /\ row' = [row EXCEPT ![d] = r]
               /\ wf' = [wf EXCEPT ![d] = AfterUpdate(d, r)]
            \/ /\ row' \in {row, [row EXCEPT ![d] = r]}
               /\ wf' = [wf EXCEPT ![d] = AfterAttempt(d)]
      BY <1>5 DEF UpdateDIP
    <2>2. wf[d].pc \in UpdatePC /\ row[d].status # "absent" /\ object' = object
      BY <1>5 DEF UpdateDIP
    <2>3. /\ wf[d].pc = "initial" => r.status \notin Completed
          /\ object[d] /\ r.status \in Completed => r.hasKey
      BY <2>2, UpdatedKey
    <2>4. /\ wf'[d].key = wf[d].key
          /\ wf'[d].pc \in {"none", "initial", "generate"} => wf[d].pc = "initial"
          /\ wf'[d].pc = "clear" => wf[d].pc = "clear"
      <3>1. /\ AfterAttempt(d).key = wf[d].key
            /\ AfterAttempt(d).pc \in {"final", "delete", "closed", wf[d].pc}
            /\ AfterUpdate(d, r).key = wf[d].key
            /\ AfterUpdate(d, r).pc \in IF wf[d].pc = "initial" THEN {"generate"}
                                        ELSE {"expire", "sleep", "delete", "closed"}
        BY <2>2, WorkflowMoves
      <3>2. wf'[d] \in {AfterAttempt(d), AfterUpdate(d, r)}
        BY <2>1 DEF TypeOK
      <3>3. QED
        BY <2>2, <3>1, <3>2 DEF UpdatePC
    <2>5. row'[d] \in {row[d], r}
      BY <2>1 DEF TypeOK
    <2>6. \A e \in Dips : e # d => row'[e] = row[e] /\ wf'[e] = wf[e]
      BY <2>1 DEF TypeOK
    <2>7. QED
      BY <2>2, <2>3, <2>4, <2>5, <2>6 DEF KeyInv
  <1>6. ASSUME NEW d \in Dips, UpdateNotFound(d) \/ Wake(d) \/ Cancel(d)
        PROVE  KeyInv'
    <2>1. row' = row /\ object' = object
      BY <1>6 DEF UpdateNotFound, Wake, Cancel
    <2>2. /\ wf'[d].key = wf[d].key
          /\ wf'[d].pc \in {"final", "delete", "closed", "expire", wf[d].pc}
      BY <1>6, WorkflowMoves DEF UpdateNotFound, Wake, Cancel, TypeOK, Workflow
    <2>3. \A e \in Dips : e # d => wf'[e] = wf[e]
      BY <1>6 DEF UpdateNotFound, Wake, Cancel, TypeOK
    <2>4. QED
      BY <2>1, <2>2, <2>3 DEF KeyInv
  <1>7. ASSUME NEW d \in Dips, Generate(d)
        PROVE  KeyInv'
    <2>1. row' = row /\ wf[d].pc = "generate"
      BY <1>7 DEF Generate
    <2>2. wf'[d].pc = "final" /\ (object'[d] => wf'[d].key)
      <3>1. \A f \in BOOLEAN :
              /\ ToFinal(d, f).pc = "final"
              /\ [ToFinal(d, f) EXCEPT !.key = TRUE].pc = "final"
              /\ [ToFinal(d, f) EXCEPT !.key = TRUE].key
        BY WorkflowAfter, WorkflowMoves DEF Workflow, WfPC
      <3>2. ~object[d]
        BY <2>1 DEF KeyInv
      <3>3. QED
        BY <1>7, <3>1, <3>2 DEF Generate, TypeOK
    <2>3. \A e \in Dips : e # d => wf'[e] = wf[e] /\ object'[e] = object[e]
      BY <1>7 DEF Generate, TypeOK
    <2>4. row[d].status \notin Completed
      BY <2>1 DEF KeyInv
    <2>5. QED
      BY <2>1, <2>2, <2>3, <2>4 DEF KeyInv
  <1>8. ASSUME NEW d \in Dips, BucketDelete(d) \/ Abandon(d)
        PROVE  KeyInv'
    <2>1. row' = row /\ wf[d].pc \notin {"none", "generate"}
      BY <1>8 DEF BucketDelete, Abandon, UpdatePC
    <2>2. /\ wf'[d].key = wf[d].key
          /\ wf'[d].pc \in {"final", "delete", "closed", "clear"}
          /\ wf'[d].pc = "clear" => ~object'[d]
          /\ object'[d] => object[d]
      <3>1. CASE BucketDelete(d)
        BY <3>1, WorkflowMoves DEF BucketDelete, TypeOK
      <3>2. CASE Abandon(d)
        BY <3>2, WorkflowMoves DEF Abandon, TypeOK
      <3>3. QED
        BY <1>8, <3>1, <3>2
    <2>3. \A e \in Dips : e # d => wf'[e] = wf[e] /\ object'[e] = object[e]
      BY <1>8 DEF BucketDelete, Abandon, TypeOK
    <2>4. QED
      BY <2>1, <2>2, <2>3 DEF KeyInv
  <1>9. ASSUME NEW q \in Requests, RequestFails(q) \/ Crash(q)
        PROVE  KeyInv'
    BY <1>9 DEF RequestFails, Crash, KeyInv
  <1>10. CASE Tick \/ UNCHANGED vars
    BY <1>10 DEF Tick, vars, KeyInv
  <1>11. QED
    BY <1>1, <1>2, <1>3, <1>4, <1>5, <1>6, <1>7, <1>8, <1>9, <1>10
       DEF Next, HandlerStep, WorkflowStep

\* A completed row names its archive as long as the archive may be in the bucket.
THEOREM SpecKeyOutlivesObject == Spec => []KeyOutlivesObject
  <1>1. Init => OwnInv /\ KeyInv
    <2>1. Init => \A q \in Requests : req[q].pc = "idle"
      BY DEF Init
    <2>2. Init => \A d \in Dips : row[d].status = "absent" /\ ~object[d] /\ wf[d].pc = "none"
      BY DEF Init, Absent
    <2>3. QED
      BY <2>1, <2>2 DEF OwnInv, KeyInv, Completed
  <1>2. KeyInv => KeyOutlivesObject
    BY DEF KeyInv, KeyOutlivesObject
  <1>3. QED
    BY <1>1, <1>2, OwnStep, KeyStep, TypeCorrect, PTL DEF Spec
(***************************************************************************)
(* Generations are driven, and their archives attended: DriveInv says what *)
(* the row of a workflow may be in each of its steps, PromiseInv what      *)
(* becomes of the row that a caller was handed.                            *)
(***************************************************************************)
Places(d) ==
    LET s == row[d].status
        w == wf[d]
    IN  /\ w.pc = "none" => s \in {"absent", "queued"}
        /\ w.pc = "initial" => s = "absent" \/ s \in Pending
        /\ w.pc = "generate" => s \in {"absent", "in progress"}
        /\ w.pc = "final" /\ w.err => s \in {"absent", "failed"} \cup Pending
        /\ w.pc = "final" /\ ~w.err => s \in {"absent", "in progress", "stored"} /\ object[d]
        /\ w.pc \in {"none", "initial", "generate", "final"} => ~w.saved
        /\ w.pc \in {"delete", "clear"} /\ (w.saved \/ ~w.err) => s # "stored"
        /\ s \in Pending => row[d].expiresAt = Never /\ ~w.saved
        /\ s = "absent" => row[d] = Absent

Attended(d) ==
    row[d].status = "stored" =>
        /\ wf[d].saved => object[d]
        /\ row[d].expiresAt # Never => wf[d].pc # "closed" \/ wf[d].err

DriveInv == \A d \in Dips : Places(d) /\ Attended(d)

\* What a handler has is a row that was there, and a created one was started.
Holds(q) ==
    /\ req[q].pc = "idle" => req[q].dip = NoDip
    /\ req[q].pc \in {"start", "cleanup"} => req[q].dip \in Dips
    /\ req[q].pc = "accepted" /\ req[q].answer = "created" =>
          req[q].dip \in Dips /\ wf[req[q].dip].pc # "none"

\* The expiry a caller was told has passed.
Over(q) == req[q].until # Never /\ req[q].until <= clock

\* What remains of a stored answer, however its row goes on.
Promised(q) ==
    LET d == req[q].dip IN
    req[q].pc = "accepted" /\ req[q].answer = "stored" =>
        /\ d \in Dips /\ wf[d].pc \notin {"none", "initial", "generate"}
        /\ row[d].status \in {"absent", "stored", "deleted"}
        /\ row[d].status = "stored" =>
              \/ row[d].expiresAt = Never
              \/ req[q].until # Never /\ req[q].until <= row[d].expiresAt
        /\ row[d].status = "deleted" => Over(q)
        /\ wf[d].pc \in {"delete", "clear"} /\ wf[d].saved => Over(q)
        /\ wf[d].saved => object[d] \/ Over(q)

PromiseInv == \A q \in Requests : Holds(q) /\ Promised(q)

\* Where a workflow goes, with its error and what it has saved.
LEMMA Fields ==
    ASSUME TypeOK, NEW d \in Dips
    PROVE  /\ \A pc : /\ At(d, pc).pc = pc /\ At(d, pc).err = wf[d].err
                      /\ At(d, pc).saved = wf[d].saved
           /\ \A f \in BOOLEAN : /\ ToFinal(d, f).pc = "final" /\ ToFinal(d, f).saved = wf[d].saved
                                 /\ f => ToFinal(d, f).err
           /\ AfterError(d).err /\ AfterError(d).saved = wf[d].saved
           /\ wf[d].pc = "initial" => AfterError(d).pc = "final"
           /\ wf[d].pc = "final" => AfterError(d).pc \in {"delete", "closed"}
           /\ wf[d].pc \notin {"initial", "final"} => AfterError(d).pc = "closed"
           /\ \/ AfterAttempt(d) = AfterError(d)
              \/ /\ AfterAttempt(d).pc = wf[d].pc /\ AfterAttempt(d).err = wf[d].err
                 /\ AfterAttempt(d).saved = wf[d].saved
  <1>1. wf[d] \in Workflow
    BY DEF TypeOK
  <1>2. \A pc : At(d, pc).pc = pc /\ At(d, pc).err = wf[d].err
                /\ At(d, pc).saved = wf[d].saved /\ DOMAIN At(d, pc) = DOMAIN wf[d]
    BY <1>1 DEF At, Workflow
  <1>3. \A f \in BOOLEAN : /\ ToFinal(d, f).pc = "final" /\ ToFinal(d, f).saved = wf[d].saved
                           /\ f => ToFinal(d, f).err
    BY <1>1, <1>2 DEF ToFinal, Workflow
  <1>4. \A pc : /\ [At(d, pc) EXCEPT !.err = TRUE].pc = pc /\ [At(d, pc) EXCEPT !.err = TRUE].err
                /\ [At(d, pc) EXCEPT !.err = TRUE].saved = wf[d].saved
    BY <1>1, <1>2 DEF Workflow
  <1>5. /\ wf[d].pc = "initial" => AfterError(d) = ToFinal(d, TRUE)
        /\ wf[d].pc = "final" =>
              AfterError(d) = [At(d, IF wf[d].key THEN "delete" ELSE "closed") EXCEPT !.err = TRUE]
        /\ wf[d].pc \notin {"initial", "final"} =>
              AfterError(d) = [At(d, "closed") EXCEPT !.err = TRUE]
    BY DEF AfterError
  <1>6. \/ AfterAttempt(d) = AfterError(d)
        \/ /\ AfterAttempt(d).pc = wf[d].pc /\ AfterAttempt(d).err = wf[d].err
           /\ AfterAttempt(d).saved = wf[d].saved
    BY <1>1 DEF AfterAttempt, Workflow
  <1>7. ToFinal(d, TRUE).pc = "final" /\ ToFinal(d, TRUE).saved = wf[d].saved /\ ToFinal(d, TRUE).err
    BY <1>3
  <1>8. /\ AfterError(d).err /\ AfterError(d).saved = wf[d].saved
        /\ wf[d].pc = "initial" => AfterError(d).pc = "final"
        /\ wf[d].pc = "final" => AfterError(d).pc \in {"delete", "closed"}
        /\ wf[d].pc \notin {"initial", "final"} => AfterError(d).pc = "closed"
    <2>1. CASE wf[d].pc = "initial"
      BY <1>5, <1>7, <2>1
    <2>2. CASE wf[d].pc = "final"
      BY <1>4, <1>5, <2>2
    <2>3. CASE wf[d].pc \notin {"initial", "final"}
      BY <1>4, <1>5, <2>3
    <2>4. QED
      BY <2>1, <2>2, <2>3
  <1>9. QED
    BY <1>2, <1>3, <1>6, <1>8

\* The same after a reported update.
LEMMA FieldsAfterUpdate ==
    ASSUME TypeOK, NEW d \in Dips, wf[d].pc \in UpdatePC, NEW r
    PROVE  LET w == AfterUpdate(d, r) IN
           /\ wf[d].pc = "initial" => w.pc = "generate" /\ w.saved = wf[d].saved
           /\ wf[d].pc = "final" => /\ w.saved
                                    /\ wf[d].err => w.err /\ w.pc \in {"delete", "closed"}
                                    /\ ~wf[d].err => w.pc = "expire"
           /\ wf[d].pc = "expire" =>
                 /\ w.saved = wf[d].saved /\ w.pc \in {"delete", "sleep", "closed"}
                 /\ w.pc = "delete" => r.status \in {"deleted", "failed"}
                 /\ w.pc = "closed" /\ r.status = "stored" /\ r.expiresAt # Never => w.err
           /\ wf[d].pc = "clear" => /\ w.pc = "closed" /\ w.saved = wf[d].saved
                                    /\ w.err = wf[d].err
  <1>1. wf[d] \in Workflow
    BY DEF TypeOK
  <1>2. \A pc : At(d, pc).pc = pc /\ At(d, pc).err = wf[d].err
                /\ At(d, pc).saved = wf[d].saved /\ DOMAIN At(d, pc) = DOMAIN wf[d]
    BY <1>1 DEF At, Workflow
  <1>3. CASE wf[d].pc = "final"
    <2> DEFINE pc == IF ~wf[d].err THEN "expire" ELSE IF wf[d].key THEN "delete" ELSE "closed"
    <2>1. AfterUpdate(d, r) = [At(d, pc) EXCEPT !.saved = TRUE]
      BY <1>3 DEF AfterUpdate
    <2>2. \A p : /\ [At(d, p) EXCEPT !.saved = TRUE].pc = p /\ [At(d, p) EXCEPT !.saved = TRUE].saved
                 /\ [At(d, p) EXCEPT !.saved = TRUE].err = wf[d].err
      BY <1>1, <1>2 DEF Workflow
    <2>3. QED
      BY <1>3, <2>1, <2>2
  <1>4. CASE wf[d].pc = "expire"
    <2>1. AfterUpdate(d, r) = AfterExpire(d, r)
      BY <1>4 DEF AfterUpdate
    <2>2. CASE r.status \in {"deleted", "failed"}
      BY <1>2, <1>4, <2>1, <2>2 DEF AfterExpire
    <2>3. CASE r.status = "stored" /\ r.expiresAt = Never
      BY <1>2, <1>4, <2>1, <2>3 DEF AfterExpire
    <2>4. CASE r.status = "stored" /\ r.expiresAt # Never
      <3>1. AfterExpire(d, r) = [At(d, "sleep") EXCEPT !.until = r.expiresAt]
        BY <2>4 DEF AfterExpire
      <3>2. /\ [At(d, "sleep") EXCEPT !.until = r.expiresAt].pc = "sleep"
            /\ [At(d, "sleep") EXCEPT !.until = r.expiresAt].saved = wf[d].saved
        BY <1>1, <1>2 DEF Workflow
      <3>3. QED
        BY <1>4, <2>1, <3>1, <3>2
    <2>5. CASE r.status \notin {"deleted", "failed", "stored"}
      <3>1. AfterExpire(d, r) = [At(d, "closed") EXCEPT !.err = TRUE]
        BY <2>5 DEF AfterExpire
      <3>2. /\ [At(d, "closed") EXCEPT !.err = TRUE].pc = "closed"
            /\ [At(d, "closed") EXCEPT !.err = TRUE].saved = wf[d].saved
        BY <1>1, <1>2 DEF Workflow
      <3>3. QED
        BY <1>4, <2>1, <2>5, <3>1, <3>2
    <2>6. QED
      BY <2>2, <2>3, <2>4, <2>5
  <1>5. CASE wf[d].pc \in {"initial", "clear"}
    BY <1>2, <1>5 DEF AfterUpdate
  <1>6. QED
    BY <1>3, <1>4, <1>5 DEF UpdatePC

\* What an update makes of a row, given the step of its workflow.
LEMMA UpdatedPlace ==
    ASSUME TypeOK, NEW d \in Dips, Places(d), wf[d].pc \in UpdatePC,
           row[d].status # "absent", NEW r \in UpdatedRows(d)
    PROVE  /\ wf[d].pc = "initial" => r.status = "in progress" /\ r.expiresAt = Never
           /\ wf[d].pc = "final" /\ wf[d].err => r.status = "failed"
           /\ wf[d].pc = "final" /\ ~wf[d].err => r.status = "stored"
           /\ wf[d].pc = "expire" =>
                 /\ r.expiresAt = row[d].expiresAt
                 /\ \/ r.status = row[d].status
                    \/ row[d].status = "stored" /\ r.status = "deleted"
           /\ wf[d].pc = "clear" => r.status = row[d].status /\ r.expiresAt = row[d].expiresAt
  <1>1. row[d] \in Row
    BY DEF TypeOK
  <1>2. CASE wf[d].pc = "initial"
    <2>1. r = InProgressUpdate(row[d]) /\ row[d].status \in Pending /\ row[d].expiresAt = Never
      BY <1>2 DEF UpdatedRows, Places
    <2>2. QED
      BY <1>1, <1>2, <2>1 DEF InProgressUpdate, Row, Pending, Completed
  <1>3. CASE wf[d].pc = "final" /\ wf[d].err
    <2>1. r = FailedUpdate(row[d], wf[d].key) /\ row[d].status \in {"failed"} \cup Pending
      BY <1>3 DEF UpdatedRows, Places
    <2>2. QED
      BY <1>1, <1>3, <2>1 DEF FailedUpdate, Row, Pending, Completed
  <1>4. CASE wf[d].pc = "final" /\ ~wf[d].err
    <2>1. PICK retention \in Retentions : r = StoredUpdate(row[d], retention, clock)
      BY <1>4 DEF UpdatedRows
    <2>2. row[d].status \in {"in progress", "stored"}
      BY <1>4 DEF Places
    <2>3. QED
      BY <1>1, <1>4, <2>1, <2>2 DEF StoredUpdate, Row, Completed
  <1>5. CASE wf[d].pc = "expire"
    <2>1. r = DeletedUpdate(row[d], clock)
      BY <1>5 DEF UpdatedRows
    <2>2. QED
      BY <1>1, <1>5, <2>1 DEF DeletedUpdate, Row
  <1>6. CASE wf[d].pc = "clear"
    <2>1. r = ClearKeyUpdate(row[d])
      BY <1>6 DEF UpdatedRows
    <2>2. QED
      BY <1>1, <1>6, <2>1 DEF ClearKeyUpdate, Row
  <1>7. QED
    BY <1>2, <1>3, <1>4, <1>5, <1>6 DEF UpdatePC

\* A workflow that did not move and a row that keeps its status and gains no expiry.
LEMMA PlaceKept ==
    ASSUME TypeOK, NEW d \in Dips, Places(d), Attended(d),
           wf'[d].pc = wf[d].pc, wf'[d].err = wf[d].err, wf'[d].saved = wf[d].saved,
           row'[d].status = row[d].status, row[d].expiresAt = Never => row'[d].expiresAt = Never,
           row[d].status = "absent" => row'[d] = row[d], object[d] => object'[d]
    PROVE  Places(d)' /\ Attended(d)'
  BY DEF Places, Attended

\* The update of a workflow keeps its place.
LEMMA UpdateKeepsPlace ==
    ASSUME TypeOK, DriveInv, NEW d \in Dips, UpdateDIP(d)
    PROVE  Places(d)' /\ Attended(d)'
  <1>1. PICK r \in UpdatedRows(d) :
          \/ row' = [row EXCEPT ![d] = r] /\ wf' = [wf EXCEPT ![d] = AfterUpdate(d, r)]
          \/ /\ row' \in {row, [row EXCEPT ![d] = r]}
             /\ wf' = [wf EXCEPT ![d] = AfterAttempt(d)]
    BY DEF UpdateDIP
  <1>2. wf[d].pc \in UpdatePC /\ row[d].status # "absent" /\ object' = object
    BY DEF UpdateDIP
  <1>3. Places(d) /\ Attended(d)
    BY DEF DriveInv
  <1>4. RowUpdate(row[d], r) /\ r \in Row
    BY <1>2, UpdatedRow DEF RowUpdate
  <1>5. /\ wf[d].pc = "initial" => r.status = "in progress" /\ r.expiresAt = Never
        /\ wf[d].pc = "final" /\ wf[d].err => r.status = "failed"
        /\ wf[d].pc = "final" /\ ~wf[d].err => r.status = "stored"
        /\ wf[d].pc = "expire" =>
              /\ r.expiresAt = row[d].expiresAt
              /\ \/ r.status = row[d].status
                 \/ row[d].status = "stored" /\ r.status = "deleted"
        /\ wf[d].pc = "clear" => r.status = row[d].status /\ r.expiresAt = row[d].expiresAt
    BY <1>2, <1>3, UpdatedPlace
  <1>6. r.status # "absent"
    BY <1>4 DEF RowUpdate
  <1>7. CASE row' = [row EXCEPT ![d] = r] /\ wf' = [wf EXCEPT ![d] = AfterUpdate(d, r)]
    <2> DEFINE w == AfterUpdate(d, r)
    <2>1. row'[d] = r /\ wf'[d] = w
      BY <1>7 DEF TypeOK
    <2>2. /\ wf[d].pc = "initial" => w.pc = "generate" /\ w.saved = wf[d].saved
          /\ wf[d].pc = "final" => /\ w.saved
                                   /\ wf[d].err => w.err /\ w.pc \in {"delete", "closed"}
                                   /\ ~wf[d].err => w.pc = "expire"
          /\ wf[d].pc = "expire" =>
                /\ w.saved = wf[d].saved /\ w.pc \in {"delete", "sleep", "closed"}
                /\ w.pc = "delete" => r.status \in {"deleted", "failed"}
                /\ w.pc = "closed" /\ r.status = "stored" /\ r.expiresAt # Never => w.err
          /\ wf[d].pc = "clear" => /\ w.pc = "closed" /\ w.saved = wf[d].saved
                                   /\ w.err = wf[d].err
      BY <1>2, FieldsAfterUpdate
    <2> HIDE DEF w
    <2>3. CASE wf[d].pc = "initial"
      BY <1>2, <1>3, <1>5, <2>1, <2>2, <2>3 DEF Places, Attended, Pending
    <2>4. CASE wf[d].pc = "final"
      BY <1>2, <1>3, <1>5, <2>1, <2>2, <2>4 DEF Places, Attended, Pending
    <2>5. CASE wf[d].pc = "expire"
      BY <1>2, <1>3, <1>5, <1>6, <2>1, <2>2, <2>5 DEF Places, Attended, Pending
    <2>6. CASE wf[d].pc = "clear"
      BY <1>2, <1>3, <1>5, <1>6, <2>1, <2>2, <2>6 DEF Places, Attended, Pending
    <2>7. QED
      BY <1>2, <2>3, <2>4, <2>5, <2>6 DEF UpdatePC
  <1>8. CASE row' \in {row, [row EXCEPT ![d] = r]} /\ wf' = [wf EXCEPT ![d] = AfterAttempt(d)]
    <2> DEFINE w == AfterAttempt(d)
    <2>1. row'[d] \in {row[d], r} /\ wf'[d] = w
      BY <1>8 DEF TypeOK
    <2>2. /\ w.saved = wf[d].saved
          /\ \/ w.pc = wf[d].pc /\ w.err = wf[d].err
             \/ /\ w.err
                /\ wf[d].pc = "initial" => w.pc = "final"
                /\ wf[d].pc = "final" => w.pc \in {"delete", "closed"}
                /\ wf[d].pc \notin {"initial", "final"} => w.pc = "closed"
      BY Fields
    <2> HIDE DEF w
    <2>3. CASE wf[d].pc = "initial"
      BY <1>2, <1>3, <1>5, <2>1, <2>2, <2>3 DEF Places, Attended, Pending
    <2>4. CASE wf[d].pc = "final"
      BY <1>2, <1>3, <1>5, <2>1, <2>2, <2>4 DEF Places, Attended, Pending
    <2>5. CASE wf[d].pc = "expire"
      BY <1>2, <1>3, <1>5, <1>6, <2>1, <2>2, <2>5 DEF Places, Attended, Pending
    <2>6. CASE wf[d].pc = "clear"
      BY <1>2, <1>3, <1>5, <1>6, <2>1, <2>2, <2>6 DEF Places, Attended, Pending
    <2>7. QED
      BY <1>2, <2>3, <2>4, <2>5, <2>6 DEF UpdatePC
  <1>9. QED
    BY <1>1, <1>7, <1>8

\* So does every other step of it.
LEMMA StepKeepsPlace ==
    ASSUME TypeOK, KeyInv, DriveInv, NEW d \in Dips,
           \/ UpdateNotFound(d) \/ Generate(d) \/ BucketDelete(d) \/ Wake(d) \/ Abandon(d)
           \/ Cancel(d)
    PROVE  Places(d)' /\ Attended(d)'
  <1>1. Places(d) /\ Attended(d) /\ wf[d] \in Workflow /\ object \in [Dips -> BOOLEAN]
    BY DEF DriveInv, TypeOK
  <1>2. row' = row
    BY DEF UpdateNotFound, Generate, BucketDelete, Wake, Abandon, Cancel
  <1>3. /\ AfterError(d).err /\ AfterError(d).saved = wf[d].saved
        /\ wf[d].pc = "initial" => AfterError(d).pc = "final"
        /\ wf[d].pc = "final" => AfterError(d).pc \in {"delete", "closed"}
        /\ wf[d].pc \notin {"initial", "final"} => AfterError(d).pc = "closed"
    BY Fields
  <1>4. CASE UpdateNotFound(d)
    <2>1. wf'[d] = AfterError(d) /\ row[d].status = "absent" /\ wf[d].pc \in UpdatePC
      BY <1>4 DEF UpdateNotFound, TypeOK
    <2>2. QED
      BY <1>1, <1>2, <1>3, <2>1 DEF Places, Attended, Pending, UpdatePC
  <1>5. CASE Generate(d)
    <2>1. wf[d].pc = "generate"
      BY <1>5 DEF Generate
    <2>2. /\ wf'[d].pc = "final" /\ wf'[d].saved = wf[d].saved
          /\ wf'[d].err \/ object'[d]
      <3>1. \A f \in BOOLEAN :
              /\ [ToFinal(d, f) EXCEPT !.key = TRUE].pc = "final"
              /\ [ToFinal(d, f) EXCEPT !.key = TRUE].saved = wf[d].saved
              /\ [ToFinal(d, f) EXCEPT !.key = TRUE].err = ToFinal(d, f).err
        BY WorkflowAfter, Fields DEF Workflow, WfPC
      <3>2. \A f \in BOOLEAN : /\ ToFinal(d, f).pc = "final" /\ ToFinal(d, f).saved = wf[d].saved
                               /\ f => ToFinal(d, f).err
        BY Fields
      <3>3. \/ wf'[d] = [ToFinal(d, FALSE) EXCEPT !.key = TRUE] /\ object'[d]
            \/ wf'[d] = ToFinal(d, TRUE)
            \/ wf'[d] = [ToFinal(d, TRUE) EXCEPT !.key = TRUE]
        BY <1>5 DEF Generate, TypeOK
      <3>4. ToFinal(d, TRUE).err /\ [ToFinal(d, TRUE) EXCEPT !.key = TRUE].err
        BY <3>1, <3>2
      <3>5. CASE wf'[d] = [ToFinal(d, FALSE) EXCEPT !.key = TRUE] /\ object'[d]
        BY <3>1, <3>5
      <3>6. CASE wf'[d] = ToFinal(d, TRUE)
        BY <3>2, <3>4, <3>6
      <3>7. CASE wf'[d] = [ToFinal(d, TRUE) EXCEPT !.key = TRUE]
        BY <3>1, <3>4, <3>7
      <3>8. QED
        BY <3>3, <3>5, <3>6, <3>7
    <2>3. QED
      BY <1>1, <1>2, <2>1, <2>2 DEF Places, Attended, Pending
  <1>6. CASE BucketDelete(d)
    <2>1. wf[d].pc = "delete" /\ wf'[d] \in {At(d, "clear"), AfterAttempt(d)}
      BY <1>6 DEF BucketDelete, TypeOK
    <2>2. /\ wf'[d].saved = wf[d].saved
          /\ \/ wf'[d].pc \in {"clear", "delete"} /\ wf'[d].err = wf[d].err
             \/ wf'[d].pc = "closed" /\ wf'[d].err
      BY <1>3, <2>1, Fields
    <2>3. QED
      BY <1>1, <1>2, <2>1, <2>2 DEF Places, Attended, Pending
  <1>7. CASE Wake(d)
    <2>1. wf[d].pc = "sleep" /\ wf'[d] = At(d, "expire") /\ object' = object
      BY <1>7 DEF Wake, TypeOK
    <2>2. wf'[d].pc = "expire" /\ wf'[d].saved = wf[d].saved
      BY <2>1, Fields
    <2>3. QED
      BY <1>1, <1>2, <2>1, <2>2 DEF Places, Attended, Pending
  <1>8. CASE Abandon(d)
    <2>1. /\ wf'[d] = AfterError(d) /\ wf[d].pc \in {"initial", "expire", "clear", "sleep", "delete"}
          /\ wf[d].pc # "delete" => object' = object
      BY <1>8 DEF Abandon, Disconnected, UpdatePC, TypeOK
    <2>2. QED
      BY <1>1, <1>2, <1>3, <2>1 DEF Places, Attended, Pending
  <1>9. CASE Cancel(d)
    <2>1. /\ wf'[d].pc = wf[d].pc /\ wf'[d].err = wf[d].err /\ wf'[d].saved = wf[d].saved
          /\ object' = object
      BY <1>1, <1>9 DEF Cancel, TypeOK, Workflow
    <2>2. QED
      BY <1>1, <1>2, <2>1, PlaceKept
  <1>10. QED
    BY <1>4, <1>5, <1>6, <1>7, <1>8, <1>9

\* Every step leaves every row and workflow in a place that fits.
LEMMA DriveStep == TypeOK /\ OwnInv /\ KeyInv /\ DriveInv /\ [Next]_vars => DriveInv'
  <1> SUFFICES ASSUME TypeOK, OwnInv, KeyInv, DriveInv, [Next]_vars
               PROVE  DriveInv'
    OBVIOUS
  <1>1. \A d \in Dips : Places(d) /\ Attended(d) /\ row[d] \in Row /\ wf[d] \in Workflow
    BY DEF DriveInv, TypeOK
  <1>2. ASSUME NEW d \in Dips, wf'[d] = wf[d], row'[d] = row[d], object'[d] = object[d]
        PROVE  Places(d)' /\ Attended(d)'
    BY <1>1, <1>2, PlaceKept
  <1>3. ASSUME NEW q \in Requests, Reuse(q)
        PROVE  DriveInv'
    <2>1. PICK d \in Dips, retention \in Retentions : Renews(d, retention)
      BY <1>3, ReuseRenews
    <2>2. row[d].status # "absent" /\ retention \in Nat /\ clock \in Nat
      BY <2>1, NumberAssumption DEF Renews, TypeOK
    <2>3. /\ Renewed(row[d], retention, clock).status = row[d].status
          /\ row[d].expiresAt = Never => Renewed(row[d], retention, clock).expiresAt = Never
      BY <1>1, <2>2, RenewedRow
    <2>4. /\ row'[d] = Renewed(row[d], retention, clock)
          /\ \A e \in Dips : e # d => row'[e] = row[e]
          /\ wf' = wf /\ object' = object
      BY <1>3, <2>1 DEF Renews, Reuse, TypeOK
    <2>5. Places(d)' /\ Attended(d)'
      BY <1>1, <2>2, <2>3, <2>4, PlaceKept
    <2>6. QED
      BY <1>2, <2>4, <2>5 DEF DriveInv
  <1>4. ASSUME NEW q \in Requests, Create(q)
        PROVE  DriveInv'
    <2>1. PICK d \in Dips, doc \in Docs :
             wf[d].pc = "none" /\ row' = [row EXCEPT ![d] = QueuedRow(doc, clock)]
      BY <1>4 DEF Create, Fresh
    <2>2. /\ row'[d].status = "queued" /\ row'[d].expiresAt = Never
          /\ \A e \in Dips : e # d => row'[e] = row[e]
          /\ wf' = wf /\ object' = object
      BY <1>4, <2>1 DEF Create, QueuedRow, TypeOK
    <2>3. Places(d)' /\ Attended(d)'
      BY <1>1, <2>1, <2>2 DEF Places, Attended, Pending
    <2>4. QED
      BY <1>2, <2>2, <2>3 DEF DriveInv
  <1>5. ASSUME NEW q \in Requests, Cleanup(q)
        PROVE  DriveInv'
    <2>1. \A e \in Dips : row'[e] \in {row[e], Absent}
      BY <1>5 DEF Cleanup, TypeOK
    <2>2. wf' = wf /\ object' = object
      BY <1>5 DEF Cleanup
    <2>3. Absent.status = "absent"
      BY DEF Absent
    <2>4. ASSUME NEW e \in Dips, row'[e] = Absent
          PROVE  Places(e)' /\ Attended(e)'
      BY <1>1, <2>2, <2>3, <2>4 DEF Places, Attended, Pending
    <2>5. QED
      BY <1>2, <2>1, <2>2, <2>4 DEF DriveInv
  <1>6. ASSUME NEW q \in Requests, StartWorkflow(q)
        PROVE  DriveInv'
    <2>1. row' = row /\ object' = object
      BY <1>6 DEF StartWorkflow
    <2>2. CASE wf' = wf
      BY <1>2, <2>1, <2>2 DEF DriveInv
    <2>3. CASE wf' = [wf EXCEPT ![req[q].dip].pc = "initial"]
      <3>1. req[q].dip \in Dips /\ wf[req[q].dip].pc = "none"
        BY <1>6 DEF StartWorkflow, OwnInv
      <3>2. PICK d \in Dips : d = req[q].dip
        BY <3>1
      <3>3. /\ wf'[d].pc = "initial" /\ wf'[d].saved = wf[d].saved
            /\ \A e \in Dips : e # d => wf'[e] = wf[e]
        BY <1>1, <2>3, <3>2 DEF TypeOK, Workflow
      <3>4. Places(d)' /\ Attended(d)'
        BY <1>1, <2>1, <3>1, <3>2, <3>3 DEF Places, Attended, Pending
      <3>5. QED
        BY <1>2, <2>1, <3>3, <3>4 DEF DriveInv
    <2>4. QED
      BY <1>6, <2>2, <2>3 DEF StartWorkflow
  <1>7. ASSUME NEW d \in Dips, WorkflowStep(d) \/ Cancel(d)
        PROVE  DriveInv'
    <2>1. \A e \in Dips : e # d => wf'[e] = wf[e] /\ row'[e] = row[e] /\ object'[e] = object[e]
      BY <1>7 DEF WorkflowStep, Cancel, UpdateDIP, UpdateNotFound, Generate, BucketDelete,
                  Wake, Abandon, TypeOK
    <2>2. Places(d)' /\ Attended(d)'
      BY <1>7, UpdateKeepsPlace, StepKeepsPlace DEF WorkflowStep
    <2>3. QED
      BY <1>2, <2>1, <2>2 DEF DriveInv
  <1>8. ASSUME NEW q \in Requests, RequestFails(q) \/ Crash(q)
        PROVE  DriveInv'
    BY <1>2, <1>8 DEF RequestFails, Crash, DriveInv
  <1>9. CASE Tick \/ UNCHANGED vars
    BY <1>2, <1>9 DEF Tick, vars, DriveInv
  <1>10. QED
    BY <1>3, <1>4, <1>5, <1>6, <1>7, <1>8, <1>9 DEF Next, HandlerStep

\* An expiry that has passed stays so.
LEMMA OverStays ==
    ASSUME TypeOK, NEW q \in Requests, Over(q), req'[q] = req[q], clock' \in Nat, clock' >= clock
    PROVE  Over(q)'
  <1>1. req[q].until \in Nat /\ clock \in Nat
    BY DEF TypeOK, Handler
  <1>2. QED
    BY <1>1 DEF Over

\* A step that leaves the DIP of an answer alone, but for its expiry or its row.
LEMMA PromiseKept ==
    ASSUME TypeOK, NEW q \in Requests, Promised(q), req'[q] = req[q],
           clock' \in Nat, clock' >= clock, row' \in [Dips -> Row],
           LET d == req[q].dip IN
               d \in Dips => /\ wf'[d].pc = wf[d].pc /\ wf'[d].saved = wf[d].saved
                             /\ object'[d] = object[d]
                             /\ \/ row'[d].status = "absent"
                                \/ /\ row'[d].status = row[d].status
                                   /\ \/ row'[d].expiresAt = row[d].expiresAt
                                      \/ row'[d].expiresAt = Never
                                      \/ /\ row[d].expiresAt # Never
                                         /\ row'[d].expiresAt > row[d].expiresAt
    PROVE  Promised(q)'
  <1>1. /\ req[q].until \in Nat /\ clock \in Nat
        /\ \A d \in Dips : row[d].expiresAt \in Nat
    BY DEF TypeOK, Handler, Row
  <1>2. Over(q) => Over(q)'
    BY OverStays
  <1>3. CASE ~(req[q].pc = "accepted" /\ req[q].answer = "stored")
    BY <1>3 DEF Promised
  <1>4. CASE req[q].pc = "accepted" /\ req[q].answer = "stored"
    <2>1. PICK d \in Dips : d = req[q].dip
      BY <1>4 DEF Promised
    <2>2. /\ wf'[d].pc = wf[d].pc /\ wf'[d].saved = wf[d].saved /\ object'[d] = object[d]
          /\ \/ row'[d].status = "absent"
             \/ /\ row'[d].status = row[d].status
                /\ \/ row'[d].expiresAt = row[d].expiresAt
                   \/ row'[d].expiresAt = Never
                   \/ /\ row[d].expiresAt # Never
                      /\ row'[d].expiresAt > row[d].expiresAt
      BY <2>1
    <2>3. /\ wf[d].pc \notin {"none", "initial", "generate"}
          /\ row[d].status \in {"absent", "stored", "deleted"}
          /\ row[d].status = "stored" =>
                \/ row[d].expiresAt = Never
                \/ req[q].until # Never /\ req[q].until <= row[d].expiresAt
          /\ row[d].status = "deleted" => Over(q)
          /\ wf[d].pc \in {"delete", "clear"} /\ wf[d].saved => Over(q)
          /\ wf[d].saved => object[d] \/ Over(q)
      BY <1>4, <2>1 DEF Promised
    <2>4. row[d].expiresAt \in Nat /\ row'[d].expiresAt \in Nat
      BY <1>1 DEF Row
    <2>5. row'[d].status = "stored" =>
             \/ row'[d].expiresAt = Never
             \/ req[q].until # Never /\ req[q].until <= row'[d].expiresAt
      BY <1>1, <2>2, <2>3, <2>4 DEF Never
    <2>6. QED
      BY <1>2, <1>4, <2>1, <2>2, <2>3, <2>5 DEF Promised
  <1>5. QED
    BY <1>3, <1>4

\* The update of its workflow keeps the promise: a row is deleted when it is over.
LEMMA UpdateKeepsPromise ==
    ASSUME TypeOK, DriveInv, NEW q \in Requests, Promised(q), NEW d \in Dips, UpdateDIP(d)
    PROVE  Promised(q)'
  <1>1. PICK r \in UpdatedRows(d) :
          \/ row' = [row EXCEPT ![d] = r] /\ wf' = [wf EXCEPT ![d] = AfterUpdate(d, r)]
          \/ /\ row' \in {row, [row EXCEPT ![d] = r]}
             /\ wf' = [wf EXCEPT ![d] = AfterAttempt(d)]
    BY DEF UpdateDIP
  <1>2. /\ wf[d].pc \in UpdatePC /\ row[d].status # "absent"
        /\ object' = object /\ req' = req /\ clock' = clock
    BY DEF UpdateDIP
  <1>3. Places(d) /\ RowUpdate(row[d], r)
    BY <1>2, UpdatedRow DEF DriveInv
  <1>4. row' \in [Dips -> Row] /\ clock \in Nat /\ req[q].until \in Nat
        /\ row[d].expiresAt \in Nat
    BY <1>1, <1>3 DEF RowUpdate, TypeOK, Handler, Row
  <1>5. CASE ~(req[q].pc = "accepted" /\ req[q].answer = "stored")
    BY <1>2, <1>5 DEF Promised
  <1>6. CASE req[q].pc = "accepted" /\ req[q].answer = "stored" /\ req[q].dip # d
    <2>1. \A e \in Dips : e # d => row'[e] = row[e] /\ wf'[e] = wf[e]
      BY <1>1 DEF TypeOK
    <2>2. QED
      BY <1>2, <1>4, <1>6, <2>1, PromiseKept
  <1>7. CASE req[q].pc = "accepted" /\ req[q].answer = "stored" /\ req[q].dip = d
    <2>1. Over(q)' = Over(q)
      BY <1>2 DEF Over
    <2>2. /\ wf[d].pc \in {"final", "expire", "clear"}
          /\ row[d].status \in {"stored", "deleted"}
          /\ row[d].status = "stored" =>
                \/ row[d].expiresAt = Never
                \/ req[q].until # Never /\ req[q].until <= row[d].expiresAt
          /\ row[d].status = "deleted" => Over(q)
          /\ wf[d].pc \in {"delete", "clear"} /\ wf[d].saved => Over(q)
          /\ wf[d].saved => object[d] \/ Over(q)
      BY <1>2, <1>7 DEF Promised, UpdatePC
    <2>3. row'[d] \in {row[d], r}
      BY <1>1 DEF TypeOK
    <2>4. /\ r.expiresAt = row[d].expiresAt /\ r.status \in {"stored", "deleted"}
          /\ row[d].status = "deleted" => r.status = "deleted"
          /\ r.status = "deleted" => Over(q)
      BY <1>3, <1>4, <2>2 DEF RowUpdate, Completed, Expired, Over
    <2>5. /\ row'[d].expiresAt = row[d].expiresAt /\ row'[d].status \in {"stored", "deleted"}
          /\ row'[d].status = "deleted" => Over(q)
          /\ row'[d].status = "stored" => row[d].status = "stored"
      BY <2>2, <2>3, <2>4
    <2>6. /\ wf'[d].pc \notin {"none", "initial", "generate"}
          /\ wf'[d].pc \in {"delete", "clear"} /\ wf'[d].saved => Over(q)
          /\ wf'[d].saved => object[d] \/ Over(q)
      <3>1. CASE row' = [row EXCEPT ![d] = r] /\ wf' = [wf EXCEPT ![d] = AfterUpdate(d, r)]
        <4> DEFINE w == AfterUpdate(d, r)
        <4>1. wf'[d] = w
          BY <3>1 DEF TypeOK
        <4>2. /\ wf[d].pc = "final" /\ ~wf[d].err => w.pc = "expire"
              /\ wf[d].pc = "expire" =>
                    /\ w.saved = wf[d].saved /\ w.pc \in {"delete", "sleep", "closed"}
                    /\ w.pc = "delete" => r.status \in {"deleted", "failed"}
              /\ wf[d].pc = "clear" => w.pc = "closed" /\ w.saved = wf[d].saved
          BY <1>2, FieldsAfterUpdate
        <4> HIDE DEF w
        <4>3. wf[d].pc = "final" => ~wf[d].err /\ object[d]
          BY <1>3, <2>2 DEF Places, Pending
        <4>4. QED
          BY <2>2, <2>4, <4>1, <4>2, <4>3
      <3>2. CASE wf' = [wf EXCEPT ![d] = AfterAttempt(d)]
        <4> DEFINE w == AfterAttempt(d)
        <4>1. wf'[d] = w
          BY <3>2 DEF TypeOK
        <4>2. /\ w.saved = wf[d].saved
              /\ \/ w.pc = wf[d].pc
                 \/ /\ wf[d].pc = "final" => w.pc \in {"delete", "closed"}
                    /\ wf[d].pc \notin {"initial", "final"} => w.pc = "closed"
          BY Fields
        <4> HIDE DEF w
        <4>3. wf[d].pc = "final" => ~wf[d].saved
          BY <1>3 DEF Places
        <4>4. QED
          BY <2>2, <4>1, <4>2, <4>3
      <3>3. QED
        BY <1>1, <3>1, <3>2
    <2>7. QED
      BY <1>2, <1>7, <2>1, <2>2, <2>5, <2>6 DEF Promised
  <1>8. QED
    BY <1>5, <1>6, <1>7

\* So does every other step of the workflow: an archive is removed when it is over.
LEMMA StepKeepsPromise ==
    ASSUME TypeOK, DriveInv, NEW q \in Requests, Promised(q), NEW d \in Dips,
           \/ UpdateNotFound(d) \/ Generate(d) \/ BucketDelete(d) \/ Wake(d) \/ Abandon(d)
           \/ Cancel(d)
    PROVE  Promised(q)'
  <1>1. row' = row /\ req' = req /\ clock' = clock
    BY DEF UpdateNotFound, Generate, BucketDelete, Wake, Abandon, Cancel
  <1>2. \A e \in Dips : e # d => wf'[e] = wf[e] /\ object'[e] = object[e]
    BY DEF UpdateNotFound, Generate, BucketDelete, Wake, Abandon, Cancel, TypeOK
  <1>3. row' \in [Dips -> Row] /\ clock \in Nat
    BY <1>1 DEF TypeOK
  <1>4. CASE ~(req[q].pc = "accepted" /\ req[q].answer = "stored")
    BY <1>1, <1>4 DEF Promised
  <1>5. CASE req[q].pc = "accepted" /\ req[q].answer = "stored" /\ req[q].dip # d
    BY <1>1, <1>2, <1>3, <1>5, PromiseKept
  <1>6. CASE req[q].pc = "accepted" /\ req[q].answer = "stored" /\ req[q].dip = d
    <2>1. Over(q)' = Over(q)
      BY <1>1 DEF Over
    <2>2. /\ wf[d].pc \notin {"none", "initial", "generate"}
          /\ wf[d].pc \in {"delete", "clear"} /\ wf[d].saved => Over(q)
          /\ wf[d].saved => object[d] \/ Over(q)
      BY <1>6 DEF Promised
    <2>3. Places(d) /\ wf[d] \in Workflow
      BY DEF DriveInv, TypeOK
    <2>4. /\ AfterError(d).saved = wf[d].saved
          /\ wf[d].pc = "final" => AfterError(d).pc \in {"delete", "closed"}
          /\ wf[d].pc \notin {"initial", "final"} => AfterError(d).pc = "closed"
      BY Fields
    <2>5. /\ wf'[d].pc \notin {"none", "initial", "generate"} /\ wf'[d].saved = wf[d].saved
          /\ wf'[d].pc \in {"delete", "clear"} => wf[d].pc \in {"final", "delete", "clear"}
          /\ object'[d] = object[d] \/ wf[d].pc = "delete"
      <3>1. CASE UpdateNotFound(d)
        <4>1. wf'[d] = AfterError(d) /\ object' = object
          BY <3>1 DEF UpdateNotFound, TypeOK
        <4>2. QED
          BY <2>2, <2>4, <4>1
      <3>2. CASE Generate(d)
        BY <2>2, <3>2 DEF Generate
      <3>3. CASE BucketDelete(d)
        <4>1. wf[d].pc = "delete" /\ wf'[d] \in {At(d, "clear"), AfterAttempt(d)}
          BY <3>3 DEF BucketDelete, TypeOK
        <4>2. /\ AfterAttempt(d).saved = wf[d].saved
              /\ AfterAttempt(d).pc = wf[d].pc \/ AfterAttempt(d).pc = "closed"
          BY <2>4, <4>1, Fields
        <4>3. At(d, "clear").saved = wf[d].saved /\ At(d, "clear").pc = "clear"
          BY Fields
        <4>4. QED
          BY <4>1, <4>2, <4>3
      <3>4. CASE Wake(d)
        <4>1. wf'[d] = At(d, "expire") /\ object' = object
          BY <3>4 DEF Wake, TypeOK
        <4>2. At(d, "expire").saved = wf[d].saved /\ At(d, "expire").pc = "expire"
          BY Fields
        <4>3. QED
          BY <4>1, <4>2
      <3>5. CASE Abandon(d)
        <4>1. /\ wf'[d] = AfterError(d) /\ wf[d].pc \in {"initial", "expire", "clear", "sleep", "delete"}
              /\ wf[d].pc # "delete" => object' = object
          BY <3>5 DEF Abandon, Disconnected, UpdatePC, TypeOK
        <4>2. QED
          BY <2>2, <2>4, <4>1
      <3>6. CASE Cancel(d)
        <4>1. wf'[d].pc = wf[d].pc /\ wf'[d].saved = wf[d].saved /\ object' = object
          BY <2>3, <3>6 DEF Cancel, TypeOK, Workflow
        <4>2. QED
          BY <2>2, <4>1
      <3>7. QED
        BY <3>1, <3>2, <3>3, <3>4, <3>5, <3>6
    <2>6. wf[d].pc = "final" => ~wf[d].saved
      BY <2>3 DEF Places
    <2>7. /\ wf'[d].pc \in {"delete", "clear"} /\ wf'[d].saved => Over(q)
          /\ wf'[d].saved => object'[d] \/ Over(q)
      BY <2>2, <2>5, <2>6
    <2>8. QED
      BY <1>1, <1>6, <2>1, <2>5, <2>7 DEF Promised
  <1>7. QED
    BY <1>4, <1>5, <1>6

\* A workflow that was started stays so.
LEMMA StaysStarted ==
    ASSUME TypeOK, OwnInv, [Next]_vars, NEW d \in Dips, wf[d].pc # "none"
    PROVE  wf'[d].pc # "none"
  <1>1. wf[d] \in Workflow
    BY DEF TypeOK
  <1>2. ASSUME wf' = wf
        PROVE  wf'[d].pc # "none"
    BY <1>2
  <1>3. ASSUME NEW q \in Requests, StartWorkflow(q)
        PROVE  wf'[d].pc # "none"
    <2>1. req[q].dip \in Dips /\ wf[req[q].dip].pc = "none"
      BY <1>3 DEF StartWorkflow, OwnInv
    <2>2. wf' \in {wf, [wf EXCEPT ![req[q].dip].pc = "initial"]}
      BY <1>3 DEF StartWorkflow
    <2>3. QED
      BY <2>1, <2>2 DEF TypeOK
  <1>4. ASSUME NEW q \in Requests,
               Reuse(q) \/ Create(q) \/ RequestFails(q) \/ Cleanup(q) \/ Crash(q)
        PROVE  wf' = wf
    BY <1>4 DEF Reuse, Create, RequestFails, Cleanup, Crash
  <1>5. ASSUME NEW e \in Dips, WorkflowStep(e) \/ Cancel(e)
        PROVE  wf'[d].pc # "none"
    <2>1. CASE e # d
      <3>1. wf'[d] = wf[d]
        BY <1>5, <2>1 DEF WorkflowStep, Cancel, UpdateDIP, UpdateNotFound, Generate, BucketDelete,
                          Wake, Abandon, TypeOK
      <3>2. QED
        BY <3>1
    <2>2. CASE e = d
      <3>1. /\ AfterError(d).pc # "none" /\ AfterAttempt(d).pc # "none"
            /\ \A pc : At(d, pc).pc = pc
            /\ wf[d].pc \in UpdatePC => \A r : AfterUpdate(d, r).pc # "none"
        BY WorkflowMoves
      <3>2. CASE UpdateDIP(d)
        BY <3>1, <3>2 DEF UpdateDIP, TypeOK
      <3>3. CASE UpdateNotFound(d) \/ Abandon(d)
        BY <3>1, <3>3 DEF UpdateNotFound, Abandon, TypeOK
      <3>4. CASE BucketDelete(d) \/ Wake(d)
        BY <3>1, <3>4 DEF BucketDelete, Wake, TypeOK
      <3>5. CASE Generate(d)
        <4>1. \A f \in BOOLEAN : /\ ToFinal(d, f).pc = "final"
                                 /\ [ToFinal(d, f) EXCEPT !.key = TRUE].pc = "final"
          BY WorkflowAfter, Fields DEF Workflow, WfPC
        <4>2. \E f \in BOOLEAN : \/ wf'[d] = ToFinal(d, f)
                                 \/ wf'[d] = [ToFinal(d, f) EXCEPT !.key = TRUE]
          BY <3>5 DEF Generate, TypeOK
        <4>3. QED
          BY <4>1, <4>2
      <3>6. CASE Cancel(d)
        BY <1>1, <3>6 DEF Cancel, TypeOK, Workflow
      <3>7. QED
        BY <1>5, <2>2, <3>2, <3>3, <3>4, <3>5, <3>6 DEF WorkflowStep
    <2>3. QED
      BY <2>1, <2>2
  <1>6. CASE Tick \/ UNCHANGED vars
    BY <1>6 DEF Tick, vars
  <1>7. QED
    BY <1>2, <1>3, <1>4, <1>5, <1>6 DEF Next, HandlerStep

\* Every step keeps what the handlers hold, and what the callers were promised.
LEMMA PromiseStep ==
    TypeOK /\ OwnInv /\ DriveInv /\ PromiseInv /\ [Next]_vars => PromiseInv'
  <1> SUFFICES ASSUME TypeOK, OwnInv, DriveInv, PromiseInv, [Next]_vars
               PROVE  PromiseInv'
    OBVIOUS
  <1> DEFINE Same(q) == req'[q] = req[q]
  <1>1. \A q \in Requests : Holds(q) /\ Promised(q)
    BY DEF PromiseInv
  <1>2. ASSUME NEW q \in Requests, Same(q)
        PROVE  Holds(q)'
    BY <1>1, <1>2, StaysStarted DEF Holds
  <1>3. TypeOK' /\ row' \in [Dips -> Row] /\ clock \in Nat
    BY TypeStep DEF TypeOK
  <1>4. ASSUME NEW q \in Requests, Same(q), wf' = wf, object' = object, row' = row,
               clock' \in Nat, clock' >= clock
        PROVE  Promised(q)'
    BY <1>1, <1>3, <1>4, PromiseKept
  <1>5. ASSUME NEW q \in Requests, req'[q].pc # "accepted", req'[q].pc # "idle",
               req'[q].pc \in {"start", "cleanup"} => req'[q].dip \in Dips
        PROVE  Holds(q)' /\ Promised(q)'
    BY <1>5 DEF Holds, Promised
  <1>6. ASSUME NEW q \in Requests, Reuse(q)
        PROVE  PromiseInv'
    <2>1. PICK doc \in Docs, ignoreCache \in BOOLEAN, retention \in Retentions :
            \E d \in Newest(Candidates(doc, ignoreCache)) :
               LET r == Renewed(row[d], retention, clock)
               IN  /\ row' = [row EXCEPT ![d] = r]
                   /\ \/ req' = [req EXCEPT ![q] = Accepted(d, r)]
                      \/ req' = [req EXCEPT ![q].pc = "error"]
      BY <1>6, ZenonT(30) DEF Reuse
    <2>2. PICK d \in Newest(Candidates(doc, ignoreCache)) :
               LET r == Renewed(row[d], retention, clock)
               IN  /\ row' = [row EXCEPT ![d] = r]
                   /\ \/ req' = [req EXCEPT ![q] = Accepted(d, r)]
                      \/ req' = [req EXCEPT ![q].pc = "error"]
      BY <2>1
    <2> DEFINE r == Renewed(row[d], retention, clock)
    <2>3. d \in Dips /\ row[d] \in Row /\ row[d].status \in {"queued", "in progress", "stored"}
          /\ retention \in Nat
      BY NumberAssumption DEF TypeOK, Newest, Candidates, Reusable, Pending
    <2>4. /\ r \in Row /\ r.status = row[d].status
          /\ \/ r.expiresAt = row[d].expiresAt
             \/ /\ row[d].expiresAt # Never
                /\ \/ r.expiresAt = Never
                   \/ r.expiresAt > row[d].expiresAt
      BY <1>3, <2>3, RenewedRow
    <2>5. /\ row'[d] = r /\ \A e \in Dips : e # d => row'[e] = row[e]
          /\ wf' = wf /\ object' = object /\ clock' = clock
      BY <1>6, <2>2, <2>3 DEF Reuse, TypeOK
    <2>6. \/ req' = [req EXCEPT ![q] = Accepted(d, r)]
          \/ req' = [req EXCEPT ![q].pc = "error"]
      BY <2>2
    <2> HIDE DEF r
    <2>7. ASSUME NEW p \in Requests, p # q
          PROVE  Holds(p)' /\ Promised(p)'
      <3>1. Same(p)
        BY <2>6, <2>7 DEF TypeOK
      <3>2. QED
        <4>1. clock' \in Nat /\ clock' >= clock
          BY <1>3, <2>5
        <4>2. \A e \in Dips :
                 /\ wf'[e] = wf[e] /\ object'[e] = object[e] /\ row'[e].status = row[e].status
                 /\ \/ row'[e].expiresAt = row[e].expiresAt
                    \/ row'[e].expiresAt = Never
                    \/ row[e].expiresAt # Never /\ row'[e].expiresAt > row[e].expiresAt
          BY <2>4, <2>5
        <4>3. QED
          BY <1>1, <1>2, <1>3, <3>1, <4>1, <4>2, PromiseKept
    <2>8. CASE req' = [req EXCEPT ![q].pc = "error"]
      <3>1. req'[q].pc = "error"
        BY <2>8 DEF TypeOK, Handler
      <3>2. QED
        BY <1>5, <2>7, <3>1 DEF PromiseInv
    <2>9. CASE req' = [req EXCEPT ![q] = Accepted(d, r)]
      <3>1. req'[q] = Accepted(d, r)
        BY <2>9 DEF TypeOK
      <3>2. /\ req'[q].pc = "accepted" /\ req'[q].dip = d /\ req'[q].until = r.expiresAt
            /\ req'[q].answer = IF r.status = "stored" THEN "stored" ELSE "pending"
        BY <3>1 DEF Accepted
      <3>3. Holds(q)'
        BY <3>2 DEF Holds
      <3>4. Places(d) /\ Attended(d)
        BY <2>3 DEF DriveInv
      <3>5. r.expiresAt \in Nat
        BY <2>4 DEF Row
      <3>6. Promised(q)'
        <4>1. CASE r.status # "stored"
          BY <3>2, <4>1 DEF Promised
        <4>2. CASE r.status = "stored"
          <5>1. row[d].status = "stored" /\ row'[d].status = "stored"
            BY <2>4, <2>5, <4>2
          <5>2. /\ wf[d].pc \notin {"none", "initial", "generate"}
                /\ ~(wf[d].pc \in {"delete", "clear"} /\ wf[d].saved)
                /\ wf[d].saved => object[d]
            BY <3>4, <5>1 DEF Places, Attended, Pending
          <5>3. req'[q].until = row'[d].expiresAt /\ row'[d].expiresAt <= row'[d].expiresAt
            BY <2>5, <3>2, <3>5
          <5>4. QED
            BY <2>3, <2>5, <3>2, <5>1, <5>2, <5>3 DEF Promised
        <4>3. QED
          BY <4>1, <4>2
      <3>7. QED
        BY <2>7, <3>3, <3>6 DEF PromiseInv
    <2>10. QED
      BY <2>6, <2>8, <2>9
  <1>7. ASSUME NEW q \in Requests, Create(q)
        PROVE  PromiseInv'
    <2>1. PICK d \in Dips, doc \in Docs :
             /\ wf[d].pc = "none"
             /\ row' = [row EXCEPT ![d] = QueuedRow(doc, clock)]
             /\ \/ req' = [req EXCEPT ![q].pc = "start", ![q].dip = d]
                \/ req' = [req EXCEPT ![q].pc = "error"]
      BY <1>7 DEF Create, Fresh
    <2>2. /\ \A e \in Dips : e # d => row'[e] = row[e]
          /\ wf' = wf /\ object' = object /\ clock' = clock
      BY <1>7, <2>1 DEF Create, TypeOK
    <2>3. /\ req'[q].pc \in {"start", "error"} /\ (req'[q].pc = "start" => req'[q].dip = d)
          /\ \A p \in Requests : p # q => Same(p)
      BY <2>1 DEF TypeOK, Handler
    <2>4. ASSUME NEW p \in Requests, p # q
          PROVE  Promised(p)'
      <3>1. CASE req[p].pc = "accepted" /\ req[p].answer = "stored"
        <4>1. req[p].dip # d
          BY <1>1, <2>1, <3>1 DEF Promised
        <4>2. QED
          BY <1>1, <1>3, <2>2, <2>3, <2>4, <4>1, PromiseKept
      <3>2. CASE ~(req[p].pc = "accepted" /\ req[p].answer = "stored")
        BY <2>3, <2>4, <3>2 DEF Promised
      <3>3. QED
        BY <3>1, <3>2
    <2>5. QED
      BY <1>2, <1>5, <2>3, <2>4 DEF PromiseInv
  <1>8. ASSUME NEW q \in Requests, RequestFails(q) \/ Crash(q)
        PROVE  PromiseInv'
    <2>1. /\ req'[q].pc \in {"error", "crashed"} /\ \A p \in Requests : p # q => Same(p)
          /\ wf' = wf /\ object' = object /\ row' = row /\ clock' = clock
      BY <1>8 DEF RequestFails, Crash, TypeOK, Handler
    <2>2. \A p \in Requests : p # q => Promised(p)'
      BY <1>3, <1>4, <2>1
    <2>3. QED
      BY <1>2, <1>5, <2>1, <2>2 DEF PromiseInv
  <1>9. ASSUME NEW q \in Requests, StartWorkflow(q)
        PROVE  PromiseInv'
    <2>1. PICK d \in Dips : d = req[q].dip /\ wf[d].pc = "none"
      BY <1>9 DEF StartWorkflow, OwnInv
    <2>2. /\ \A e \in Dips : e # d => wf'[e] = wf[e]
          /\ object' = object /\ row' = row /\ clock' = clock
      BY <1>9, <2>1 DEF StartWorkflow, TypeOK
    <2>3. /\ \A p \in Requests : p # q => Same(p)
          /\ \/ /\ req'[q].pc = "accepted" /\ req'[q].answer = "created" /\ req'[q].dip = d
                /\ wf'[d].pc = "initial"
             \/ req'[q].pc = "cleanup" /\ req'[q].dip = d
      BY <1>9, <2>1 DEF StartWorkflow, TypeOK, Handler, Workflow
    <2>4. ASSUME NEW p \in Requests, p # q
          PROVE  Promised(p)'
      <3>1. CASE req[p].pc = "accepted" /\ req[p].answer = "stored"
        <4>1. req[p].dip # d
          BY <1>1, <2>1, <3>1 DEF Promised
        <4>2. QED
          BY <1>1, <1>3, <2>2, <2>3, <2>4, <4>1, PromiseKept
      <3>2. CASE ~(req[p].pc = "accepted" /\ req[p].answer = "stored")
        BY <2>3, <2>4, <3>2 DEF Promised
      <3>3. QED
        BY <3>1, <3>2
    <2>5. Holds(q)' /\ Promised(q)'
      BY <2>3 DEF Holds, Promised
    <2>6. QED
      BY <1>2, <2>3, <2>4, <2>5 DEF PromiseInv
  <1>10. ASSUME NEW q \in Requests, Cleanup(q)
         PROVE  PromiseInv'
    <2>1. /\ req'[q].pc = "error" /\ \A p \in Requests : p # q => Same(p)
          /\ wf' = wf /\ object' = object /\ clock' = clock
      BY <1>10 DEF Cleanup, TypeOK, Handler
    <2>2. \A e \in Dips : row'[e] = row[e] \/ row'[e].status = "absent"
      BY <1>10 DEF Cleanup, Absent, TypeOK
    <2>3. \A p \in Requests : p # q => Promised(p)'
      BY <1>1, <1>3, <2>1, <2>2, PromiseKept
    <2>4. QED
      BY <1>2, <1>5, <2>1, <2>3 DEF PromiseInv
  <1>11. ASSUME NEW d \in Dips, WorkflowStep(d) \/ Cancel(d)
         PROVE  PromiseInv'
    <2>1. req' = req
      BY <1>11 DEF WorkflowStep, Cancel, UpdateDIP, UpdateNotFound, Generate, BucketDelete,
                   Wake, Abandon
    <2>2. \A q \in Requests : Promised(q)'
      BY <1>1, <1>11, UpdateKeepsPromise, StepKeepsPromise DEF WorkflowStep
    <2>3. QED
      BY <1>2, <2>1, <2>2 DEF PromiseInv
  <1>12. CASE Tick \/ UNCHANGED vars
    <2>1. /\ wf' = wf /\ object' = object /\ row' = row /\ req' = req
          /\ clock' \in Nat /\ clock' >= clock
      BY <1>3, <1>12 DEF Tick, vars
    <2>2. QED
      BY <1>2, <1>4, <2>1 DEF PromiseInv
  <1>13. QED
    BY <1>6, <1>7, <1>8, <1>9, <1>10, <1>11, <1>12 DEF Next, HandlerStep

\* The places of all workflows and the promises to all callers hold for ever.
THEOREM SpecDriven == Spec => [](TypeOK /\ OwnInv /\ KeyInv /\ DriveInv /\ PromiseInv)
  <1>1. Init => OwnInv /\ KeyInv /\ DriveInv /\ PromiseInv
    <2>1. Init => \A q \in Requests : req[q].pc = "idle" /\ req[q].dip = NoDip
      BY DEF Init
    <2>2. Init => \A d \in Dips : /\ row[d] = Absent /\ ~object[d]
                                  /\ wf[d].pc = "none" /\ ~wf[d].saved
      BY DEF Init
    <2>3. Absent.status = "absent"
      BY DEF Absent
    <2>4. Init => OwnInv /\ KeyInv
      BY <2>1, <2>2, <2>3 DEF OwnInv, KeyInv, Completed
    <2>5. Init => DriveInv
      BY <2>2, <2>3 DEF DriveInv, Places, Attended, Pending
    <2>6. Init => PromiseInv
      BY <2>1 DEF PromiseInv, Holds, Promised
    <2>7. QED
      BY <2>4, <2>5, <2>6
  <1>2. QED
    BY <1>1, OwnStep, KeyStep, DriveStep, PromiseStep, TypeCorrect, PTL DEF Spec

\* A caller that was handed a stored DIP can fetch it until the expiry it was handed,
\* whatever retention, renewals, retries, clean-ups and cancellations do meanwhile.
THEOREM SpecCachedAnswerStaysAvailable == Spec => []CachedAnswerStaysAvailable
  <1>1. TypeOK /\ PromiseInv => CachedAnswerStaysAvailable
    <2> SUFFICES ASSUME TypeOK, PromiseInv, NEW q \in Requests,
                        req[q].pc = "accepted", req[q].answer = "stored",
                        wf[req[q].dip].saved, req[q].until = Never \/ clock < req[q].until
                 PROVE  object[req[q].dip]
      BY DEF CachedAnswerStaysAvailable
    <2>1. object[req[q].dip] \/ Over(q)
      BY DEF PromiseInv, Promised
    <2>2. clock \in Nat /\ req[q].until \in Nat
      BY DEF TypeOK, Handler
    <2>3. ~Over(q)
      BY <2>2 DEF Over
    <2>4. QED
      BY <2>1, <2>3
  <1>2. QED
    BY <1>1, SpecDriven, PTL

\* No stored DIP has an expiry that nobody will act on.
THEOREM SpecExpiryIsAttended == Spec => []ExpiryIsAttended
  <1>1. DriveInv => ExpiryIsAttended
    BY DEF DriveInv, Attended, ExpiryIsAttended
  <1>2. QED
    BY <1>1, SpecDriven, PTL

\* A generation that a caller was told it started is driven until its outcome is recorded.
THEOREM SpecAcceptedIsDriven == Spec => []AcceptedIsDriven
  <1>1. DriveInv /\ PromiseInv => AcceptedIsDriven
    <2> SUFFICES ASSUME DriveInv, PromiseInv, NEW q \in Requests,
                        req[q].pc = "accepted", req[q].answer = "created",
                        row[req[q].dip].status \in Pending
                 PROVE  wf[req[q].dip].pc # "none" /\ ~wf[req[q].dip].saved
      BY DEF AcceptedIsDriven
    <2>1. req[q].dip \in Dips /\ wf[req[q].dip].pc # "none"
      BY DEF PromiseInv, Holds
    <2>2. QED
      BY <2>1 DEF DriveInv, Places
  <1>2. QED
    BY <1>1, SpecDriven, PTL

(***************************************************************************)
(* The refinement: every step is a step of the life cycle or none.         *)
(***************************************************************************)
phases    == [d \in Dips |-> Phase(d)]
documents == [d \in Dips |-> row[d].docKey]
expiries  == [d \in Dips |-> row[d].expiresAt]

AllInv == TypeOK /\ OwnInv /\ KeyInv /\ DriveInv /\ PromiseInv

\* A UUID that was drawn stays known, and one becomes known with a row.
LEMMA KnownStep ==
    ASSUME AllInv, [Next]_vars, NEW d \in Dips
    PROVE  /\ Known(d) => Known(d)'
           /\ Known(d)' => Known(d) \/ row'[d].status # "absent"
  <1>1. TypeOK /\ OwnInv /\ PromiseInv
    BY DEF AllInv
  <1>2. wf[d].pc # "none" => wf'[d].pc # "none"
    BY <1>1, StaysStarted
  <1>3. CASE UNCHANGED <<req, wf>>
    BY <1>3 DEF Known
  <1>4. ASSUME NEW q \in Requests, req'[q].dip = req[q].dip,
               \A p \in Requests : p # q => req'[p] = req[p],
               wf'[d].pc = wf[d].pc \/ req[q].dip = d
        PROVE  Known(d)' <=> Known(d)
    <2>1. \A p \in Requests : req'[p].dip = req[p].dip
      BY <1>4
    <2>2. QED
      BY <1>2, <1>4, <2>1 DEF Known
  <1>5. ASSUME NEW q \in Requests, RequestFails(q) \/ StartWorkflow(q) \/ Cleanup(q) \/ Crash(q)
        PROVE  Known(d)' <=> Known(d)
    <2>1. /\ req'[q].dip = req[q].dip /\ \A p \in Requests : p # q => req'[p] = req[p]
      BY <1>1, <1>5 DEF RequestFails, StartWorkflow, Cleanup, Crash, TypeOK, Handler
    <2>2. wf' \in {wf, [wf EXCEPT ![req[q].dip].pc = "initial"]}
      BY <1>5 DEF RequestFails, StartWorkflow, Cleanup, Crash
    <2>3. wf'[d].pc = wf[d].pc \/ req[q].dip = d
      BY <1>1, <2>2 DEF TypeOK
    <2>4. QED
      BY <1>4, <2>1, <2>3
  <1>6. ASSUME NEW q \in Requests, NEW e \in Dips, req[q].pc = "idle", wf' = wf,
               row'[e].status # "absent",
               req'[q].dip \in {e, req[q].dip}, \A p \in Requests : p # q => req'[p] = req[p]
        PROVE  /\ Known(d) => Known(d)'
               /\ Known(d)' => Known(d) \/ row'[d].status # "absent"
    <2>1. req[q].dip # d
      BY <1>1, <1>6, IdAssumption DEF PromiseInv, Holds
    <2>2. QED
      BY <1>6, <2>1 DEF Known
  <1>7. ASSUME NEW q \in Requests, Reuse(q)
        PROVE  /\ Known(d) => Known(d)'
               /\ Known(d)' => Known(d) \/ row'[d].status # "absent"
    <2>1. PICK e \in Dips, retention \in Retentions :
             LET r == Renewed(row[e], retention, clock)
             IN  /\ row[e].status # "absent"
                 /\ row' = [row EXCEPT ![e] = r]
                 /\ \/ req' = [req EXCEPT ![q] = Accepted(e, r)]
                    \/ req' = [req EXCEPT ![q].pc = "error"]
      BY <1>7 DEF Reuse, Newest, Candidates, Reusable, Pending
    <2>2. Renewed(row[e], retention, clock).status = row[e].status
      BY <1>1, <2>1, RenewedRow, NumberAssumption DEF TypeOK
    <2>3. row'[e].status # "absent"
      BY <1>1, <2>1, <2>2 DEF TypeOK
    <2>4. \A r : Accepted(e, r).dip = e
      BY DEF Accepted
    <2>5. req'[q].dip \in {e, req[q].dip} /\ \A p \in Requests : p # q => req'[p] = req[p]
      BY <1>1, <2>1, <2>4 DEF TypeOK, Handler
    <2>6. QED
      BY <1>6, <1>7, <2>3, <2>5 DEF Reuse
  <1>8. ASSUME NEW q \in Requests, Create(q)
        PROVE  /\ Known(d) => Known(d)'
               /\ Known(d)' => Known(d) \/ row'[d].status # "absent"
    <2>1. PICK e \in Dips, doc \in Docs :
             /\ row' = [row EXCEPT ![e] = QueuedRow(doc, clock)]
             /\ \/ req' = [req EXCEPT ![q].pc = "start", ![q].dip = e]
                \/ req' = [req EXCEPT ![q].pc = "error"]
      BY <1>8 DEF Create
    <2>2. row'[e].status # "absent"
      BY <1>1, <2>1 DEF TypeOK, QueuedRow
    <2>3. req'[q].dip \in {e, req[q].dip} /\ \A p \in Requests : p # q => req'[p] = req[p]
      BY <1>1, <2>1 DEF TypeOK, Handler
    <2>4. QED
      BY <1>6, <1>8, <2>2, <2>3 DEF Create
  <1>9. ASSUME NEW e \in Dips, WorkflowStep(e) \/ Cancel(e)
        PROVE  Known(d)' <=> Known(d)
    <2>1. req' = req /\ wf[e].pc # "none" /\ (e # d => wf'[d] = wf[d])
      BY <1>1, <1>9 DEF WorkflowStep, Cancel, UpdateDIP, UpdateNotFound, Generate, BucketDelete,
                  Wake, Abandon, UpdatePC, TypeOK
    <2>2. QED
      BY <1>2, <2>1 DEF Known
  <1>10. CASE Tick \/ UNCHANGED vars
    BY <1>3, <1>10 DEF Tick, vars
  <1>11. QED
    BY <1>5, <1>7, <1>8, <1>9, <1>10 DEF Next, HandlerStep

\* A step that touches one row, seen from the life cycle.
LEMMA OneRow ==
    ASSUME AllInv, [Next]_vars, NEW d \in Dips, \A e \in Dips : e # d => row'[e] = row[e]
    PROVE  /\ phases' = [phases EXCEPT ![d] = Phase(d)']
           /\ documents' = [documents EXCEPT ![d] = row'[d].docKey]
           /\ expiries' = [expiries EXCEPT ![d] = row'[d].expiresAt]
  <1>1. \A e \in Dips : e # d => Phase(e)' = Phase(e)
    <2> SUFFICES ASSUME NEW e \in Dips, e # d
                 PROVE  Phase(e)' = Phase(e)
      OBVIOUS
    <2>1. row'[e] = row[e] /\ (row[e].status = "absent" => (Known(e)' <=> Known(e)))
      BY KnownStep
    <2>2. QED
      BY <2>1 DEF Phase
  <1>2. QED
    BY <1>1 DEF phases, documents, expiries

\* A row that keeps its status, document and expiry is no step.
LEMMA SameRow ==
    ASSUME AllInv, [Next]_vars,
           \A d \in Dips : /\ row'[d].status = row[d].status /\ row'[d].docKey = row[d].docKey
                           /\ row'[d].expiresAt = row[d].expiresAt
    PROVE  phases' = phases /\ documents' = documents /\ expiries' = expiries
  <1>1. \A d \in Dips : Phase(d)' = Phase(d)
    <2> SUFFICES ASSUME NEW d \in Dips
                 PROVE  Phase(d)' = Phase(d)
      OBVIOUS
    <2>1. row'[d].status = row[d].status /\ (row[d].status = "absent" => (Known(d)' <=> Known(d)))
      BY KnownStep
    <2>2. QED
      BY <2>1 DEF Phase
  <1>2. QED
    BY <1>1 DEF phases, documents, expiries

\* An insertion accepts a generation.
LEMMA CreateAccepts ==
    ASSUME AllInv, [Next]_vars, NEW q \in Requests, Create(q)
    PROVE  \E d \in Dips, doc \in Docs : LC!Accept(d, doc)
  <1>1. PICK doc \in Docs, ignoreCache \in BOOLEAN, d \in Dips :
           /\ Candidates(doc, ignoreCache) = {}
           /\ Fresh(d)
           /\ row' = [row EXCEPT ![d] = QueuedRow(doc, clock)]
    BY DEF Create
  <1>2. TypeOK /\ DriveInv
    BY DEF AllInv
  <1>3. /\ row'[d] = QueuedRow(doc, clock) /\ clock' = clock
        /\ \A e \in Dips : e # d => row'[e] = row[e]
    BY <1>1, <1>2 DEF TypeOK, Create
  <1>4. Phase(d) = "unused" /\ row[d] = Absent
    BY <1>1, <1>2 DEF Fresh, Phase, Known, DriveInv, Places
  <1>5. row'[d].status = "queued" /\ row'[d].docKey = doc /\ row'[d].expiresAt = row[d].expiresAt
    BY <1>3, <1>4 DEF QueuedRow, Absent
  <1>6. Phase(d)' = "queued"
    BY <1>5 DEF Phase
  <1>7. \A e \in Dips : Phase(e) \in {"queued", "in progress"} => row[e].docKey # doc
    <2>1. \A e \in Dips : row[e].docKey = doc => row[e].status \notin {"queued", "in progress"}
      BY <1>1 DEF Candidates, Reusable, Pending
    <2>2. \A e \in Dips : Phase(e) \in {"queued", "in progress"} => row[e].status = Phase(e)
      BY DEF Phase
    <2>3. QED
      BY <2>1, <2>2
  <1>8. /\ phases' = [phases EXCEPT ![d] = "queued"]
        /\ documents' = [documents EXCEPT ![d] = doc]
        /\ expiries' = [expiries EXCEPT ![d] = row[d].expiresAt]
    BY <1>3, <1>5, <1>6, OneRow
  <1>9. expiries' = expiries
    BY <1>8 DEF expiries
  <1>10. LC!Accept(d, doc)
    BY <1>3, <1>4, <1>7, <1>8, <1>9
       DEF LC!Accept, LC!Become, LC!PendingPhase, phases, documents, expiries
  <1>11. QED
    BY <1>10

\* A step that changes no row and no time is none of the life cycle.
LEMMA Stutters ==
    ASSUME AllInv, [Next]_vars, clock' = clock,
           \A d \in Dips : /\ row'[d].status = row[d].status /\ row'[d].docKey = row[d].docKey
                           /\ row'[d].expiresAt = row[d].expiresAt
    PROVE  UNCHANGED LC!lvars
  <1>1. phases' = phases /\ documents' = documents /\ expiries' = expiries
    BY SameRow
  <1>2. QED
    BY <1>1 DEF LC!lvars, phases, documents, expiries

\* A request that finds a row renews it or leaves it.
LEMMA ReuseRefines ==
    ASSUME AllInv, [Next]_vars, NEW q \in Requests, Reuse(q)
    PROVE  LC!Step \/ UNCHANGED LC!lvars
  <1>1. PICK doc \in Docs, ignoreCache \in BOOLEAN, retention \in Retentions :
          \E e \in Newest(Candidates(doc, ignoreCache)) :
             row' = [row EXCEPT ![e] = Renewed(row[e], retention, clock)]
    BY DEF Reuse
  <1>2. PICK d \in Newest(Candidates(doc, ignoreCache)) :
           row' = [row EXCEPT ![d] = Renewed(row[d], retention, clock)]
    BY <1>1
  <1>3. d \in Dips /\ Reusable(row[d], ignoreCache, clock)
    BY <1>2 DEF Newest, Candidates
  <1>4. TypeOK
    BY DEF AllInv
  <1>5. row[d] \in Row /\ row[d].expiresAt \in Nat /\ clock \in Nat /\ row[d].status # "absent"
    BY <1>3, <1>4 DEF TypeOK, Row, Reusable, Pending
  <1>6. /\ row'[d] = Renewed(row[d], retention, clock) /\ clock' = clock
        /\ \A e \in Dips : e # d => row'[e] = row[e]
    BY <1>2, <1>3, <1>4 DEF TypeOK, Reuse
  <1>7. /\ row'[d] \in Row /\ row'[d].status = row[d].status /\ row'[d].docKey = row[d].docKey
        /\ \/ row'[d].expiresAt = row[d].expiresAt
           \/ /\ row[d].expiresAt # Never
              /\ row'[d].expiresAt = Never \/ row'[d].expiresAt > row[d].expiresAt
    BY <1>5, <1>6, RenewedRow, NumberAssumption
  <1>8. CASE row'[d].expiresAt = row[d].expiresAt
    BY <1>6, <1>7, <1>8, Stutters
  <1>9. CASE row'[d].expiresAt # row[d].expiresAt
    <2>1. row[d].status = "stored" /\ ~Expired(row[d], clock)
      <3>1. row[d].status # "stored" => Renewed(row[d], retention, clock) = row[d]
        BY DEF Renewed
      <3>2. row[d].status = "stored"
        BY <1>6, <1>9, <3>1
      <3>3. QED
        BY <1>3, <3>2 DEF Reusable, Pending
    <2>2. row[d].expiresAt > clock
      BY <1>5, <1>7, <1>9, <2>1 DEF Expired
    <2>3. Phase(d) = "stored" /\ Phase(d)' = "stored"
      BY <1>7, <2>1 DEF Phase
    <2>4. phases' = phases /\ documents' = documents
      <3>1. /\ phases' = [phases EXCEPT ![d] = Phase(d)']
            /\ documents' = [documents EXCEPT ![d] = row'[d].docKey]
        BY <1>3, <1>6, OneRow
      <3>2. phases' = [phases EXCEPT ![d] = phases[d]]
        BY <1>3, <2>3, <3>1 DEF phases
      <3>3. documents' = [documents EXCEPT ![d] = documents[d]]
        BY <1>3, <1>7, <3>1 DEF documents
      <3>4. QED
        BY <3>2, <3>3 DEF phases, documents
    <2>5. expiries' = [expiries EXCEPT ![d] = row'[d].expiresAt]
      BY <1>3, <1>6, OneRow
    <2>6. row'[d].expiresAt \in Nat
      BY <1>7 DEF Row
    <2>7. LC!Renew(d)
      BY <1>3, <1>6, <1>7, <1>9, <2>2, <2>3, <2>4, <2>5, <2>6
         DEF LC!Renew, LC!Never, Never, phases, documents, expiries
    <2>8. QED
      BY <1>3, <2>7 DEF LC!Step
  <1>10. QED
    BY <1>8, <1>9

\* A clean-up withdraws the row of its handler, or finds none.
LEMMA CleanupRefines ==
    ASSUME AllInv, [Next]_vars, NEW q \in Requests, Cleanup(q)
    PROVE  LC!Step \/ UNCHANGED LC!lvars
  <1>1. TypeOK /\ DriveInv /\ PromiseInv
    BY DEF AllInv
  <1>2. PICK d \in Dips : d = req[q].dip
    BY <1>1 DEF Cleanup, PromiseInv, Holds
  <1>3. clock' = clock /\ \A e \in Dips : e # d => row'[e] = row[e]
    BY <1>1, <1>2 DEF Cleanup, TypeOK
  <1>4. CASE row'[d] = row[d]
    BY <1>3, <1>4, Stutters
  <1>5. CASE row'[d] # row[d]
    <2>1. row'[d] = Absent
      BY <1>1, <1>2, <1>5 DEF Cleanup, TypeOK
    <2>2. row[d].status # "absent"
      BY <1>1, <1>5, <2>1 DEF DriveInv, Places
    <2>3. Known(d)'
      <3>1. Known(d)
        BY <1>2 DEF Known
      <3>2. QED
        BY <3>1, KnownStep
    <2>4. row[d].status \in Status
      BY <1>1, <2>2 DEF TypeOK, Row
    <2>5. Phase(d) \notin {"unused", "withdrawn"} /\ Phase(d)' = "withdrawn"
      <3>1. Phase(d) = row[d].status
        BY <2>2 DEF Phase
      <3>2. row'[d].status = "absent"
        BY <2>1 DEF Absent
      <3>3. Phase(d)' = "withdrawn"
        BY <2>3, <3>2 DEF Phase
      <3>4. QED
        BY <2>4, <3>1, <3>3 DEF Status, Pending, Completed
    <2>6. row'[d].docKey = NoDoc /\ row'[d].expiresAt = 0
      BY <2>1 DEF Absent, Never
    <2>7. /\ phases' = [phases EXCEPT ![d] = "withdrawn"]
          /\ documents' = [documents EXCEPT ![d] = NoDoc]
          /\ expiries' = [expiries EXCEPT ![d] = 0]
      BY <1>3, <2>5, <2>6, OneRow
    <2>8. LC!Withdraw(d)
      BY <1>3, <2>5, <2>7 DEF LC!Withdraw, LC!Become, LC!Never, phases, documents, expiries
    <2>9. QED
      BY <2>8 DEF LC!Step
  <1>6. QED
    BY <1>4, <1>5

\* A committed update of the workflow, told by the step it belongs to.
LEMMA UpdateRefines ==
    ASSUME AllInv, [Next]_vars, NEW d \in Dips, UpdateDIP(d)
    PROVE  LC!Step \/ UNCHANGED LC!lvars
  <1>1. TypeOK /\ Places(d) /\ wf[d].pc \in UpdatePC /\ row[d].status # "absent"
    BY DEF AllInv, DriveInv, UpdateDIP
  <1>2. PICK r \in UpdatedRows(d) : row' \in {row, [row EXCEPT ![d] = r]}
    BY DEF UpdateDIP
  <1>3. clock' = clock /\ clock \in Nat /\ row[d] \in Row
    BY <1>1 DEF UpdateDIP, TypeOK
  <1>4. CASE row' = row
    BY <1>3, <1>4, Stutters
  <1>5. CASE row' = [row EXCEPT ![d] = r]
    <2>1. row'[d] = r /\ \A e \in Dips : e # d => row'[e] = row[e]
      BY <1>1, <1>5 DEF TypeOK
    <2>2. RowUpdate(row[d], r)
      BY <1>1, UpdatedRow
    <2>3. r \in Row /\ r.docKey = row[d].docKey /\ r.status # "absent" /\ r.expiresAt \in Nat
      BY <2>2 DEF RowUpdate, Row
    <2>4. Phase(d) = row[d].status /\ Phase(d)' = r.status
      BY <1>1, <2>1, <2>3 DEF Phase
    <2>5. /\ phases' = [phases EXCEPT ![d] = r.status]
          /\ documents' = documents
          /\ expiries' = [expiries EXCEPT ![d] = r.expiresAt]
      <3>1. /\ phases' = [phases EXCEPT ![d] = Phase(d)']
            /\ documents' = [documents EXCEPT ![d] = row'[d].docKey]
            /\ expiries' = [expiries EXCEPT ![d] = row'[d].expiresAt]
        BY <2>1, OneRow
      <3>2. documents' = documents
        BY <2>1, <2>3, <3>1 DEF documents
      <3>3. QED
        BY <2>1, <2>4, <3>1, <3>2
    <2>6. r.expiresAt = row[d].expiresAt => expiries' = expiries
      BY <2>5 DEF expiries
    <2>7. CASE r.status = row[d].status /\ r.expiresAt = row[d].expiresAt
      BY <1>3, <2>1, <2>3, <2>7, Stutters
    <2>8. CASE wf[d].pc = "initial" /\ r.status # row[d].status
      <3>1. row[d].status = "queued" /\ r.status = "in progress" /\ r.expiresAt = row[d].expiresAt
        BY <1>1, <2>8, UpdatedPlace DEF Places, Pending
      <3>2. LC!Begin(d)
        BY <1>3, <2>4, <2>5, <2>6, <3>1 DEF LC!Begin, LC!Become, phases, documents, expiries
      <3>3. QED
        BY <3>2 DEF LC!Step
    <2>9. CASE wf[d].pc = "final" /\ wf[d].err /\ r.status # row[d].status
      <3>1. r.status = "failed" /\ row[d].status \in {"queued", "in progress"}
        BY <1>1, <2>9, UpdatedPlace DEF Places, Pending
      <3>2. r.expiresAt = row[d].expiresAt
        BY <1>3, <2>9 DEF UpdatedRows, FailedUpdate, Row
      <3>3. LC!Fail(d)
        BY <1>3, <2>4, <2>5, <2>6, <3>1, <3>2
           DEF LC!Fail, LC!Become, LC!PendingPhase, phases, documents, expiries
      <3>4. QED
        BY <3>3 DEF LC!Step
    <2>10. CASE wf[d].pc = "final" /\ ~wf[d].err /\ r.status # row[d].status
      <3>1. r.status = "stored" /\ row[d].status = "in progress" /\ row[d].expiresAt = 0
        BY <1>1, <2>10, UpdatedPlace DEF Places, Pending, Never
      <3>2. PICK retention \in Retentions : r = StoredUpdate(row[d], retention, clock)
        BY <2>10 DEF UpdatedRows
      <3>3. r.expiresAt = IF retention > 0 /\ clock + retention > row[d].expiresAt
                          THEN clock + retention ELSE row[d].expiresAt
        <4>1. row[d].status \notin Completed
          BY <3>1 DEF Completed
        <4>2. QED
          BY <1>3, <3>2, <4>1 DEF StoredUpdate, Row
      <3>4. r.expiresAt = 0 \/ r.expiresAt > clock
        <4>1. clock \in Nat /\ retention \in Nat
          BY <1>3, NumberAssumption
        <4>2. CASE retention > 0 /\ clock + retention > row[d].expiresAt
          BY <3>3, <4>1, <4>2
        <4>3. CASE ~(retention > 0 /\ clock + retention > row[d].expiresAt)
          BY <3>1, <3>3, <4>3
        <4>4. QED
          BY <4>2, <4>3
      <3>5. LC!Store(d)
        BY <1>3, <2>3, <2>4, <2>5, <3>1, <3>4
           DEF LC!Store, LC!Become, LC!Never, phases, documents, expiries
      <3>6. QED
        BY <3>5 DEF LC!Step
    <2>11. CASE wf[d].pc = "expire" /\ r.status # row[d].status
      <3>1. /\ row[d].status = "stored" /\ r.status = "deleted"
            /\ r.expiresAt = row[d].expiresAt
        BY <1>1, <2>11, UpdatedPlace
      <3>2. Expired(row[d], clock)
        BY <2>2, <2>11, <3>1 DEF RowUpdate, Completed
      <3>3. LC!Expire(d)
        BY <1>3, <2>4, <2>5, <2>6, <3>1, <3>2
           DEF LC!Expire, LC!Become, LC!Never, Expired, Never, phases, documents, expiries
      <3>4. QED
        BY <3>3 DEF LC!Step
    <2>12. CASE wf[d].pc = "clear"
      BY <1>1, <2>7, <2>12, UpdatedPlace
    <2>13. CASE r.status = row[d].status /\ wf[d].pc \in {"initial", "final", "expire"}
      <3>1. CASE wf[d].pc = "initial"
        BY <1>1, <2>7, <2>13, <3>1, UpdatedPlace DEF Places, Pending
      <3>2. CASE wf[d].pc = "final"
        <4>1. row[d].status \in Completed
          BY <1>1, <2>13, <3>2, UpdatedPlace DEF Completed
        <4>2. r.expiresAt = row[d].expiresAt
          BY <2>2, <4>1 DEF RowUpdate
        <4>3. QED
          BY <2>7, <2>13, <4>2
      <3>3. CASE wf[d].pc = "expire"
        BY <1>1, <2>7, <2>13, <3>3, UpdatedPlace
      <3>4. QED
        BY <2>13, <3>1, <3>2, <3>3
    <2>14. QED
      BY <1>1, <2>8, <2>9, <2>10, <2>11, <2>12, <2>13 DEF UpdatePC
  <1>6. QED
    BY <1>2, <1>4, <1>5

\* The whole service: every step is one of the life cycle, or none.
LEMMA StepRefines == AllInv /\ [Next]_vars => LC!Step \/ UNCHANGED LC!lvars
  <1> SUFFICES ASSUME AllInv, [Next]_vars
               PROVE  LC!Step \/ UNCHANGED LC!lvars
    OBVIOUS
  <1>1. ASSUME NEW q \in Requests, Create(q)
        PROVE  LC!Step
    BY <1>1, CreateAccepts DEF LC!Step
  <1>2. ASSUME NEW q \in Requests, RequestFails(q) \/ StartWorkflow(q) \/ Crash(q)
        PROVE  UNCHANGED LC!lvars
    <2>1. row' = row /\ clock' = clock
      BY <1>2 DEF RequestFails, StartWorkflow, Crash
    <2>2. QED
      BY <2>1, Stutters
  <1>3. ASSUME NEW d \in Dips, \/ UpdateNotFound(d) \/ Generate(d) \/ BucketDelete(d)
                               \/ Wake(d) \/ Abandon(d) \/ Cancel(d)
        PROVE  UNCHANGED LC!lvars
    <2>1. row' = row /\ clock' = clock
      BY <1>3 DEF UpdateNotFound, Generate, BucketDelete, Wake, Abandon, Cancel
    <2>2. QED
      BY <2>1, Stutters
  <1>4. CASE Tick
    <2>1. clock' = clock + 1 /\ row' = row
      BY <1>4 DEF Tick
    <2>2. phases' = phases /\ documents' = documents /\ expiries' = expiries
      BY <2>1, SameRow
    <2>3. LC!Pass
      BY <2>1, <2>2 DEF LC!Pass, phases, documents, expiries
    <2>4. QED
      BY <2>3 DEF LC!Step
  <1>5. CASE UNCHANGED vars
    BY <1>5, Stutters DEF vars
  <1>6. QED
    BY <1>1, <1>2, <1>3, <1>4, <1>5, ReuseRefines, CleanupRefines, UpdateRefines
       DEF Next, HandlerStep, WorkflowStep

\* The handlers, the workflows and the table together implement the life cycle: it is
\* all that a client of the service can tell from its rows.
THEOREM SpecImplements == Spec => Implements
  <1>1. Init => LC!Start
    <2>1. Init => \A d \in Dips : /\ row[d] = Absent /\ wf[d].pc = "none"
                                  /\ \A q \in Requests : req[q].dip # d
      BY IdAssumption DEF Init
    <2>2. Init => \A d \in Dips : /\ Phase(d) = "unused" /\ row[d].docKey = NoDoc
                                  /\ row[d].expiresAt = 0
      BY <2>1 DEF Phase, Known, Absent, Never
    <2>3. Init => clock = 1
      BY DEF Init
    <2>4. QED
      BY <2>2, <2>3 DEF LC!Start, LC!Never
  <1>2. AllInv /\ [Next]_vars => [LC!Step]_(LC!lvars)
    BY StepRefines
  <1>3. Spec => []AllInv
    BY SpecDriven DEF AllInv
  <1>4. QED
    BY <1>1, <1>2, <1>3, PTL DEF Spec, Implements, LC!Lifecycle
==============================================================================
