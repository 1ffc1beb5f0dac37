------------------------------ MODULE DipService ------------------------------
(***************************************************************************)
(* The sfa-dips service: POST /dips handlers (internal/dips/service.go),   *)
(* the dip table, the create-dip workflow of each DIP                      *)
(* (internal/dips/workflows/create_dip.go) and the bucket that holds the   *)
(* generated archives.                                                     *)
(*                                                                         *)
(* A database transaction is one step, as RequestDIP and UpdateDIP lock    *)
(* the rows they read.  A call whose answer matters to the caller has      *)
(* three outcomes: done and reported, done with the answer lost, and not   *)
(* done.  The last two are faults; MaxFaults bounds their number.          *)
(***************************************************************************)
EXTENDS DipRecord

CONSTANTS Dips,         \* UUIDs a request may draw
          NoDip,        \* the DIP of a handler that holds none
          Requests,     \* POST /dips calls
          Retentions,   \* retention periods configured over time, 0 = unlimited
          MaxTries,     \* attempts of an activity (RetryPolicy.MaximumAttempts)
          MaxFaults,    \* bound: lost or failed calls
          MaxTime       \* bound: last value of the clock

ASSUME IdAssumption     == NoDip \notin Dips /\ NoDoc \notin Docs
ASSUME NumberAssumption == /\ Retentions \subseteq Nat
                           /\ MaxTries \in Nat \ {0}
                           /\ MaxFaults \in Nat
                           /\ MaxTime \in Nat

VARIABLES row,      \* the dip table
          req,      \* the POST /dips handlers
          wf,       \* the create-dip workflow of each DIP
          object,   \* is the DIP's archive in the bucket?
          clock,
          faults

vars == <<row, req, wf, object, clock, faults>>

ReqPC == {"idle", "start", "cleanup", "accepted", "error", "crashed"}

\* dip is the row of the handler, answer tells what it was to the caller: one
\* created for this call, one found pending, or one found stored, which expires
\* at until.
Answer  == {"none", "created", "pending", "stored"}
Handler == [pc: ReqPC, dip: Dips \cup {NoDip}, answer: Answer, until: Nat]

WfPC == {"none", "initial", "generate", "final", "expire", "sleep", "delete",
         "clear", "closed"}

\* A canceled context is "closing" while the step it was canceled in may have
\* an activity running, and "done" from the next step on.
Context == {"open", "closing", "done"}

\* err: Execute's e is not nil; key: state.objectKey is set; saved: the final
\* update was reported successful; until: the expiry slept for.
Workflow == [pc: WfPC, tries: 1..MaxTries, err: BOOLEAN, key: BOOLEAN,
             saved: BOOLEAN, ctx: Context, until: Nat]

TypeOK ==
    /\ row \in [Dips -> Row]
    /\ req \in [Requests -> Handler]
    /\ wf \in [Dips -> Workflow]
    /\ object \in [Dips -> BOOLEAN]
    /\ clock \in Nat \ {0}
    /\ faults \in 0..MaxFaults

Init ==
    /\ row = [d \in Dips |-> Absent]
    /\ req = [q \in Requests |->
                [pc |-> "idle", dip |-> NoDip, answer |-> "none", until |-> Never]]
    /\ wf = [d \in Dips |->
                [pc |-> "none", tries |-> 1, err |-> FALSE, key |-> FALSE,
                 saved |-> FALSE, ctx |-> "open", until |-> Never]]
    /\ object = [d \in Dips |-> FALSE]
    /\ clock = 1
    /\ faults = 0

Fault   == faults < MaxFaults /\ faults' = faults + 1
NoFault == UNCHANGED faults

(***************************************************************************)
(* The POST /dips handler.                                                 *)
(***************************************************************************)

\* The rows RequestDIP may reuse, and the newest of them; createdAt has the
\* resolution of the clock, so several rows may be the newest.
Candidates(doc, ignoreCache) ==
    {d \in Dips : row[d].docKey = doc /\ Reusable(row[d], ignoreCache, clock)}

Newest(S) == {d \in S : \A e \in S : row[e].createdAt <= row[d].createdAt}

Fresh(d) ==
    /\ row[d].status = "absent" /\ wf[d].pc = "none"
    /\ \A q \in Requests : req[q].dip # d

Accepted(d, r) ==
    [pc |-> "accepted", dip |-> d, until |-> r.expiresAt,
     answer |-> IF r.status = "stored" THEN "stored" ELSE "pending"]

\* RequestDIP returns a row it found; the expiry of a stored one is renewed.
Reuse(q) ==
    /\ req[q].pc = "idle"
    /\ \E doc \in Docs, ignoreCache \in BOOLEAN, retention \in Retentions :
         \E d \in Newest(Candidates(doc, ignoreCache)) :
            LET r == Renewed(row[d], retention, clock)
            IN  /\ row' = [row EXCEPT ![d] = r]
                /\ \/ NoFault /\ req' = [req EXCEPT ![q] = Accepted(d, r)]
                   \/ Fault /\ req' = [req EXCEPT ![q].pc = "error"]
    /\ UNCHANGED <<wf, object, clock>>

\* RequestDIP inserts a queued row.  When the answer to the commit is lost,
\* ReadDIP recovers the row, unless that fails too.
Create(q) ==
    /\ req[q].pc = "idle"
    /\ \E doc \in Docs, ignoreCache \in BOOLEAN, d \in Dips :
          /\ Candidates(doc, ignoreCache) = {}
          /\ Fresh(d)
          /\ row' = [row EXCEPT ![d] = QueuedRow(doc, clock)]
          /\ \/ NoFault /\ req' = [req EXCEPT ![q].pc = "start", ![q].dip = d]
             \/ Fault /\ req' = [req EXCEPT ![q].pc = "error"]
    /\ UNCHANGED <<wf, object, clock>>

\* RequestDIP fails without an effect.
RequestFails(q) ==
    /\ req[q].pc = "idle"
    /\ Fault
    /\ req' = [req EXCEPT ![q].pc = "error"]
    /\ UNCHANGED <<row, wf, object, clock>>

\* Faulty: a failed start is answered like a successful one.
StartWorkflowUnchecked(q) ==
    LET d == req[q].dip
    IN  /\ req[q].pc = "start"
        /\ \/ NoFault /\ wf' = [wf EXCEPT ![d].pc = "initial"]
           \/ Fault /\ wf' \in {[wf EXCEPT ![d].pc = "initial"], wf}
        /\ req' = [req EXCEPT ![q].pc = "accepted", ![q].answer = "created"]
        /\ UNCHANGED <<row, object, clock>>

\* startDIPCreationWorkflow: started, started with the answer lost, not started.
StartWorkflow(q) ==
    LET d == req[q].dip
        started == [wf EXCEPT ![d].pc = "initial"]
    IN  /\ req[q].pc = "start"
        /\ \/ /\ NoFault
              /\ wf' = started
              /\ req' = [req EXCEPT ![q].pc = "accepted", ![q].answer = "created"]
           \/ /\ Fault
              /\ wf' \in {started, wf}
              /\ req' = [req EXCEPT ![q].pc = "cleanup"]
        /\ UNCHANGED <<row, object, clock>>

\* DeleteDIP after a failed start; the caller is told of an error either way.
Cleanup(q) ==
    /\ req[q].pc = "cleanup"
    /\ \/ NoFault /\ row' = [row EXCEPT ![req[q].dip] = Absent]
       \/ Fault /\ UNCHANGED row
    /\ req' = [req EXCEPT ![q].pc = "error"]
    /\ UNCHANGED <<wf, object, clock>>

\* The process stops while a handler holds a row it inserted.
Crash(q) ==
    /\ req[q].pc \in {"start", "cleanup"}
    /\ Fault
    /\ req' = [req EXCEPT ![q].pc = "crashed"]
    /\ UNCHANGED <<row, wf, object, clock>>

(***************************************************************************)
(* The create-dip workflow.                                                *)
(***************************************************************************)
UpdatePC == {"initial", "final", "expire", "clear"}

\* The deferred update and the removal after an error use a disconnected
\* context, which a cancellation does not reach.
Disconnected(d) ==
    wf[d].pc = "final" \/ (wf[d].pc \in {"delete", "clear"} /\ wf[d].err)

Canceled(d) == wf[d].ctx # "open"

\* The current step may start or finish an activity.
Runnable(d) == Disconnected(d) \/ wf[d].ctx # "done"

\* The workflow at the start of its next step.
At(d, pc) == [wf[d] EXCEPT !.pc = pc, !.tries = 1,
                           !.ctx = IF @ = "open" THEN @ ELSE "done"]

\* Execute returns: the deferred function fails the DIP if the context is done.
ToFinal(d, failed) == [At(d, "final") EXCEPT !.err = failed \/ Canceled(d)]

\* The rows the update of the current step may commit.
UpdatedRows(d) ==
    CASE wf[d].pc = "initial" -> {InProgressUpdate(row[d])}
      [] wf[d].pc = "final"   ->
            IF wf[d].err THEN {FailedUpdate(row[d], wf[d].key)}
            ELSE {StoredUpdate(row[d], retention, clock) : retention \in Retentions}
      [] wf[d].pc = "expire"  -> {DeletedUpdate(row[d], clock)}
      [] wf[d].pc = "clear"   -> {ClearKeyUpdate(row[d])}

\* Faulty: the expiry is looked at once.
AfterExpireOnce(d, r) ==
    CASE r.status \in {"deleted", "failed"} -> At(d, "delete")
      [] r.status = "stored" -> At(d, "closed")
      [] OTHER -> [At(d, "closed") EXCEPT !.err = TRUE]

\* deleteDIPAfterRetention with the row its update returned; the wait for an
\* expiry that has passed meanwhile ends at once.
AfterExpire(d, r) ==
    CASE r.status \in {"deleted", "failed"} -> At(d, "delete")
      [] r.status = "stored" /\ r.expiresAt = Never -> At(d, "closed")
      [] r.status = "stored" /\ r.expiresAt # Never ->
            [At(d, "sleep") EXCEPT !.until = r.expiresAt]
      [] OTHER -> [At(d, "closed") EXCEPT !.err = TRUE]

\* The workflow after its update returned row r.
AfterUpdate(d, r) ==
    CASE wf[d].pc = "initial" -> At(d, "generate")
      [] wf[d].pc = "final"   ->
            [At(d, IF ~wf[d].err THEN "expire" ELSE IF wf[d].key THEN "delete" ELSE "closed")
                EXCEPT !.saved = TRUE]
      [] wf[d].pc = "expire"  -> AfterExpire(d, r)
      [] wf[d].pc = "clear"   -> At(d, "closed")

\* Faulty: a failed first update ends the workflow without a final one.
AfterErrorNoFinal(d) ==
    CASE wf[d].pc = "final" ->
            [At(d, IF wf[d].key THEN "delete" ELSE "closed") EXCEPT !.err = TRUE]
      [] OTHER -> [At(d, "closed") EXCEPT !.err = TRUE]

\* The workflow after the activity of the current step returned an error.
AfterError(d) ==
    CASE wf[d].pc = "initial" -> ToFinal(d, TRUE)
      [] wf[d].pc = "final"   ->
            [At(d, IF wf[d].key THEN "delete" ELSE "closed") EXCEPT !.err = TRUE]
      [] OTHER -> [At(d, "closed") EXCEPT !.err = TRUE]

\* The workflow after one attempt failed: the activity is retried until its
\* attempts are used up or its context is canceled.
AfterAttempt(d) ==
    IF wf[d].tries < MaxTries /\ (Disconnected(d) \/ ~Canceled(d))
    THEN [wf[d] EXCEPT !.tries = @ + 1] ELSE AfterError(d)

\* An attempt of update-dip: committed and reported, or failed with or
\* without having committed.
UpdateDIP(d) ==
    /\ wf[d].pc \in UpdatePC /\ Runnable(d)
    /\ row[d].status # "absent"
    /\ \E r \in UpdatedRows(d) :
          \/ /\ NoFault
             /\ row' = [row EXCEPT ![d] = r]
             /\ wf' = [wf EXCEPT ![d] = AfterUpdate(d, r)]
          \/ /\ Fault
             /\ row' \in {row, [row EXCEPT ![d] = r]}
             /\ wf' = [wf EXCEPT ![d] = AfterAttempt(d)]
    /\ UNCHANGED <<req, object, clock>>

\* update-dip does not find the row: a non-retryable error.
UpdateNotFound(d) ==
    /\ wf[d].pc \in UpdatePC /\ Runnable(d)
    /\ row[d].status = "absent"
    /\ wf' = [wf EXCEPT ![d] = AfterError(d)]
    /\ UNCHANGED <<row, req, object, clock, faults>>

\* Everything between the first and the final update: the archive is in the
\* bucket, or the generation failed before the upload, or in the upload, which
\* may still have stored the object.
Generate(d) ==
    /\ wf[d].pc = "generate"
    /\ \/ /\ Runnable(d)
          /\ object' = [object EXCEPT ![d] = TRUE]
          /\ wf' = [wf EXCEPT ![d] = [ToFinal(d, FALSE) EXCEPT !.key = TRUE]]
       \/ /\ wf' = [wf EXCEPT ![d] = ToFinal(d, TRUE)]
          /\ UNCHANGED object
       \/ /\ Runnable(d)
          /\ \E stored \in BOOLEAN : object' = [object EXCEPT ![d] = stored]
          /\ wf' = [wf EXCEPT ![d] = [ToFinal(d, TRUE) EXCEPT !.key = TRUE]]
    /\ UNCHANGED <<row, req, clock, faults>>

\* An attempt of bucket-delete.
BucketDelete(d) ==
    /\ wf[d].pc = "delete" /\ Runnable(d)
    /\ \/ /\ NoFault
          /\ object' = [object EXCEPT ![d] = FALSE]
          /\ wf' = [wf EXCEPT ![d] = At(d, "clear")]
       \/ /\ Fault
          /\ object' \in {object, [object EXCEPT ![d] = FALSE]}
          /\ wf' = [wf EXCEPT ![d] = AfterAttempt(d)]
    /\ UNCHANGED <<row, req, clock>>

\* Faulty: the archive is deleted at the end of the wait without asking again.
WakeDeletes(d) ==
    /\ wf[d].pc = "sleep" /\ ~Canceled(d)
    /\ clock >= wf[d].until
    /\ wf' = [wf EXCEPT ![d] = At(d, "delete")]
    /\ UNCHANGED <<row, req, object, clock, faults>>

\* The retention wait ends at the expiry the workflow last read.
Wake(d) ==
    /\ wf[d].pc = "sleep" /\ ~Canceled(d)
    /\ clock >= wf[d].until
    /\ wf' = [wf EXCEPT ![d] = At(d, "expire")]
    /\ UNCHANGED <<row, req, object, clock, faults>>

\* A canceled context ends an activity that is not running and the retention
\* wait; bucket-delete is abandoned where it is.
Abandon(d) ==
    /\ Canceled(d)
    /\ wf[d].pc \in UpdatePC \cup {"sleep", "delete"}
    /\ ~Disconnected(d)
    /\ object' \in IF wf[d].pc = "delete" THEN {object, [object EXCEPT ![d] = FALSE]}
                                          ELSE {object}
    /\ wf' = [wf EXCEPT ![d] = AfterError(d)]
    /\ UNCHANGED <<row, req, clock, faults>>

\* Somebody cancels the workflow.
Cancel(d) ==
    /\ wf[d].pc \notin {"none", "closed"}
    /\ ~Canceled(d)
    /\ wf' = [wf EXCEPT ![d].ctx = "closing"]
    /\ UNCHANGED <<row, req, object, clock, faults>>

Tick ==
    /\ clock < MaxTime
    /\ clock' = clock + 1
    /\ UNCHANGED <<row, req, wf, object, faults>>

\* What a handler that accepted the call does next.
HandlerStep(q) == StartWorkflow(q) \/ Cleanup(q)

WorkflowStep(d) ==
    \/ UpdateDIP(d) \/ UpdateNotFound(d) \/ Generate(d)
    \/ BucketDelete(d) \/ Wake(d) \/ Abandon(d)

Next ==
    \/ \E q \in Requests : \/ Reuse(q) \/ Create(q) \/ RequestFails(q)
                           \/ HandlerStep(q) \/ Crash(q)
    \/ \E d \in Dips : WorkflowStep(d) \/ Cancel(d)
    \/ Tick

\* The handlers and the Temporal worker keep running; nobody has to call the
\* API or to cancel a workflow.
Fairness ==
    /\ \A q \in Requests : WF_vars(HandlerStep(q))
    /\ \A d \in Dips : WF_vars(WorkflowStep(d))
    /\ WF_vars(Tick)

(***************************************************************************)
(* Properties.                                                             *)
(***************************************************************************)

\* A document has at most one generation that is queued or in progress, even
\* when starts, commits and clean-ups fail: RequestDIP never inserts a row
\* next to one it could have returned.
OneGenerationPerDocument ==
    \A d, e \in Dips :
        /\ row[d].status \in Pending /\ row[e].status \in Pending
        /\ row[d].docKey = row[e].docKey
        => d = e

\* A completed row keeps its object key for as long as the object may exist, so
\* that a later clean-up can find it: the key is cleared after bucket-delete
\* succeeded, and a failure records the key of an uncertain upload.
KeyOutlivesObject ==
    \A d \in Dips : row[d].status \in Completed /\ object[d] => row[d].hasKey

\* An accepted caller that was handed a stored DIP can fetch its archive until
\* the expiry it was handed, whatever the retention of the worker is doing at
\* the same time -- unless the final update of the generation was reported
\* failed and the archive removed for that reason.
CachedAnswerStaysAvailable ==
    \A q \in Requests :
        LET d == req[q].dip IN
        /\ req[q].pc = "accepted" /\ req[q].answer = "stored"
        /\ wf[d].saved
        /\ req[q].until = Never \/ clock < req[q].until
        => object[d]

\* A stored DIP with an expiry has a workflow that will act on it, or one that
\* ended with an error: no request gives an expiry to a DIP whose workflow has
\* finished because there was none.
ExpiryIsAttended ==
    \A d \in Dips :
        row[d].status = "stored" /\ row[d].expiresAt # Never =>
            wf[d].pc # "closed" \/ wf[d].err

\* A generation a caller was told it started is driven to completion: while its
\* row is queued or in progress its workflow runs, or the workflow finished
\* without being able to record the outcome.
AcceptedIsDriven ==
    \A q \in Requests :
        LET d == req[q].dip IN
        /\ req[q].pc = "accepted" /\ req[q].answer = "created"
        /\ row[d].status \in Pending
        => \/ wf[d].pc \notin {"none", "closed"}
           \/ wf[d].pc = "closed" /\ ~wf[d].saved

\* Nothing but the end of its handler's start attempt takes a row away, and a
\* completed generation is never revived or relabelled: failed and deleted are
\* final, and stored only becomes deleted, at a time its expiry has passed.
CompletedIsFinal ==
    [][\A d \in Dips :
          row[d].status \in Completed /\ row'[d].status # row[d].status =>
              \/ row'[d].status = "absent"
              \/ /\ row[d].status = "stored" /\ row'[d].status = "deleted"
                 /\ Expired(row[d], clock)]_vars

\* The expiry of a stored DIP is extended, never shortened, by a request or by
\* a retried final update; a DIP without expiry keeps having none.
ExpiryNeverShortened ==
    [][\A d \in Dips :
          row[d].status = "stored" /\ row'[d].status = "stored" =>
              \/ row'[d].expiresAt = Never
              \/ row[d].expiresAt # Never /\ row'[d].expiresAt >= row[d].expiresAt]_vars

\* The abstract life cycle, with a row that was deleted again "withdrawn".
Known(d) == wf[d].pc # "none" \/ \E q \in Requests : req[q].dip = d

Phase(d) == IF row[d].status # "absent" THEN row[d].status
            ELSE IF Known(d) THEN "withdrawn" ELSE "unused"

LC == INSTANCE DipLifecycle WITH
        phase    <- [d \in Dips |-> Phase(d)],
        document <- [d \in Dips |-> row[d].docKey],
        expires  <- [d \in Dips |-> row[d].expiresAt],
        now      <- clock

\* The handlers, the workflow and the table together keep to the life cycle:
\* retries and lost answers of transactions, cancellations and late clean-ups
\* show as its steps or not at all.
Implements == LC!Lifecycle

\* A generation whose workflow started gets a terminal status, or loses its row
\* to the handler that was told the start had failed, unless as many calls fail
\* as an activity has attempts.
GenerationEnds ==
    \A d \in Dips :
        wf[d].pc = "initial" ~> \/ row[d].status \in Completed \cup {"absent"}
                                \/ faults >= MaxTries

\* The archive of an expired DIP is removed, unless its workflow was canceled, its
\* row deleted, or as many calls failed.
RetentionEnds ==
    \A d \in Dips :
        row[d].status = "stored" /\ Expired(row[d], clock)
            ~> \/ ~object[d] \/ Canceled(d) \/ row[d].status = "absent"
               \/ faults >= MaxTries

(***************************************************************************)
(* What the documentation says and the code does not do.                   *)
(***************************************************************************)

\* POST /dips returns a DIP that is "cached and still available" (README of
\* internal/dips): an unexpired stored answer has its archive.
StoredAnswerHasArchive ==
    \A q \in Requests :
        /\ req[q].pc = "accepted" /\ req[q].answer = "stored"
        /\ req[q].until = Never \/ clock < req[q].until
        => object[req[q].dip]

\* A caller that is handed a pending DIP waits for a generation somebody drives:
\* requests do not "keep reusing a queued DIP with no workflow".
JoinedIsDriven ==
    \A q \in Requests :
        LET d == req[q].dip IN
        /\ req[q].pc = "accepted" /\ req[q].answer = "pending"
        /\ row[d].status \in Pending
        => \/ wf[d].pc # "none"
           \/ \E p \in Requests : req[p].pc \in {"start", "cleanup"} /\ req[p].dip = d

Spec     == Init /\ [][Next]_vars
FairSpec == Spec /\ Fairness
==============================================================================
