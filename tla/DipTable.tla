------------------------------- MODULE DipTable -------------------------------
(***************************************************************************)
(* The dip table as the rest of the service sees it: each call of          *)
(* RequestDIP, UpdateDIP and DeleteDIP (internal/dips/persistence) takes   *)
(* effect at one moment between its begin and its end, or not at all.      *)
(* DipService takes its transactions from here; DipTransactions shows that *)
(* the statements of the ent client, under the locks of the database, come *)
(* to the same.                                                            *)
(*                                                                         *)
(* RequestDIP is called with a UUID of its own, so a request is the UUID   *)
(* of the row it may insert.                                               *)
(***************************************************************************)
EXTENDS DipRecord

CONSTANTS Requests,     \* calls of RequestDIP
          Updates,      \* calls of UpdateDIP
          Deletions,    \* calls of DeleteDIP
          OldDips,      \* the rows of earlier requests,
          OldTables,    \* and what they may hold in the beginning
          NoDip,
          Retentions,
          Asking,       \* the statuses and operations updates ask for
          MaxTime       \* bound: last value of the clock

Dips  == Requests \cup OldDips
Calls == Requests \cup Updates \cup Deletions

VARIABLES row,      \* the committed table
          call,     \* the calls
          clock

tableVars == <<row, call, clock>>

\* What a call asks for.  dip is the row it works on, and doc the document of a
\* request; now is when it began.
UpdateOp == {"in progress", "stored", "failed", "deleted", "clear"}

ASSUME AskingAssumption == Asking \subseteq UpdateOp

Asked == [op: UpdateOp \cup {"none", "request", "delete"}, dip: Dips \cup {NoDip},
          doc: Docs \cup {NoDoc}, since: Nat]

NothingAsked == [op |-> "none", dip |-> NoDip, doc |-> NoDoc, since |-> 0]

\* How far it is: "committed" when its effect is visible and its caller is not
\* told yet; answer is the row it returns.
Progress == {"idle", "running", "committed", "done", "error"}

CallState == [ask: Asked, at: Progress, answer: Dips \cup {NoDip}]

OnePending(table) ==
    \A d, e \in DOMAIN table :
        /\ table[d].status \in Pending /\ table[e].status \in Pending
        /\ table[d].docKey = table[e].docKey
        => d = e

ASSUME OldAssumption ==
    /\ OldTables \subseteq [OldDips -> Row]
    /\ \A old \in OldTables :
          /\ OnePending(old)
          /\ \A d \in OldDips : \/ old[d] = Absent
                                \/ old[d].status # "absent" /\ old[d].docKey \in Docs

Init ==
    /\ \E old \in OldTables :
          row = [d \in Dips |-> IF d \in OldDips THEN old[d] ELSE Absent]
    /\ call = [c \in Calls |-> [ask |-> NothingAsked, at |-> "idle", answer |-> NoDip]]
    /\ clock = 1

\* A generation is the caller's own once RequestDIP returned the row it inserted.
Created(d) == d \in Requests => call[d].at = "done" /\ call[d].answer = d

\* The statuses in which the workflow of a row asks for an update: the answer to
\* an earlier attempt of the same may have been lost.
Asks(op, status) ==
    \/ status = "absent"
    \/ op = "in progress" /\ status \in Pending
    \/ op \in {"stored", "failed"} /\ status \in Pending \cup {op}
    \/ op = "deleted" /\ status \in {"stored", "deleted"}
    \/ op = "clear"   /\ status \in {"failed", "deleted"}

Begin(c, op, d, doc) ==
    call' = [call EXCEPT ![c] = [ask |-> [op |-> op, dip |-> d, doc |-> doc, since |-> clock],
                                 at |-> "running", answer |-> NoDip]]

\* The calls the service makes: requests of any document, updates of a created
\* row by its workflow, the deletion of a row by the handler that could not
\* start its workflow.
BeginCall(c) ==
    /\ call[c].at = "idle"
    /\ \/ c \in Requests /\ \E doc \in Docs : Begin(c, "request", c, doc)
       \/ c \in Updates /\ \E d \in Dips, op \in Asking :
            Created(d) /\ Asks(op, row[d].status) /\ Begin(c, op, d, NoDoc)
       \/ c \in Deletions /\ \E d \in Requests : Created(d) /\ Begin(c, "delete", d, NoDoc)
    /\ UNCHANGED <<row, clock>>

\* The call's effect, seen now or not yet, or lost: the caller gets an error.
Effect(c, d, r, answer) ==
    /\ row' = [row EXCEPT ![d] = r]
    /\ \E at \in {"committed", "done", "error"} :
          call' = [call EXCEPT ![c].at = at,
                               ![c].answer = IF at = "done" THEN answer ELSE NoDip]
    /\ UNCHANGED clock

Candidates(doc, ignoreCache, now) ==
    {d \in Dips : row[d].docKey = doc /\ Reusable(row[d], ignoreCache, now)}

Newest(S) == {d \in S : \A e \in S : row[e].createdAt <= row[d].createdAt}

\* A request reuses the newest candidate, or inserts a row if there is none, as
\* of a moment of the call.
Request(c) ==
    /\ call[c].at = "running" /\ call[c].ask.op = "request"
    /\ \E ignoreCache \in BOOLEAN, now \in call[c].ask.since..clock :
         LET found == Candidates(call[c].ask.doc, ignoreCache, now)
         IN  \/ \E d \in Newest(found), retention \in Retentions :
                  Effect(c, d, Renewed(row[d], retention, now), d)
             \/ /\ found = {}
                /\ Effect(c, c, QueuedRow(call[c].ask.doc, now), c)

UpdatedRows(op, r, now) ==
    CASE op = "in progress" -> {InProgressUpdate(r)}
      [] op = "stored"      -> {StoredUpdate(r, retention, now) : retention \in Retentions}
      [] op = "failed"      -> {FailedUpdate(r, key) : key \in BOOLEAN}
      [] op = "deleted"     -> {DeletedUpdate(r, now)}
      [] op = "clear"       -> {ClearKeyUpdate(r)}

Update(c) ==
    LET d == call[c].ask.dip IN
    /\ call[c].at = "running" /\ call[c].ask.op \in UpdateOp
    /\ row[d].status # "absent"
    /\ \E now \in call[c].ask.since..clock :
         \E r \in UpdatedRows(call[c].ask.op, row[d], now) : Effect(c, d, r, d)

Delete(c) ==
    /\ call[c].at = "running" /\ call[c].ask.op = "delete"
    /\ row[call[c].ask.dip].status # "absent"
    /\ Effect(c, call[c].ask.dip, Absent, call[c].ask.dip)

\* The caller is told of an effect, or of an error after one.
Report(c) ==
    /\ call[c].at = "committed"
    /\ \/ call' = [call EXCEPT ![c].at = "done", ![c].answer = call[c].ask.dip]
       \/ call' = [call EXCEPT ![c].at = "error"]
    /\ UNCHANGED <<row, clock>>

\* The call fails without an effect.
Fail(c) ==
    /\ call[c].at = "running"
    /\ call' = [call EXCEPT ![c].at = "error"]
    /\ UNCHANGED <<row, clock>>

Tick ==
    /\ clock < MaxTime
    /\ clock' = clock + 1
    /\ UNCHANGED <<row, call>>

Next ==
    \/ \E c \in Calls : \/ BeginCall(c) \/ Request(c) \/ Update(c) \/ Delete(c)
                        \/ Report(c) \/ Fail(c)
    \/ Tick

Atomic == Init /\ [][Next]_tableVars
===============================================================================
