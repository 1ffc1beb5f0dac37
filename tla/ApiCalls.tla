------------------------------- MODULE ApiCalls -------------------------------
(***************************************************************************)
(* Activities of the workers that call APIS and ACTApro through generated  *)
(* HTTP clients, against the generated server of the APIS mock and against *)
(* an ACTApro that may answer as its client expects.  Requests and answers *)
(* can be lost, a request can be late, an activity runs into its deadline  *)
(* or loses its worker, and Temporal repeats it.                           *)
(***************************************************************************)
EXTENDS Integers, FiniteSets, Sequences

CONSTANTS Calls,     \* executions of activities
          Settings,  \* what they do, and what was there before
          TaskIds, ExportIds,
          MaxTries   \* MaximumAttempts of the retry policies

Client  == INSTANCE ApisClient
Mock    == INSTANCE ApisMock
Actapro == INSTANCE ActaproClient
Service == INSTANCE ActaproServer

\* The activities, the request for the logs of an export that failed, and the
\* operations of the APIS client that no activity uses yet.
ApisOps    == {"createTask", "createRun", "pollTask", "pollRun", "cancel", "runStatus", "health"}
ActaproOps == {"createExport", "pollExport", "exportLogs", "download", "document"}
Ops        == ApisOps \cup ActaproOps
Once       == {"cancel", "runStatus", "health"}

\* What they are called with: an ID that the activity or the metadata it comes from
\* did not refuse as empty.
Work == [op: Ops \ {"exportLogs"}, id: Nat \ {Client!NoId}, run: Nat \ {Client!NoId},
         sipType: Client!SipType, behaviour: Mock!Behaviours]

\* The results configured in the mock, how far it has got with a first task, and
\* a first export.
Stages == {"none", "Neu", "InAnalyse", "Analysiert", "WirdImportiert", "Importiert"}
Setting == [work: [Calls -> Work], analysis: Mock!AnalysisResults, import: Mock!ImportResults,
            stage: Stages, export: {"none", "RUNNING"}]

ASSUME IdsAssumption == TaskIds \subseteq Nat \ {0} /\ ExportIds \subseteq Nat \ {0}
ASSUME SettingsAssumption == Settings \subseteq Setting
ASSUME MaxTriesAssumption == MaxTries \in Nat \ {0}

VARIABLES apis,    \* the handler of the mock
          exports, \* the mass operations of ACTApro
          call,    \* state of every execution
          wire,    \* its request or the answer to it
          late,    \* requests that reach the service after nobody waits for them
          made,    \* what was created, and for whom
          got,     \* what an execution has returned, as facts
          spoiled  \* its attempts that did not get an answer as it was sent
vars == <<apis, exports, call, wire, late, made, got, spoiled>>

Phases == {"idle", "running", "returned", "failed"}
Tokens == {"valid", "expired"}
Call == [work: Work, op: Ops, ended: {"", "FAILED", "CANCELED"}, phase: Phases, try: 0..MaxTries]
Sent == [by: Calls, op: Ops, work: Work, token: Tokens, try: 1..MaxTries]

NoAnswer == Client!Answer(0, "", Client!Garbage)
Wire(at, token, answer, changed) ==
    [at |-> at, token |-> token, answer |-> answer, changed |-> changed]
Silent == Wire("none", "valid", NoAnswer, FALSE)

(***************************************************************************)
(* Requests, answers and what the activities make of them.                 *)
(***************************************************************************)
User == "user"
RequestOf(s) ==
    LET w == s.work IN
    CASE s.op = "createTask" -> Client!sendImporttasksPost(s.token, w.sipType, User)
      [] s.op = "createRun"  -> Client!sendImportrunsPost(s.token, w.id, w.behaviour, User)
      [] s.op \in {"pollTask", "pollRun"} -> Client!sendStatusGet(s.token, w.id)
      [] s.op = "cancel"     -> Client!sendCancelPost(s.token, w.id, User)
      [] s.op = "runStatus"  -> Client!sendRunStatusGet(s.token, w.id, w.run)
      [] s.op = "health"     -> Client!sendHealthzGet(s.token)
      [] s.op = "createExport" -> Actapro!sendCreateExport(s.token, w.id)
      [] s.op = "pollExport" -> Actapro!sendInfo(s.token, w.id)
      [] s.op = "exportLogs" -> Actapro!sendLogs(s.token, w.id)
      [] s.op = "download"   -> Actapro!sendExportFile(s.token, w.id)
      [] s.op = "document"   -> Actapro!sendDocument(s.token, w.id)

CasesOf(op) ==
    CASE op = "createTask" -> Client!ImporttasksPostCases
      [] op = "createRun"  -> Client!ImportrunsPostCases
      [] op \in {"pollTask", "pollRun"} -> Client!StatusGetCases
      [] op = "cancel"     -> Client!CancelPostCases
      [] op = "runStatus"  -> Client!RunStatusGetCases
      [] op = "health"     -> Client!HealthzGetCases

Judgement(op, ended, a) ==
    CASE op = "createTask" -> Client!CreateImportTask(a)
      [] op = "createRun"  -> Client!CreateImportRun(a)
      [] op = "pollTask"   -> Client!PollImportTaskStatus(a)
      [] op = "pollRun"    -> Client!PollImportRunStatus(a)
      [] op \in Once -> IF Client!Understood(CasesOf(op), a) THEN Client!Ok("") ELSE Client!Again
      [] op = "createExport" -> Actapro!CreateExport(a)
      [] op = "pollExport" -> Actapro!PollExportStatus(a)
      [] op = "exportLogs" -> Actapro!ExportLogs(a, ended)
      [] op = "download"   -> Actapro!DownloadExport(a)
      [] op = "document"   -> Actapro!GetDocument(a)

\* What the value an activity returns says of the service.
Claims(c, op, id, value) ==
    CASE op = "createTask" -> {<<"task", c, value>>}
      [] op = "createRun"  -> {<<"run", c, value>>}
      [] op = "pollTask"   -> {<<"analysis", id, value>>}
      [] op = "pollRun"    -> {<<"import", id, value>>}
      [] op = "createExport" -> {<<"export", c, value>>}
      [] op \in {"pollExport", "exportLogs"} -> {<<"ended", id, value>>}
      [] op = "download"   -> {<<"file", id, value>>}
      [] op = "document"   -> {<<"document", id, value>>}
      [] OTHER -> {}

(***************************************************************************)
(* The services.                                                           *)
(***************************************************************************)
\* Room for what a request may create is a bound of the model.
Room(s) ==
    /\ s.op = "createTask" => apis.nextTask + 1 \in TaskIds
    /\ s.op = "createExport" => \E id \in ExportIds : exports[id] = "none"

Replies(s) ==
    IF s.op \in ApisOps
    THEN LET r == Mock!ServeHTTP(apis, RequestOf(s)) IN
         {[apis |-> r.handler, exports |-> exports, answer |-> r.answer]}
    ELSE {[apis |-> apis, exports |-> r.exports, answer |-> r.answer]
             : r \in Service!Serve(exports, RequestOf(s))}

Making(c, r) ==
    (IF r.apis.nextTask # apis.nextTask THEN {<<"task", c, r.apis.nextTask>>} ELSE {}) \cup
    (IF r.apis.nextRun # apis.nextRun THEN {<<"run", c, r.apis.nextRun>>} ELSE {}) \cup
    {<<"export", c, id>> : id \in {i \in ExportIds : exports[i] = "none" /\ r.exports[i] # "none"}}

Do(c, r) ==
    /\ apis' = r.apis
    /\ exports' = r.exports
    /\ made' = made \cup Making(c, r)

(***************************************************************************)
(* Executions.                                                             *)
(***************************************************************************)
Before(s) ==
    LET new == Mock!ImporttasksPost(Mock!NewHandler(s.analysis, s.import)).handler
        poll(h) == Mock!IDStatusGet(h, 1).handler
        analysed == poll(poll(poll(new)))
        run == Mock!IDImportrunsPost(analysed, 1, "AppendOnly").handler
    IN CASE s.stage = "none" -> Mock!NewHandler(s.analysis, s.import)
         [] s.stage = "Neu" -> new
         [] s.stage = "InAnalyse" -> poll(poll(new))
         [] s.stage = "Analysiert" -> analysed
         [] s.stage = "WirdImportiert" -> run
         [] s.stage = "Importiert" -> poll(poll(run))

Init ==
    /\ \E s \in Settings :
          /\ apis = Before(s)
          /\ exports = [id \in ExportIds |-> IF id = 1 THEN s.export ELSE "none"]
          /\ call = [c \in Calls |-> [work |-> s.work[c], op |-> s.work[c].op, ended |-> "",
                                      phase |-> "idle", try |-> 0]]
    /\ wire = [c \in Calls |-> Silent]
    /\ late = {}
    /\ made = {}
    /\ got = [c \in Calls |-> {}]
    /\ spoiled = [c \in Calls |-> {}]

Running(c, at) == call[c].phase = "running" /\ wire[c].at = at

Start(c) ==
    /\ call[c].phase = "idle"
    /\ call' = [call EXCEPT ![c].phase = "running", ![c].try = 1]
    /\ UNCHANGED <<apis, exports, wire, late, made, got, spoiled>>

\* Faulty: the attempts of a poll are not counted.
EndPoll(c) ==
    /\ wire' = [wire EXCEPT ![c] = Silent]
    /\ call' = IF call[c].work.op \in {"pollTask", "pollRun", "pollExport"}
               THEN [call EXCEPT ![c].op = call[c].work.op, ![c].ended = ""]
               ELSE [call EXCEPT ![c].phase = "failed"]

\* The end of an attempt without a result: Temporal starts the next one, which
\* begins where the activity begins, or gives up.
Attempts(op) == IF op \in Once THEN 1 ELSE MaxTries
EndAttempt(c) ==
    /\ wire' = [wire EXCEPT ![c] = Silent]
    /\ call' = IF call[c].try < Attempts(call[c].work.op)
               THEN [call EXCEPT ![c].try = @ + 1, ![c].op = call[c].work.op, ![c].ended = ""]
               ELSE [call EXCEPT ![c].phase = "failed"]

End(c, phase) ==
    /\ wire' = [wire EXCEPT ![c] = Silent]
    /\ call' = [call EXCEPT ![c].phase = phase]

\* The file cannot be opened or the ID is none: nothing is sent.
Unprepared(c) ==
    /\ Running(c, "none")
    /\ call[c].op \in {"createTask", "createRun", "pollExport", "download"}
    /\ End(c, "failed")
    /\ UNCHANGED <<apis, exports, late, made, got, spoiled>>

Ask(c) ==
    /\ Running(c, "none")
    /\ \E token \in Tokens :
          wire' = [wire EXCEPT ![c] = Wire("request", token, NoAnswer, FALSE)]
    /\ UNCHANGED <<apis, exports, call, late, made, got, spoiled>>

SentBy(c) == [by |-> c, op |-> call[c].op, work |-> call[c].work,
              token |-> wire[c].token, try |-> call[c].try]

Serve(c) ==
    /\ Running(c, "request")
    /\ Room(SentBy(c))
    /\ \E r \in Replies(SentBy(c)) :
          /\ Do(c, r)
          /\ wire' = [wire EXCEPT ![c] = Wire("answer", wire[c].token, r.answer, FALSE)]
    /\ UNCHANGED <<call, late, got, spoiled>>

ServeLate(s) ==
    /\ s \in late
    /\ Room(s)
    /\ late' = late \ {s}
    /\ \E r \in Replies(s) : Do(s.by, r)
    /\ UNCHANGED <<call, wire, got, spoiled>>

\* A newer service answers with one field more.
Extended(a) ==
    Client!Answer(a.code, a.type,
                  Client!Value(a.value.kind,
                               [f \in DOMAIN a.value.is \cup {"extra"} |->
                                  IF f = "extra" THEN Client!Null ELSE a.value.is[f]]))
Extend(c) ==
    /\ Running(c, "answer")
    /\ wire[c].answer.value.kind = "object"
    /\ ~wire[c].changed
    /\ wire' = [wire EXCEPT ![c] = Wire("answer", wire[c].token, Extended(wire[c].answer), TRUE)]
    /\ spoiled' = [spoiled EXCEPT ![c] = @ \cup {call[c].try}]
    /\ UNCHANGED <<apis, exports, call, late, made, got>>

Read(c) ==
    /\ Running(c, "answer")
    /\ LET op == call[c].op
           v == Judgement(op, call[c].ended, wire[c].answer)
       IN /\ CASE v.end = "ok" -> End(c, "returned")
               [] v.end = "final" -> End(c, "failed")
               [] v.end = "again" -> EndAttempt(c)
               [] v.end = "poll" -> wire' = [wire EXCEPT ![c] = Silent] /\ UNCHANGED call
               [] v.end = "logs" ->
                     /\ wire' = [wire EXCEPT ![c] = Silent]
                     /\ call' = [call EXCEPT ![c].op = "exportLogs", ![c].ended = v.value]
          /\ got' = IF v.end = "ok"
                    THEN [got EXCEPT ![c] = Claims(c, op, call[c].work.id, v.value)]
                    ELSE got
    /\ UNCHANGED <<apis, exports, late, made, spoiled>>

\* There is no token, the connection breaks, the HTTP client's timeout or
\* StartToCloseTimeout is over, or the heartbeats of a lost worker stay away.  A
\* request that was not served yet is lost, or comes late.
Deadline(c) ==
    /\ call[c].phase = "running"
    /\ EndAttempt(c)
    /\ \/ late' = late
       \/ wire[c].at = "request" /\ late' = late \cup {SentBy(c)}
    /\ spoiled' = [spoiled EXCEPT ![c] = IF wire[c].at = "none" THEN @ ELSE @ \cup {call[c].try}]
    /\ UNCHANGED <<apis, exports, made, got>>

ExportStep(id) ==
    /\ exports[id] \in Service!Running
    /\ \E s \in Service!Ended : exports' = [exports EXCEPT ![id] = s]
    /\ UNCHANGED <<apis, call, wire, late, made, got, spoiled>>

Next ==
    \/ \E c \in Calls :
          \/ Start(c) \/ Unprepared(c) \/ Ask(c) \/ Serve(c)
          \/ Extend(c) \/ Read(c) \/ Deadline(c)
    \/ \E s \in late : ServeLate(s)
    \/ \E id \in ExportIds : ExportStep(id)

\* Every attempt has a deadline; nothing else is assumed, of a service least of all.
Fairness == \A c \in Calls : WF_vars(Deadline(c))

Spec == Init /\ [][Next]_vars /\ Fairness

(***************************************************************************)
(* What the services know.                                                 *)
(***************************************************************************)
Facts ==
    made \cup {<<"analysis", id, apis.tasks[id].task.analysis>>
             : id \in {i \in TaskIds : apis.tasks[i].analysisDone}}
    \cup {<<"import", id, apis.tasks[id].task.import>>
             : id \in {i \in TaskIds : apis.tasks[i].importDone}}
    \cup {<<"ended", id, Actapro!Upper(exports[id])>>
             : id \in {i \in ExportIds : exports[i] \in Service!Ended}}
    \cup {<<"file", id, id>>
             : id \in {i \in ExportIds : exports[i] = "completed"}}
    \cup {<<"document", 1, Service!AIPs>>}

(***************************************************************************)
(* Properties.                                                             *)
(***************************************************************************)
TypeOK ==
    /\ apis \in Mock!Handler
    /\ exports \in Service!Exports
    /\ call \in [Calls -> Call]
    /\ DOMAIN wire = Calls /\ DOMAIN got = Calls
    /\ \A c \in Calls : wire[c].at \in {"none", "request", "answer"} /\ wire[c].token \in Tokens
    /\ late \subseteq Sent
    /\ spoiled \in [Calls -> SUBSET (1..MaxTries)]

\* Whatever an activity has returned to its workflow is known to the service and
\* stays so: the ID of a task, run or export that was created for this very
\* execution, the result of an analysis or import that has ended, the status
\* and the file of an export that has ended, and all the AIPs of a document.
\* Polls look at the same task while others start its run or cancel it.
ReturnedIsRecorded ==
    \A c \in Calls : call[c].phase = "returned" /\ call[c].work.op \notin Once =>
        got[c] # {} /\ got[c] \subseteq Facts

\* The generated client understands every answer of the generated server of the
\* mock to a request that the client sent with a good token, in whatever state
\* the task is (the two come from one description of APIS, in two modules).
AnswersAreUnderstood ==
    \A c \in Calls :
        wire[c].at = "answer" /\ wire[c].token = "valid" /\ ~wire[c].changed
        /\ call[c].op \in ApisOps
        => Client!Understood(CasesOf(call[c].op), wire[c].answer)

\* An execution makes the service create a second task or export only after an
\* answer to it was lost, late or of a newer form: whatever the service
\* understood and answered, no attempt asks for again.
CreationsAreAnswered ==
    \A c \in Calls : Cardinality({m \in made : m[2] = c}) <= 1 + Cardinality(spoiled[c])

\* The activities are calls as a workflow may think of them.
Creation(f, c) == f[1] \in {"task", "run", "export"} /\ f[2] = c
Remote == INSTANCE RemoteCalls WITH
    MaxAttempts <- MaxTries,
    phase    <- [c \in Calls |-> IF call[c].phase = "running" THEN "open" ELSE call[c].phase],
    attempts <- [c \in Calls |-> call[c].try],
    facts    <- Facts,
    claims   <- got
Implements == Remote!Spec

\* Every execution ends, whatever the services do.
CallsEnd ==
    \A c \in Calls : call[c].phase = "running" ~> call[c].phase \in {"returned", "failed"}
==============================================================================
