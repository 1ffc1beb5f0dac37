------------------------------ MODULE ApisMock ------------------------------
(***************************************************************************)
(* The mock of APIS as an HTTP server (hack/apis-mock): the generated      *)
(* router, the stages of a handler, the endpoints of internal/mock and the *)
(* answers that are encoded.  A request is one step: the endpoints hold    *)
(* the handler's mutex, and the rest keeps nothing.                        *)
(***************************************************************************)
EXTENDS OgenCodec, ApisServer

CONSTANT TaskIds \* import tasks the server is asked to create

\* What taskState has beyond ApisServer: the results that are to be shown, and
\* the ID of the import run.
TaskState == [task: Task, analysisDone: BOOLEAN, importDone: BOOLEAN, runID: Nat]
NoTask == [task |-> Unknown, analysisDone |-> FALSE, importDone |-> FALSE, runID |-> NoId]

\* analysis and import are the configured results.
Handler == [tasks: [TaskIds -> TaskState], nextTask: Nat, nextRun: Nat,
            analysis: AnalysisResults, import: ImportResults]
NewHandler(analysis, import) ==
    [tasks |-> [id \in TaskIds |-> NoTask], nextTask |-> 0, nextRun |-> 0,
     analysis |-> analysis, import |-> import]

Exists(h, id) == id \in TaskIds /\ h.tasks[id].task.status # "none"

(***************************************************************************)
(* Answers: what an endpoint returns is encoded by code.  The framework's  *)
(* own refusals go through ogen's default error handler and are no problem *)
(* documents.                                                              *)
(***************************************************************************)
Reply(h, answer) == [handler |-> h, answer |-> answer]
Framework(code)  == Answer(code, "application/json", Object([error_message |-> Text("")]))
NotFound   == Answer(404, "text/plain", Garbage)
NotAllowed == Answer(405, "", Garbage)

Res(code, body) == [code |-> code, body |-> body]
problem(code) ==
    Res(code, [status |-> Number, title |-> Text(""), detail |-> Text("")])

\* Optional fields are left out when they are not set.
Unset == Value("unset", "")
Opt(result) == IF result = "unset" THEN Unset ELSE Text(result)
Fields(body) == [f \in {g \in DOMAIN body : body[g].kind # "unset"} |-> body[f]]

ImportTaskStatusResponse(status, analysis, import) ==
    Fields([status |-> Text(status), analysisResult |-> Opt(analysis), importResult |-> Opt(import)])
ImportRunStatusResponse(status, import) ==
    Fields([status |-> Text(status), importResult |-> Opt(import)])
CreateImportTaskResponse(id) == [importTaskId |-> Text(id)]
CreateImportRunResponse(id)  == [importRunId |-> Text(id)]
HealthStatusResult(status)   == [status |-> Text(status)]

CancelPostProblems      == {401, 404, 409, 500}
ImportrunsPostProblems  == {400, 401, 404, 415}
RunStatusGetProblems    == {401, 404, 500}
StatusGetProblems       == {401, 404, 500}
ImporttasksPostProblems == {400, 401, 415, 500}

\* Faulty: the content type of an ordinary body.
EncodedAsJSON(res, problems) ==
    IF res.code = 204 THEN Answer(204, "", Garbage)
    ELSE Answer(res.code, "application/json", Object(res.body))

Encoded(res, problems) ==
    CASE res.code = 204 -> Answer(204, "", Garbage)
      [] res.code \in problems -> Answer(res.code, "application/problem+json", Object(res.body))
      [] OTHER -> Answer(res.code, "application/json", Object(res.body))
encodeHealthzGet(res)      == Encoded(res, {})
encodeCancelPost(res)      == Encoded(res, CancelPostProblems)
encodeImportrunsPost(res)  == Encoded(res, ImportrunsPostProblems)
encodeRunStatusGet(res)    == Encoded(res, RunStatusGetProblems)
encodeStatusGet(res)       == Encoded(res, StatusGetProblems)
encodeImporttasksPost(res) == Encoded(res, ImporttasksPostProblems)

(***************************************************************************)
(* Endpoints.                                                              *)
(***************************************************************************)
Done(h, res) == [handler |-> h, res |-> res]

HealthzGet(h) == Done(h, Res(200, HealthStatusResult("OK")))

ImporttasksPost(h) ==
    LET id == h.nextTask + 1 IN
    Done([h EXCEPT !.nextTask = id, !.tasks[id] = [NoTask EXCEPT !.task = Created(h.analysis)]],
         Res(201, CreateImportTaskResponse(id)))

IDCancelPost(h, id) ==
    CASE ~Exists(h, id) -> Done(h, problem(404))
      [] Exists(h, id) /\ ~Cancelable(h.tasks[id].task) -> Done(h, problem(409))
      [] OTHER -> Done([h EXCEPT !.tasks[id].task = Canceled(@)], Res(204, <<>>))

IDImportrunsPost(h, id, behaviour) ==
    CASE ~Exists(h, id) -> Done(h, problem(404))
      [] Exists(h, id) /\ ~RunAccepted(h.tasks[id].task) -> Done(h, problem(400))
      [] OTHER ->
            LET run == h.nextRun + 1 IN
            Done([h EXCEPT !.nextRun = run, !.tasks[id].runID = run,
                           !.tasks[id].task = WithRun(@, behaviour, h.import)],
                 Res(201, CreateImportRunResponse(run)))

advanceTask(t) ==
    [t EXCEPT !.task = Advanced(@),
              !.analysisDone = IF t.task.status = "InAnalyse" THEN TRUE ELSE @,
              !.importDone = IF t.task.status = "WirdImportiert" /\ t.task.polls > 0
                             THEN TRUE ELSE @]

taskStatusResponse(t) ==
    ImportTaskStatusResponse(t.task.status,
                             IF t.analysisDone THEN t.task.analysis ELSE "unset",
                             IF t.importDone THEN t.task.import ELSE "unset")
RunStatus(t) ==
    CASE t.status = "Abgebrochen" -> "Canceled"
      [] t.status = "WirdImportiert" -> "Started"
      [] t.status = "Importiert" -> IF t.import = "Fehler" THEN "Failed" ELSE "Completed"
      [] OTHER -> "Created"
importRunStatusResponse(t) ==
    ImportRunStatusResponse(RunStatus(t.task),
                            IF t.task.status = "Importiert" THEN t.task.import ELSE "unset")

\* Faulty: what is known is forgotten when the task is shown again.
ForgetfulStatusGet(h, id) ==
    IF ~Exists(h, id) THEN Done(h, problem(404))
    ELSE LET t == advanceTask([h.tasks[id] EXCEPT !.analysisDone = FALSE])
         IN Done([h EXCEPT !.tasks[id] = t], Res(200, taskStatusResponse(t)))

IDStatusGet(h, id) ==
    IF ~Exists(h, id) THEN Done(h, problem(404))
    ELSE LET t == advanceTask(h.tasks[id])
         IN Done([h EXCEPT !.tasks[id] = t], Res(200, taskStatusResponse(t)))

IDRunStatusGet(h, id, run) ==
    IF ~Exists(h, id) \/ run = NoId \/ h.tasks[id].runID # run
    THEN Done(h, problem(404))
    ELSE Done(h, Res(200, importRunStatusResponse(h.tasks[id])))

(***************************************************************************)
(* Requests: security, then the parameters of the path, then the body.     *)
(***************************************************************************)
HandleSmart(token) == token = "valid"
SecuritySmart(q)   == q.token # "" /\ HandleSmart(q.token)

Form(required, kinds) == Schema("skipped", required, kinds)
SipTypes == {"BornDigitalSIP", "BornDigitalAIP", "DigitizedSIP", "DigitizedAIP"}
ImporttasksPostForm ==
    [Form({"file", "sipType", "username"},
          [file |-> {"bytes"}, sipType |-> String, username |-> String])
     EXCEPT !.allowed = [sipType |-> SipTypes]]
ImportrunsPostForm ==
    [Form({"file", "username"},
          [file |-> {"bytes"}, importBehaviour |-> String, username |-> String])
     EXCEPT !.allowed = [importBehaviour |-> Behaviours]]
CancelRequest ==
    Closed({}, [reason |-> OrNull(String), cancelledBy |-> OrNull(String)])

\* Every body is optional: a request without one and without a content type is
\* taken, and what is missing from it is missed by nobody.
NoBody(q) == q.type = "" /\ q.form = <<>>
Body(q, types, schema) ==
    CASE NoBody(q) -> 200
      [] ~NoBody(q) /\ q.type \notin types -> 415
      [] ~NoBody(q) /\ q.type \in types -> IF Reads(schema, q.form) THEN 200 ELSE 400

Params(ids) == \A i \in DOMAIN ids : ids[i] # NoId

\* The stages every handler has before it calls the endpoint, and after.
Staged(h, q, ids, body, done, encoded(_)) ==
    CASE ~SecuritySmart(q) -> Reply(h, Framework(401))
      [] SecuritySmart(q) /\ ~Params(ids) -> Reply(h, Framework(400))
      [] SecuritySmart(q) /\ Params(ids) ->
            IF body = 200 THEN Reply(done.handler, encoded(done.res))
                          ELSE Reply(h, Framework(body))

decodeImporttasksPostRequest(q) == Body(q, {"multipart/form-data"}, ImporttasksPostForm)
decodeImportrunsPostRequest(q)  == Body(q, {"multipart/form-data"}, ImportrunsPostForm)
decodeCancelPostRequest(q)      == Body(q, {"application/json"}, CancelRequest)
NoRequestBody == 200

handleHealthzGet(h, q) ==
    Staged(h, q, <<>>, NoRequestBody, HealthzGet(h), encodeHealthzGet)
handleImporttasksPost(h, q) ==
    Staged(h, q, <<>>, decodeImporttasksPostRequest(q), ImporttasksPost(h), encodeImporttasksPost)
handleCancelPost(h, q, id) ==
    Staged(h, q, <<id>>, decodeCancelPostRequest(q), IDCancelPost(h, id), encodeCancelPost)
handleImportrunsPost(h, q, id) ==
    Staged(h, q, <<id>>, decodeImportrunsPostRequest(q),
           IDImportrunsPost(h, id, IF NoBody(q) THEN "none"
                                   ELSE Get(q.form, "importBehaviour", "none")),
           encodeImportrunsPost)
handleStatusGet(h, q, id) ==
    Staged(h, q, <<id>>, NoRequestBody, IDStatusGet(h, id), encodeStatusGet)
handleRunStatusGet(h, q, id, run) ==
    Staged(h, q, <<id, run>>, NoRequestBody, IDRunStatusGet(h, id, run), encodeRunStatusGet)

(***************************************************************************)
(* The router matches the path before the method.                          *)
(***************************************************************************)
Only(method, h, q, reply) == IF q.method = method THEN reply ELSE Reply(h, NotAllowed)

ServeTask(h, q, p, id) ==
    CASE Len(p) = 4 /\ p[4] = "cancel" -> Only("POST", h, q, handleCancelPost(h, q, id))
      [] Len(p) = 4 /\ p[4] = "importruns" -> Only("POST", h, q, handleImportrunsPost(h, q, id))
      [] Len(p) = 4 /\ p[4] = "status" -> Only("GET", h, q, handleStatusGet(h, q, id))
      [] Len(p) = 6 /\ p[4] = "importruns" /\ p[6] = "status" ->
            Only("GET", h, q, handleRunStatusGet(h, q, id, p[5]))
      [] OTHER -> Reply(h, NotFound)

ServeHTTP(h, q) ==
    LET p == q.path IN
    CASE p = <<"api", "healthz">> -> Only("GET", h, q, handleHealthzGet(h, q))
      [] p = <<"api", "importtasks">> -> Only("POST", h, q, handleImporttasksPost(h, q))
      [] Len(p) > 3 /\ p[1] = "api" /\ p[2] = "importtasks" -> ServeTask(h, q, p, p[3])
      [] OTHER -> Reply(h, NotFound)
==============================================================================
