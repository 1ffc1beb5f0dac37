------------------------------ MODULE ApisClient ------------------------------
(***************************************************************************)
(* The APIS client generated in internal/apis/gen, and the activities of   *)
(* internal/apis that call it: the requests they send, the answers the     *)
(* client takes, and what an activity makes of an answer.                  *)
(***************************************************************************)
EXTENDS OgenCodec

(***************************************************************************)
(* Values and schemas.                                                     *)
(***************************************************************************)
AnalysisResult == {"AlleGleich", "AlleNeu", "Konflikte", "Fehler"}
ImportResult   == {"Erfolgreich", "Fehler"}
ImportTaskStatus ==
    {"Neu", "InAnalyse", "Analysiert", "Abgebrochen", "WirdImportiert", "Importiert"}
ImportStatus ==
    {"RequestStart", "RequestCancel", "Started", "Failed", "Canceled", "Completed",
     "UndoStarted", "UndoCompleted", "Created", "Preparing"}
SipType == {"BornDigitalSIP", "BornDigitalAIP", "DigitizedSIP", "DigitizedAIP"}

OptFloat64                   == Numeric
OptNilAnalysisResult         == OrNull(OptString)
OptNilHealthCheckResultArray == OrNull({"array"})
OptNilImportResult           == OrNull(OptString)
OptNilInt32                  == OrNull(Numeric)
OptNilString                 == OrNull(OptString)

ProblemDetails ==
    Schema("kept", {}, [type |-> OptNilString, title |-> OptNilString,
                        status |-> OptNilInt32, detail |-> OptNilString,
                        instance |-> OptNilString])

CreateImportTaskResponse == Closed({"importTaskId"}, [importTaskId |-> String])
CreateImportRunResponse  == Closed({"importRunId"}, [importRunId |-> String])

ImportTaskStatusFields ==
    Closed({"status"},
           [status |-> String, analysisResult |-> OptNilAnalysisResult,
            analysisProgressInPercent |-> OptNilInt32, analysisErrorMessage |-> OptNilString,
            importResult |-> OptNilImportResult])
ImportTaskStatusResponse ==
    [ImportTaskStatusFields EXCEPT
        !.allowed = [status |-> ImportTaskStatus, analysisResult |-> AnalysisResult,
                     importResult |-> ImportResult]]

ImportRunStatusFields ==
    Closed({"status"},
           [status |-> String, progressPercent |-> OptNilInt32,
            importResult |-> OptNilImportResult, processedDocumentCount |-> OptNilInt32,
            totalDocumentCount |-> OptNilInt32])
ImportRunStatusResponse ==
    [ImportRunStatusFields EXCEPT
        !.allowed = [status |-> ImportStatus, importResult |-> ImportResult]]

HealthCheckResult ==
    Closed({"name", "status"}, [durationMs |-> OptFloat64, name |-> String, status |-> String])

HealthStatusFields ==
    Closed({"status"}, [checks |-> OptNilHealthCheckResultArray, status |-> String])
HealthStatusResult == [HealthStatusFields EXCEPT !.inner = [checks |-> HealthCheckResult]]

(***************************************************************************)
(* Answers by operation.                                                   *)
(***************************************************************************)
JSON(schema) == Case({"application/json"}, "object", schema)
Problem      == Case({"application/problem+json"}, "object", ProblemDetails)

Cases(code, success, problems) ==
    [c \in {code} \cup problems |-> IF c = code THEN success ELSE Problem]

CancelPostProblems      == {401, 404, 409, 500}
ImportrunsPostProblems  == {400, 401, 404, 415}
RunStatusGetProblems    == {401, 404, 500}
StatusGetProblems       == {401, 404, 500}
ImporttasksPostProblems == {400, 401, 415, 500}

HealthzGetCases      == [c \in {200, 503} |-> JSON(HealthStatusResult)]
CancelPostCases      == Cases(204, NoContent, CancelPostProblems)
ImportrunsPostCases  == Cases(201, JSON(CreateImportRunResponse), ImportrunsPostProblems)
RunStatusGetCases    == Cases(200, JSON(ImportRunStatusResponse), RunStatusGetProblems)
StatusGetCases       == Cases(200, JSON(ImportTaskStatusResponse), StatusGetProblems)
ImporttasksPostCases == Cases(201, JSON(CreateImportTaskResponse), ImporttasksPostProblems)

(***************************************************************************)
(* Requests by operation.                                                  *)
(***************************************************************************)
Multipart == "multipart/form-data"
OfTask(id, what) == <<"api", "importtasks", id, what>>
OfRun(id, run) == <<"api", "importtasks", id, "importruns", run, "status">>

sendHealthzGet(token) == Request("GET", <<"api", "healthz">>, "", token, <<>>)

CancelImportTaskRequest(user) == [reason |-> Null, cancelledBy |-> Text(user)]
sendCancelPost(token, id, user) ==
    Request("POST", OfTask(id, "cancel"), "application/json", token,
            CancelImportTaskRequest(user))

ImporttasksPostReq(sipType, user) ==
    [file |-> Bytes("metadata"), sipType |-> Text(sipType), username |-> Text(user)]
sendImporttasksPost(token, sipType, user) ==
    Request("POST", <<"api", "importtasks">>, Multipart, token,
            ImporttasksPostReq(sipType, user))

ImportrunsPostReq(behaviour, user) ==
    [file |-> Bytes("METS"), importBehaviour |-> Text(behaviour), username |-> Text(user)]
sendImportrunsPost(token, id, behaviour, user) ==
    Request("POST", OfTask(id, "importruns"), Multipart, token,
            ImportrunsPostReq(behaviour, user))

sendStatusGet(token, id) == Request("GET", OfTask(id, "status"), "", token, <<>>)
sendRunStatusGet(token, id, run) == Request("GET", OfRun(id, run), "", token, <<>>)

(***************************************************************************)
(* The activities.                                                         *)
(***************************************************************************)
Shown(body, field) == IF Has(body, field) THEN Ok(body[field].is) ELSE Final

CreateImportTask(a) ==
    IF ~Understood(ImporttasksPostCases, a) THEN Again
    ELSE CASE a.code = 201 -> Id(a.value.is.importTaskId.is)
           [] a.code = 500 -> Again
           [] OTHER -> Final

CreateImportRun(a) ==
    IF ~Understood(ImportrunsPostCases, a) THEN Again
    ELSE IF a.code = 201 THEN Id(a.value.is.importRunId.is)
    ELSE Final

\* The two polls differ in the statuses they wait in and the one they wait for.
AnalysisComplete(body) ==
    CASE body.status.is \in {"Neu", "InAnalyse"} -> Poll
      [] body.status.is = "Analysiert" -> Shown(body, "analysisResult")
      [] OTHER -> Final

ImportComplete(body) ==
    CASE body.status.is \in {"Analysiert", "WirdImportiert"} -> Poll
      [] body.status.is = "Importiert" -> Shown(body, "importResult")
      [] OTHER -> Final

PollStatus(a, Complete(_)) ==
    IF ~Understood(StatusGetCases, a) THEN Again
    ELSE CASE a.code = 200 -> Complete(a.value.is)
           [] a.code = 500 -> Again
           [] OTHER -> Final

PollImportTaskStatus(a) == PollStatus(a, AnalysisComplete)
PollImportRunStatus(a)  == PollStatus(a, ImportComplete)
==============================================================================
