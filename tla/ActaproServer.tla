----------------------------- MODULE ActaproServer -----------------------------
(***************************************************************************)
(* ACTApro as its client expects it (internal/actapro, README and tests):  *)
(* mass operations that export a document, their log and file, and         *)
(* documents.  Which answer a request gets is the service's choice.        *)
(***************************************************************************)
EXTENDS OgenCodec

CONSTANT ExportIds \* exports the server is asked to create

Running == {"RUNNING"}
Ended   == {"completed", "FAILED"} \* the client takes either case, and CANCELED as FAILED
Exports == [ExportIds -> {"none"} \cup Running \cup Ended]

\* A document: the IDs in its AIP_ID fields, an empty one among them.
AIPs == {1, 2}

Reply(exports, answer) == [exports |-> exports, answer |-> answer]
OK(value) == Answer(200, "application/json", value)
ErrorOf(code) ==
    Answer(code, "application/json", Object([status |-> Number, message |-> Text("")]))

Info(id, status) ==
    Object([id |-> Text(id), status |-> Text(status), crdate |-> Text("2026-09-15T09:15:10")])
NoInfo == Object([description |-> Text("")])

\* Errors that do not depend on the request (409 and 500 are handled like 423), and
\* the refusals of a token: the client does not expect 401.
Faults(q) == IF q.token = "valid" THEN {423} ELSE {401, 403}
Faulted(exports, q) == {Reply(exports, ErrorOf(c)) : c \in Faults(q)}

Create(exports) ==
    LET free == {id \in ExportIds : exports[id] = "none"} IN
    {Reply(exports, ErrorOf(400))} \cup
    UNION {{Reply([exports EXCEPT ![id] = "RUNNING"], OK(v)) : v \in {Info(id, "RUNNING"), NoInfo}}
           : id \in free}

Known(exports, id) == id \in ExportIds /\ exports[id] # "none"
OfExport(exports, id, answers) ==
    {Reply(exports, a) : a \in IF Known(exports, id) THEN answers ELSE {ErrorOf(404)}}

GetInfo(exports, id) ==
    OfExport(exports, id, {OK(v) : v \in {Info(id, exports[id]), NoInfo}})

Entry(status) ==
    Object([operationId |-> Text("op"), docKey |-> Null, crdate |-> Text(""),
            status |-> Text(status), message |-> Text("")])
GetLogs(exports, id) ==
    OfExport(exports, id,
             {OK(Array(<<>>))} \cup {OK(Array(<<Entry(s).is>>)) : s \in {"ERROR", "FATAL"}})

File(id) == Bytes(id)
GetFile(exports, id) ==
    IF Known(exports, id) /\ exports[id] = "completed"
    THEN {Reply(exports, Answer(200, t, File(id)))
             : t \in {"application/xml", "application/octet-stream"}}
    ELSE {Reply(exports, ErrorOf(404))}

Field(type, value) == [type |-> Text(type), value |-> Text(value)]
Group(id, other) ==
    [type |-> Text("AIP_ID_Gp"),
     fields |-> Array(<<Field("AIP_ID", id), Field("AIP_ID", other), Field("Vermerk", 3)>>)]
Document ==
    Object([object |-> Text("Dossier"), CreationDate |-> Text("20260915"),
            block |-> Object([type |-> Text("Dossier"),
                              fields |-> Array(<<Field("Titel", 3), Group(1, NoId), Group(2, 1),
                                                 [type |-> Text("AIP_ID_Gp")]>>)])])
GetDocument(exports, key) ==
    {Reply(exports, IF key = 1 THEN OK(Document) ELSE ErrorOf(404))}

Serve(exports, q) ==
    LET p == q.path IN
    IF q.token # "valid" THEN Faulted(exports, q)
    ELSE Faulted(exports, q) \cup
         CASE Len(p) = 2 -> Create(exports)
           [] Len(p) = 4 -> GetFile(exports, p[4])
           [] Len(p) = 3 /\ p[1] = "document" -> GetDocument(exports, p[2])
           [] Len(p) = 3 /\ p[3] = "info" -> GetInfo(exports, p[2])
           [] Len(p) = 3 /\ p[3] = "logs" -> GetLogs(exports, p[2])
==============================================================================
