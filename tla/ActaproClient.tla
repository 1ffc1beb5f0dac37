---------------------------- MODULE ActaproClient ----------------------------
(***************************************************************************)
(* The ACTApro client generated in internal/actapro/gen and the activities *)
(* of internal/actapro that call it.                                       *)
(***************************************************************************)
EXTENDS OgenCodec

(***************************************************************************)
(* Schemas.  Fields without a decoder are skipped everywhere.              *)
(***************************************************************************)
OptInt32     == Numeric
OptInt64     == Numeric
OptBool      == Flag
OptNilString == OrNull(OptString)

ErrorResponse ==
    Open({}, [errorType |-> OptString, message |-> OptString, status |-> OptInt32,
              timestamp |-> OptInt64])

MassOperationInfoDTO ==
    Open({}, [id |-> OptString, type |-> OptString, crdate |-> OptString,
              description |-> OptString, status |-> OptString, user |-> OptString,
              processedDocCount |-> OptInt32, totalDocCount |-> OptInt32])

MassOperationLogDTOStatus == {"SUCCESS", "WARNING", "ERROR"}
MassOperationLogFields ==
    Open({}, [operationId |-> OptString, docKey |-> OptNilString, crdate |-> OptString,
              status |-> OptString, message |-> OptNilString])
MassOperationLogDTO ==
    [MassOperationLogFields EXCEPT !.allowed = [status |-> MassOperationLogDTOStatus]]

DocumentFieldTimeRange == Open({}, [value |-> OptString, min |-> OptString, max |-> OptString])
DocumentFieldTimeRanges ==
    [Open({}, [min |-> OptString, max |-> OptString, values |-> {"array"}])
     EXCEPT !.inner = [values |-> DocumentFieldTimeRange]]

\* A field may hold fields; what lies below those is read by nobody.
FieldKinds == [type |-> String, value |-> OptString, fields |-> {"array"},
               plain_value |-> OptString, timerange |-> {"object"}]
InnerField == [Open({"type"}, FieldKinds) EXCEPT !.inner = [timerange |-> DocumentFieldTimeRanges]]
DocumentField ==
    [Open({"type"}, FieldKinds)
     EXCEPT !.inner = [timerange |-> DocumentFieldTimeRanges, fields |-> InnerField]]
DocumentBlock ==
    [Open({"type", "fields"}, [type |-> String, fields |-> {"array"}])
     EXCEPT !.inner = [fields |-> DocumentField]]
Document ==
    [Open({"object", "block"},
          [DocKey |-> OptString, DocTitle |-> OptString, CreatorID |-> OptString,
           OwnerID |-> OptString, CreationDate |-> OptString, ChangeDate |-> OptString,
           object |-> String, block |-> {"object"}])
     EXCEPT !.inner = [block |-> DocumentBlock]]

(***************************************************************************)
(* Answers by operation: a success, or an error with the same body.        *)
(***************************************************************************)
Error == Case({"application/json"}, "object", ErrorResponse)
Cases(success, errors) == [c \in {200} \cup errors |-> IF c = 200 THEN success ELSE Error]

CreateExportErrors == {400, 403, 404, 409, 423, 500}
DocumentErrors     == {400, 403, 404, 409, 423, 500}
ExportFileErrors   == {400, 403, 404, 409, 423, 500}
InfoErrors         == {400, 403, 404, 409, 423, 500}
LogsErrors         == {400, 403, 404, 409, 423, 500}

JSON(shape, schema) == Case({"application/json"}, shape, schema)
CreateExportCases == Cases(JSON("object", MassOperationInfoDTO), CreateExportErrors)
DocumentCases     == Cases(JSON("object", Document), DocumentErrors)
InfoCases         == Cases(JSON("object", MassOperationInfoDTO), InfoErrors)
LogsCases         == Cases(JSON("array", MassOperationLogDTO), LogsErrors)
ExportFileCases ==
    Cases(Case({"application/octet-stream", "application/xml"}, "bytes", NoSchema),
          ExportFileErrors)

(***************************************************************************)
(* Requests by operation.  The encoder writes every required text, if only *)
(* the empty one, and the two lists of children as empty ones.             *)
(***************************************************************************)
ScriptOptions ==
    [scriptId |-> Text(""), exportType |-> Text(""), exportDocKey |-> Text(""),
     exportTitle |-> Text(""), scriptOptions |-> Object(<<>>)]
Params(docKey) ==
    [scriptId |-> Text("script"), exportParents |-> Value("boolean", "false"),
     keysRecursive |-> Value("boolean", "true"), exportDocKeys |-> Array(<<docKey>>),
     exportScriptOptions |-> Object(ScriptOptions), exportChildrenTypes |-> Array(<<>>)]
sendCreateExport(token, docKey) ==
    Request("POST", <<"massoperation", "export">>, "application/json", token, Params(docKey))
sendInfo(token, id) == Request("GET", <<"massoperation", id, "info">>, "", token, <<>>)
sendLogs(token, id) == Request("GET", <<"massoperation", id, "logs">>, "", token, <<>>)
sendExportFile(token, id) ==
    Request("GET", <<"massoperation", "export", "binary", id>>, "", token, <<>>)
sendDocument(token, key) == Request("GET", <<"document", key, "json">>, "", token, <<>>)

(***************************************************************************)
(* The activities.  Errors that a repetition cannot change are final.      *)
(***************************************************************************)
Refusal(code) == IF code \in {400, 403, 404} THEN Final ELSE Again

Judged(cases, a, Success(_)) ==
    IF ~Understood(cases, a) THEN Again
    ELSE IF a.code # 200 THEN Refusal(a.code) ELSE Success(a.value)

CreateExport(a) == Judged(CreateExportCases, a, LAMBDA v : Id(Get(v.is, "id", NoId)))

\* strings.ToUpper
Upper(status) == IF status = "completed" THEN "COMPLETED" ELSE status

\* The end of a failed export is returned after its logs were fetched; any other
\* status is one to wait in.
ExportStatus(status) ==
    CASE status = "" -> Final
      [] Upper(status) = "COMPLETED" -> Ok("COMPLETED")
      [] Upper(status) \in {"FAILED", "CANCELED"} -> Verdict("logs", Upper(status))
      [] OTHER -> Poll
PollExportStatus(a) ==
    Judged(InfoCases, a, LAMBDA v : ExportStatus(Get(v.is, "status", "")))
ExportLogs(a, status) == Judged(LogsCases, a, LAMBDA v : Ok(status))

DownloadExport(a) == Judged(ExportFileCases, a, LAMBDA v : Ok(v.is))

\* The IDs in the AIP_ID fields of the AIP_ID_Gp groups; one that is no UUID
\* refuses the document.
FieldsOf(body) == IF Has(body, "fields") THEN body.fields.is ELSE <<>>
OfType(fields, type) == {fields[i] : i \in {i \in DOMAIN fields : fields[i].type.is = type}}
BadUUID == -1

\* Faulty: only the first group is looked at.
FirstAIPUUIDs(document) ==
    LET groups == OfType(document.block.is.fields.is, "AIP_ID_Gp")
    IN {Get(f, "value", NoId) : f \in OfType(FieldsOf(CHOOSE g \in groups : TRUE), "AIP_ID")}
       \ {NoId}

AIPUUIDs(document) ==
    LET groups == OfType(document.block.is.fields.is, "AIP_ID_Gp")
    IN {Get(f, "value", NoId) : f \in UNION {OfType(FieldsOf(g), "AIP_ID") : g \in groups}}
       \ {NoId}
Collected(ids) == IF BadUUID \in ids THEN Final ELSE Ok(ids)
GetDocument(a) == Judged(DocumentCases, a, LAMBDA v : Collected(AIPUUIDs(v.is)))
==============================================================================
