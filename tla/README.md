# Verification of sfa-enduro-workflows

TLA+ models of the two systems in this repository, TLC configurations that check
them on small instances, and TLAPS proofs of their most important properties for
every instance.

1. [The system](#1-the-system): parts, state, operations, interactions
2. [What is hard](#2-what-is-hard)
3. [The modules](#3-the-modules) and how they correspond to the code
4. [The runs](#4-the-runs): bounds, fairness, what each one shows
5. [The proofs](#5-the-proofs)
6. [Disagreements between code and documents](#6-disagreements)
7. [Not modelled](#7-not-modelled)
8. [Plan](#8-plan)

To check a run: `tlc -config DipService_requests.cfg MCDipService`. To check the
proofs of a module: `tlapm DipService_proofs.tla`.

## 1. The system

The repository holds two programs that run against Temporal.

**sfa-dips** generates Dissemination Information Packages (DIPs).

| part | state | operations |
|---|---|---|
| `internal/dips/service.go` | none between requests | POST /dips (`Create`), GET /dips/{id} (`Show`) |
| dip table (`persistence/ent/client/dip.go`) | one row per generation: UUID, docKey, status, object key, createdAt, expiresAt, ... | `RequestDIP`, `ReadDIP`, `UpdateDIP`, `DeleteDIP` |
| `create-dip` workflow (`workflows/create_dip.go`) | `state`, the attempts of its loops, Temporal contexts | one run per row: first update, generation, final update (deferred), retention wait, archive removal |
| activities (`activities/`, `internal/actapro`, `internal/amss`) | files on the session worker's disk | `update-dip`, `prepare-dip`, `parse-metadata`, ACTApro document and export calls, AMSS downloads, `bucket-upload`, `bucket-delete`, `remove-paths` |
| HTTP server (`api/`) | none | authentication interceptors, logging |

A POST looks in one transaction for a generation of the document that is queued,
in progress, or stored and not expired. If there is one, it is returned, a stored
one with a renewed expiry. The transaction is a locking scan of the documents' index, then
an insertion or an update; updates and deletions by UUID run beside it and hold locks of
their own. Otherwise a queued row is inserted and the handler
starts the workflow of that row, and deletes the row if the start fails. The
workflow updates the row through `update-dip`, the only writer besides the
handlers, and keeps the archive in a bucket.

**worker** ingests packages as a child workflow of Enduro.

| part | state | operations |
|---|---|---|
| preprocessing (`workflows/preprocessing.go`) | the result with its tasks and outcome, the SIP directory | extraction, unbagging, identification, six checks, APIS submission, premis.xml, restructuring, identifiers.json, bag |
| poststorage-apis (`workflows/poststorage_apis.go`) | the result shared by all sessions | METS download, import run, import polling, clean-up, session loop |
| poststorage-cantons (`workflows/poststorage_cantons.go`, `internal/cantons`) | files on the session worker's disk | METS download, choice of the metadata file, its download, combination, ZIP, upload, removal, session loop |
| APIS activities (`internal/apis`) | none | `create-apis-import-task`, `poll-apis-import-task-status`, `create-apis-import-run`, `poll-apis-import-run-status` |
| APIS, as in `hack/apis-mock` | import tasks with status and results | POST a task, GET its status, cancel it, POST an import run |
| preprocessing activities (`internal/activities`) | files | identify, validate, verify, transform, write identifiers and PREMIS |

Both programs reach ACTApro, and the worker reaches APIS, through clients generated by
ogen. An answer is accepted only if its status code, content type and every field are of
the description the client was generated from; what is not accepted is an error, and
whether an error is repeated depends on its kind. A poll is one execution of an activity
with many requests, and an attempt that is cut off begins again with the first one.

Preprocessing creates an import task, waits for its analysis and, when APIS finds
conflicts, signals the parent workflow and waits for a person's decision. Task ID
and decision travel to poststorage-apis as custom metadata, after Enduro has
stored the AIP, possibly days later.

## 2. What is hard

PROJECT.json lists the hazards, each at its line. In short:

* *Uncertain calls.* A commit, a workflow start, an upload, a submission or an
  import run may be done although the caller is told that it failed, and then it
  is retried, compensated or given up.
* *Interleaving.* Handlers meet handlers of the same document between an
  insertion, a start and a clean-up; they renew an expiry while the workflow that
  owns the archive sleeps until it.
* *Crashes.* A process ends between a committed row and the start of its workflow;
  a session worker is lost with the files on its disk and may still download, write,
  remove or upload files, in the directory of the next session.
* *Cancellation* reaches some contexts and not others (deferred updates and
  clean-ups run disconnected in create-dip, but not in poststorage-apis), and an
  activity may be running when it arrives.
* *Locks.* Requests scan index entries that several documents share and hold the gap
  after them; updates and deletions take rows first and entries later. Two
  insertions, or an insertion and a deletion, can wait for each other.
* *Two ends of one description.* Client and server are generated from a description
  each; a missing, null or unknown field, a content type, or an error the framework
  writes is understood by one end and refused by the other.
* *Disks that are used again.* A session begins where a lost one left its files,
  and what it packs is everything in the directory.
* *Nested retries.* Attempts of an activity, attempts of an export and attempts of
  a session, of which the outermost has to recognise the loss of a worker by the
  error that comes through the others.
* *Time passing* between a check and its use: analysis, decision and import are
  hours apart and the task can be canceled in APIS meanwhile.

What makes each component correct:

* **DIP requests and table**: one pending generation per document; a generation
  that was promised is driven; a completed one is never revived; a cached archive
  is there until the expiry its caller was told; the expiry only moves forward.
* **create-dip**: every generation ends with a recorded outcome; every archive
  that may exist has its key recorded; an archive is complete and removed after
  its expiry; a lost worker costs a session, not the generation.
* **preprocessing**: a package is accepted exactly when it is sound; every task agrees
  with the outcome; premis.xml claims what was checked; no step loses a file, however far
  it got; the bag holds what was to be preserved, under the names premis.xml has for it.
* **calls of APIS and ACTApro**: what an activity returns is a fact of the service and
  stays one, also when others change the same task; nothing is created a second time
  without a lost answer; every execution ends.
* **poststorage-cantons**: a bundle is the METS file with the metadata file that it
  names, whole and nothing else; files are removed; a lost worker costs a session.
* **APIS ingest**: only the recorded task is imported, once, with the behaviour
  that was decided; a reported success is one APIS reported; nothing polls for
  ever.

## 3. The modules

| module | models | extends |
|---|---|---|
| `DipRecord` | the row and the pure functions of RequestDIP and update-dip | |
| `DipLifecycle` | abstract: what is promised about a generation | |
| `DipService` | handlers, table, create-dip workflows, bucket, clock | `DipRecord`, instantiates `DipLifecycle` |
| `DipTable` | abstract: each call on the table takes effect at one moment or not at all | `DipRecord` |
| `DipTransactions` | the same calls as statements under the locks of the database | `DipTable` |
| `CreateDipSession` | one generation: exports, sessions, workers, archive | |
| `ApisServer` | an import task in APIS, one function per endpoint | |
| `ApisIngest` | preprocessing's APIS part and poststorage-apis | `ApisServer` |
| `OgenCodec` | encoded values, closed objects, optional and null fields, answers | |
| `ApisClient` | requests of the APIS client, the answers it takes, what each activity makes of them | `OgenCodec` |
| `ApisMock` | router, security, decoding and every handler of the mock | `OgenCodec`, `ApisServer` |
| `ActaproClient` | the same for ACTApro, with the polls and logs of an export | `OgenCodec` |
| `ActaproServer` | external: an ACTApro that answers what the client expects | `OgenCodec` |
| `RemoteCalls` | abstract: what a workflow can rely on when an activity asks a service | |
| `ApiCalls` | executions with attempts and deadlines, requests and answers on their way | instantiates the five above, and `OgenCodec` through them |
| `MetsFile` | the scan of a METS file for its metadata file, and which file is meant | |
| `PoststorageCantons` | poststorage-cantons in repeated sessions | `MetsFile` |
| `SipPackage` | a submission, its type, structure, manifest and converted paths | |
| `Preprocessing` | preprocessing from the archive to the bag | `SipPackage` |
| `MC*` | symmetry sets and instances for TLC | the module named after MC |
| `*_proofs` | theorems | the module named before it, TLAPS |

Operators commented "Faulty:" precede the operator they distort. They describe a
plausible bug in the same code and serve to see that a property would notice it;
no specification uses them.

**A step.** An action is a transaction, an attempt of an activity, or, where noted,
an activity with all its retries. Temporal persists a workflow between its
commands, so a workflow is one process whose local state survives; only session
workers and HTTP handlers crash.

**DipRecord, DipService.** `row` is the table, with status "absent" for a UUID
without a row. `Reusable` and `Renewed` are the selection and the renewal of
RequestDIP, the `...Update` functions what the updater passed to UpdateDIP does
for each requested status. `RequestDIP` is split by its result into `Reuse`,
`Create` and `RequestFails`; `StartWorkflow`, `Cleanup` and `Crash` are the rest of
`Create` in service.go. A workflow's pc names the step: "initial" and "final" are
the two updates around the generation, "expire", "sleep", "delete" and "clear" the
loop of deleteDIPAfterRetention and deleteDIP. `UpdateDIP` is one attempt:
reported, failed without an effect, or committed with the answer lost. `Generate`
stands for everything between the updates with the three outcomes
`CreateDipSession` shows to be the only ones (`OutcomeIsKnown`): an archive in the
bucket, no archive, or an uncertain one with its key set. A canceled context is
"closing" for the rest of the step, in which an activity may be running or
completing, and "done" from the next one; `Disconnected` marks the steps a
cancellation does not reach.

**DipTable, DipTransactions.** DipService takes a transaction for one step, and these two
modules say why it may. `DipTable` has the same functions of a row; a call has an effect
as of some moment since it began (`since..clock`: a handler reads its clock before the
commit), or none, and its caller is told or not. `DipTransactions` has the statements of
dip.go: `ScanEntry` and `ScanRow` are the locking scan of RequestDIP entry by entry,
`Choose` what it selects, `Insert`, `Commit` and `Recover` the rest; `LockForUpdate` is
UpdateDIP's read and update, `LockForDelete` and `MarkDeleted` the deletion. `tx` has the
locks and the version of the row (`new`) that the commit makes visible; `Blocks` says who
waits for whom, `Victim` rolls back one call of a cycle. The index of documents holds a
prefix, so `Key` may give two documents one key. `NotFound`, `StatementFails` and the two
results of a failed `Commit` are the error paths, each with its rollback.

**CreateDipSession.** `g` is the workflow with its step, error and two contexts
(the workflow's and the session's), `disk` the working directory on each worker.
The three fields of a directory are what the steps hand to each other: the export,
the DIP tree, the ZIP. Contents are sets: an export lists content files and
passes the XSD or not; an archive holds an export and some files. An activity
with its retries ends "ok", with an ordinary "error", or "stopped" with
CanceledError or ErrSessionFailed. `Failed` keeps what the session handler
returns, because the session loop decides by the kind of that error.
An attempt that timed out, or whose worker is lost or no longer waited for, does not have to
stop: `late` is one of a download-actapro-export, prepare-dip, fetch-aip-file, archive-zip,
upload or removal (`GoesOn`). Every session of a DIP works in `<workingDir>/<uuid>`, so
`LateWrite` may change what a later session on that worker has there: a part of
metadata.xml or all of it, also after it was moved into the DIP, a file cut off or completed, a ZIP of
half a DIP, anything removed. `spoiled` remembers that such a change undid what the running
session had made or validated and still needed (`Undoes`), or that a ZIP was
rewritten while a late upload read it.

**ApisServer, ApisIngest.** `Advanced`, `Canceled`, `WithRun` are the endpoints of
the mock, the only implementation of APIS in the repository. `pre` and `post` are
the two workflows; `pre.task` and `pre.decision` are the custom metadata. An
attempt of an activity is a step, so a retry can meet what the attempt before it
did. `post.outcome` is the outcome of the result all sessions share.

**OgenCodec, ApisClient, ApisMock, ActaproClient, ActaproServer, ApiCalls.** A value on the
wire is an object of fields, an array, a string, a number, null or garbage; `OgenCodec`
says what the generated decoders take (`Reads` for a closed object: all required
fields, none unknown, null only where allowed). The `send...` operators are the requests
of the generated clients, the `...Cases` the answers `decode...Response` takes by code and
content type, and one operator per activity is its judgement of an answer: "ok", "again",
"final", "poll" or "logs". `ApisMock` is the mock from the route to the encoded answer;
its `advanceTask` is what a status request does to a task. In `ApiCalls` an execution asks
(`Ask`), is served (`Serve`) and reads (`Read`); between them the request or answer is on
the `wire`, where a deadline can cut it off, and a request cut off before it was served
may be served later (`late`). `Extend` is an answer of a newer service, with one field
more. `facts` in `RemoteCalls` are what the service knows, here `Facts`.

**MetsFile, PoststorageCantons.** The physical structMap is a sequence of divs with their
depth. `Scan` is the loop of parse.go with its three flags, `Wanted` the file meant, by the
tree alone. In `PoststorageCantons` a directory has three files, each missing, partial or
whole, and an activity that fails may have written any of them. `late` and `upload` are
downloads and an upload that a lost worker carries on; `left` are the workers whose
removal did not run or failed.

**SipPackage, Preprocessing.** A path is a sequence of names, a package the set of its
files with its empty directories, what its two XML manifests list, and its `flaws`: what
tools outside the repository decide (name patterns, file formats, XSD and PREMIS validity,
the bag's own checksums). `SipType`, `ContentPath`, ... are `internal/sip`,
`StructureFailures` is validate_structure.go, `ManifestBreaks`, `ManifestFails` and
`ChecksumsFail` the errors and the two lists of failures of verify_manifest.go,
`ConvertSIPPath` and `Identifiers` the paths written to identifiers.json. `files` is the
extracted directory, replaced by what each activity moves, deletes or writes. `verapdf` says
whether the worker has a veraPDF command; without one the format check is `Skipped` and finds
nothing, and the rest of the workflow goes on as if it had passed. `pc` is the
activity whose reply is awaited; `Proceed` settles tasks and opens those of the next step,
and `Following` is the order of the checks with the stop after the last one. A failing
check records its failure and the next one still runs. `Breaks` is a package over which
an activity returns an error; `ActivityFails` is that error, or one of the worker, after
nothing, a part (`Disrupted`) or all of the activity was done. The submission to APIS is
one step with three results: `ApisIngest` is its inside.

Each property of a package is stated a second time, from its content alone and without a
look at the order of the steps: `WellStructured`, `WellListed`, `Sound`, `Obstructed`,
`Preserved`.

## 4. The runs

| run | question | instance | distinct states |
|---|---|---|---|
| `dip_requests` | Do concurrent requests, renewals and retention get along, and is all of it a life cycle? | 3 requests, 2 generations, 1 document, retention unlimited or 2, 1 fault, time to 3 | 579,311 |
| `dip_faults` | What if more calls fail than an activity has attempts? With fewer, does every generation end? | 1 generation, 2 requests, 2 attempts, 5 faults, retention unlimited or 1 | 114,296 |
| `dip_session` | Is an archive complete and known, and does a session give way to the next? | 2 files, 2 workers, 2 sessions, 2 exports, 2 losses, 1 late attempt | 2,149,087 |
| `apis_ingest` | Is what is reported what APIS did, and does the ingest settle? | 2 tasks, 2 attempts, 2 sessions, 2 faults, 1 loss | 400,228 |
| `dip_transactions` | Are the transactions atomic and free of standstills? | 2 requests, 1 update, 1 deletion, 2 documents with one index key, 1 old row or none, 1 fault, time to 2 | 121,885 |
| `api_exchange` | Is what an activity returns true, and do client and server understand each other? | 2 executions (pairs of operations), 2 attempts | 204,593 |
| `cantons_bundle` | Is a bundle whole, and does a session give way to the next? | 7 METS files, 2 workers, 2 sessions, any number of losses | 240,550 |
| `prep_packages` | Is a package accepted exactly when it is sound, and what becomes of its files? | 4 types, bag or not, up to 2 edits: 5,236 packages, each with veraPDF and without | 269,890 |

The remaining runs each show one disagreement (section 6).

**Bounds.** `MaxFaults`, `MaxLosses` and `MaxTime` bound the environment; they are
in the guards of faults, losses and `Tick`. `MaxTries`, `MaxSessions` and
`MaxExports` stand for constants of the code (3 or 5); 2 is enough for a first, a
repeated and a last attempt to differ. Two generations of one document are the
least that can be confused (a cached and a pending one, two pending ones); three
requests let two of them race for the second generation while a third renews.
Documents do not interact except through `docKey`, so one is enough. In
`dip_faults` five faults are enough for an update around the generation and a later
step to use up their attempts one after the other. Two tasks let one submission be lost
and repeated. Two workers and two losses let a session leave files on a disk
and the next one run elsewhere or come back to them. Of the attempts that go on late in
`CreateDipSession` one is followed in a generation, and one write of it; what it leaves one after the other
is among the states that this write chooses from. One is enough to change a
directory between any two steps of a later session. The clock reaches beyond a renewed
expiry. `prep_packages` begins with a well-formed package of each type and makes up to two
of some forty edits: a file removed, added with or without an entry in the manifest, an
entry without a file, a different or unsupported checksum, another or no manifest, an empty
directory, each flaw, the old metadata.xml of an AIP, and a directory with the name of
metadata.xml or arelda.xsd, which the structure check does not tell from a file. One edit reaches every failure of
every check, two let one failure hide, replace or follow another. Faults need no bound: the
first one ends the workflow. `Names` is the set of all strings. Liveness is checked without symmetry.
In `dip_transactions` an update and a deletion can meet each request at each of its
statements, and the two requests each other in a scan or a gap; two documents with neighbouring
keys (`TwoKeys`) and larger instances were checked by hand with the same results. In `api_exchange` the pairs are chosen so that one execution
changes what the other reads (a poll and a run, a poll and a cancellation, two
creations), for each result of analysis and import, at each stage of a task; an error of
ACTApro is one of 400, 401, 403, 404 and 423. `cantons_bundle` also passed with three
sessions (5.4 million states); its METS files are a SIP's, AIPs' with the updated file before or after
the old one or in a group that is not searched, with a directory before the file, a
metadata.xml outside the header, and none.

The type invariants (`TypeOK`) of the proved modules are theorems and not in the cfgs, as their
inductive invariants, which TLC checked on these instances before they were proved.

**Properties of `dip_requests` and `dip_faults`.** `OneGenerationPerDocument`: never two
pending rows for a document. `CachedAnswerStaysAvailable`: a caller handed a stored
DIP can fetch its archive until the expiry it was handed. `AcceptedIsDriven`: a
generation reported as created has a running workflow or an outcome that could
not be recorded. `ExpiryNeverShortened`, `CompletedIsFinal`: what no step may do to a
completed row. `KeyOutlivesObject`: a completed row names its archive as long as it
may exist. `ExpiryIsAttended`: an expiry implies a workflow that waits for it.
`Implements`: the refinement of DipLifecycle, with `phase` a row's status,
"withdrawn" for one that was deleted again. `GenerationEnds`, `RetentionEnds`: a
started generation gets a terminal status and an expired archive is removed,
unless as many calls fail as an activity has attempts.

**Properties of `dip_session`.** `OutcomeIsKnown` is the assumption `Generate` makes.
`ArchiveHoldsItsMetadata`: an archive has a valid export and all its files, even on a
disk where an earlier session was lost and may still be at work. The exception is `spoiled`, against which the
code has no defence (section 6); a late attempt that comes before the session's own step, or
after the session needed the file, must do no harm. `FilesAreRemoved`: files stay behind only on
a lost worker, after a failed removal, or where a late attempt wrote. `LossIsRetriedElsewhere`: outside the METS
downloads a lost worker fails the generation in the last session only.
`GenerationReturns`: the nested loops end.

**Properties of `apis_ingest`.** `SuccessIsImported`, `ConflictsAreDecided`: a reported
success was imported as decided, and nothing undecided or not recorded is ever
imported. `TaskEndsOnce`: late polls, runs and cancellations move no task that has
ended. `PreprocessingSettles`, `PoststorageEnds`: everything but the wait for a person
ends.

**Properties of `prep_packages`.** `VerdictIsRight`: accepted implies sound, and refused
implies unsound, obstructed (a file where a directory has to be made, or nothing to
identify), or a fault. `TasksTellTheOutcome`: the tasks sum up to the outcome and none
stays open. `PremisIsTrue`: what premis.xml claims has been checked and passed, except for the format check
of a worker without veraPDF, which is claimed and was not made. Sound, too, is what the tools of the worker can
tell: without veraPDF a package with a bad PDF/A is accepted. `NothingIsLost`: each file
to preserve is in its old or its new place at every moment, however far an activity got.
`BagIsComplete`: the bag is the preserved files, the two written ones and stray files in
the root, and its content is what premis.xml names. `RefusedIsUntouched`: nothing is
written for a refused package. `IdentifiersCoverContent`: where the manifest that was
verified gives the identifiers, each content file has one. There is no liveness here: the
workflow has no loop, and each activity a deadline.

**Properties of `dip_transactions`.** `IsAtomic`: the statements implement `DipTable`.
`InserterIsAlone`: two requests that both found nothing never both insert, which no
uniqueness constraint of the schema would prevent. `DeadlocksAreOfInsertions`: requests
that find a row, and updates, are never rolled back on account of each other. `CallsEnd`:
no lock outlives its transaction and no wait is for ever.

**Properties of `api_exchange`.** `ReturnedIsRecorded`: what an execution returned is a fact and
stays one. `AnswersAreUnderstood`: the client takes every answer of the mock to a request
with a good token. `CreationsAreAnswered`: there are no more creations for an execution than one and
the answers it lost or could not read. `Implements`: the refinement of RemoteCalls.
`CallsEnd`: attempts, polls and the logs of a failed export end.

**Properties of `cantons_bundle`.** `BundleIsComplete`, unless a download of a lost session still
writes beside the session that uploads. `FilesAreRemoved`: files stay only where a removal was stopped or failed
or a ZIP failed. `LossIsRetried`: with a lost worker the workflow fails in the last
session only. `WorkflowReturns`: the session loop ends.

**Fairness** is weak and only on steps of programs that keep running: the handler
after it inserted a row, the workflow steps Temporal repeats until they complete,
and the clock. No request, cancellation, worker loss, fault, decision or start of
post-storage is fair: nobody has to do these. In DipTransactions it is the next statement of a
call that has begun, and the database's search for deadlocks, which each have a thread that runs. In ApiCalls only
`Deadline` is fair, since every attempt has a StartToCloseTimeout: neither service nor
network is assumed to do anything. In PoststorageCantons it is the workflow's own step. The wait for a decision therefore
is an allowed end of `PreprocessingSettles`; the code gives it no timeout.

**Deadlock** is not checked in DipService, DipTransactions, ApiCalls, ApisIngest and Preprocessing,
where everything may have been done. CreateDipSession and PoststorageCantons state their end
as a step (`Ended`), and deadlock is checked: neither is stuck in between. The deadlocks of
DipTransactions are cycles of waits, which `Victim` ends and `CallsEnd` is about.

## 5. The proofs

For every number of documents, generations, requests, files, workers, tasks, executions,
attempts, sessions and faults, every assignment of index keys, and every set of packages:

| theorem | module | rests on |
|---|---|---|
| `TypeCorrect`, `SpecTypeOK` | all | type invariant, inductive as it stands in DipService |
| `SpecOneGeneration` | DipService_proofs | inductive with the types: `RowStep` says a step does one of four things to one row |
| `SpecCompletedIsFinal`, `SpecExpiryNeverShortened` | DipService_proofs | `CompletedRowStep`, what can happen to a completed row |
| `SpecKeyOutlivesObject` | DipService_proofs | `OwnInv`, `KeyInv` |
| `SpecExpiryIsAttended` | DipService_proofs | `DriveInv` |
| `SpecAcceptedIsDriven`, `SpecCachedAnswerStaysAvailable` | DipService_proofs | `DriveInv`, `PromiseInv` |
| `SpecImplements` | DipService_proofs | all of these: `StepRefines`, one lemma per action that changes a row |
| `SpecIsAtomic`, `SpecInserterIsAlone` | DipTransactions_proofs | `TxInv` |
| `SpecDeadlocksAreOfInsertions` | DipTransactions_proofs | `OrderInv`: `TxInv`, `Numbered`, `InOrder` |
| `SpecCallsGoOn` | DipTransactions_proofs | `OrderInv`, `FewUnderWay`; `GoesFarther`, `WaitsMeet` |
| `SpecReturnedIsRecorded` | ApiCalls_proofs | `IInv` |
| `SpecAnswersAreUnderstood` | ApiCalls_proofs | `IInv`; `MockAnswers`, one lemma per endpoint |
| `SpecCreationsAreAnswered` | ApiCalls_proofs | `IInv`, `CountInv` |
| `SpecImplements` | ApiCalls_proofs | `IInv`, `CountInv`: `StepImplements` |
| `SpecOutcomeIsKnown`, `SpecArchiveHoldsItsMetadata` | CreateDipSession_proofs | `SessionInv` |
| `SpecFilesAreRemoved`, `SpecLossIsRetriedElsewhere` | CreateDipSession_proofs | `SessionInv`, `Removed`, `Told` |
| `SpecGenerationEndsSoon` | CreateDipSession_proofs | `SessionInv`; `ExportGoesOn`, `FilesGoOn`, `LoopGoesOn` |
| `ParsesRight` | PoststorageCantons_proofs | `Found`, by induction over the divs |
| `SpecBundleIsComplete` | PoststorageCantons_proofs | `IInv`, `ParsesRight` |
| `SpecFilesAreRemoved`, `SpecLossIsRetried` | PoststorageCantons_proofs | `IInv` |
| `SpecWorkflowEndsSoon` | PoststorageCantons_proofs | `IInv`; `SessionGoesOn`, `LoopGoesOn` |
| `SpecConflictsAreDecided`, `SpecSuccessIsImported` | ApisIngest_proofs | `IngestInv` |
| `SpecTaskEndsOnce` | ApisIngest_proofs | `IngestInv` |
| `SpecIngestEndsSoon` | ApisIngest_proofs | `IngestInv`, `RunIsPolled`; `PreGoesOn`, `SessionGoesOn`, `ImportGoesOn` |
| `SpecPremisIsTrue` | Preprocessing_proofs | `Claiming` |
| `SpecTasksTellTheOutcome` | Preprocessing_proofs | `Processing`, `Telling` |
| `SpecRefusedIsUntouched` | Preprocessing_proofs | `Processing` |
| `SpecVerdictIsRight` | PreprocessingPackages_proofs | `Judging`; `PassedIsSound`, `SoundPasses` |
| `SpecNothingIsLost`, `SpecBagIsComplete`, `SpecIdentifiersCoverContent` | PreprocessingPackages_proofs | `Keeping` |

Assumptions are those on the constants (`IdAssumption`, `NumberAssumption`,
`SessionAssumption`, `IngestAssumption`, `IdsAssumption`, `SettingsAssumption`, `MaxTriesAssumption`: numbers are natural, attempts positive, the
"none" values outside their sets; `NamesAssumption`, `PackageAssumption`: the names with
a meaning are valid names, and a payload has no entry "data" or "bagit.txt" of its own;
`TreeAssumption`: a package is a finite tree; `AIPsAssumption`: a METS file has the form that
`Document` describes). TLC evaluates them in every run. The IDs that an execution of an activity asks with are
not the empty one: the activities refuse empty IDs before they ask (`Work`).

**Why the invariants are needed.** `KeyOutlivesObject` is not inductive: a row could be
completed while an object appears, or its key cleared while the object is there.
`KeyInv` ties the bucket to the workflow: an object exists only if the workflow set
its key, there is none before the generation ends, and it is gone in step "clear".
That no handler starts a workflow that is already under way takes `OwnInv`: a handler
about to start one is the only one for its row, and the workflow has not begun.

`CachedAnswerStaysAvailable` relates what a handler answered to what a workflow removes many
steps later, after an update that asked for the expiry, perhaps before the answer was given.
`DriveInv` says what the row may be in each step of its workflow (`Places`: while
the archive is removed after a recorded outcome, the row is not stored) and what a
stored row still has (`Attended`: its archive, and somebody waiting for its expiry).
`PromiseInv` says what remains of a stored answer however its row goes on: its expiry is at
least the one told as long as the row is stored, and that time is over once the row is deleted.
`AcceptedIsDriven` follows from the same two: a workflow that has recorded its outcome left
no pending row. The refinement needs them again: an update of a workflow is the step of
the life cycle its row allows, so a final update stores only a row in progress without
an expiry, and a clean-up withdraws only a row it knows. `KnownStep` keeps a UUID that was
drawn from being unused again.

`IsAtomic` says that a call takes effect in its last statement as if it had read and
written at once, so the invariant has to carry what was read until then. `Exclusive`
(no two transactions hold an entry or a row), `Indexed` (the index has the committed rows
and those being inserted) and `Scanned` (a request past its scan holds all entries of
its key) leave `Justified`: what a transaction is about to commit is what the call would do
now. An old row cannot become a candidate meanwhile, since it is locked; a new one
cannot appear, since its insertion waits for the gap. That needs `Private` and `Frame`: what other calls do to
rows and entries that are not theirs. `InserterIsAlone` is a consequence.

`DeadlocksAreOfInsertions` is about cycles of any length in the graph of waits; a cycle is a least set of calls of
which each waits for another. An insertion waits only for calls that hold a gap, and of those the
only ones that wait are insertions themselves, so a cycle with an insertion has nothing else (`InsertionsMeet`). A cycle
without insertions and deletions would have scans only behind every wait. A scan that waits holds the first entries of its index key,
with their rows, and needs the next one (`InOrder`, which rests on `Numbered`: a primary key is given
out once), so who holds that one has come further: the members of the cycle that are further than
one of them would be a smaller cycle (`ScansDoNotMeet`).

`ReturnedIsRecorded` is about the moment after `Read`, but the answer was written at
`Serve`, and others may have been served since. So the invariant says of every answer on
the wire that what the activity would make of it is a fact (`Told`), that facts stay
(`FactsStay`), because no endpoint takes back a result that was shown (`Keeps`, `Grows`),
and that logs are asked with the status that was polled (`Ending`). `Keeps` in turn needs
that an import that is done has its status, and that places beyond the last task are fresh.
`Routes` are the requests of the client on the way to their handlers in the mock's router.

`AnswersAreUnderstood` takes two modules that were generated separately and asks whether they agree.
Each endpoint of the mock has a lemma that lists the answers it can give, with their code, content type and
fields, and that the schema the client reads them by takes these fields (`ReadsFlat`); that
the path and the body of every request the client sends are understood comes before it, from the same routes.

`CreationsAreAnswered` counts across attempts. For each execution `CountInv` keeps what the service made and
what late requests may still make (`Mades`, `Lates`) within the attempts that asked (`Asked`); the ones whose
answer was spoilt (`Spoilt`) and the one under way (`UnderWay`) account for all of them but one (`Counted`).
It needs that an answered creation is never asked for again (`MakesOne`: whatever the mock and ACTApro answer
to a request that made something, the activity has an ID or gives up). `Implements` uses the same
counts: `RemoteCalls` allows a call no more creations than attempts, also after it ended.

`ArchiveHoldsItsMetadata` speaks of the bucket, and its cause is on a disk several
steps earlier. `Building` follows the directory of the session from a validated export
(steps "mets" to "prepare") through the files still to fetch to a whole DIP ("zip")
and a whole ZIP ("upload"), and `Uploaded` adds the object and the late upload, which has the ZIP
as it was when the upload began. Both hold as long as nothing was `spoiled`: a late attempt that did not
undo anything leaves `Building` true (step `LateWrite` of `AtWorkStep`), and the change
of a directory where no session runs is met by the next one at its own steps. `Removed` allows files in the directory
of the running session and on workers that are `dirty`; `Told` says where
the news of a stopped activity is (`cut`): in the METS downloads, on its way to the next
session, or in the last one. A late attempt does not touch the workflow, so it is none of the
steps that lower the number of `SpecGenerationEndsSoon`.

The search bundle of poststorage-cantons is built the same way, without an export to
validate. Its `Building` holds as long as no late download wrote into the directory of the running
session, and only until the step in which the worker is lost: what is written there
afterwards is zipped at most, not uploaded. `Swept` has the files that are on a
worker and not given up, `Told` the error that keeps the news of a stopped step.

That the bundle has the right file also rests on the scan of the METS file, which keeps three flags
where a stack would be needed. `ParsesRight` says that it finds a file the tree wants, for any number of divs of any
depth: `Found` states for each prefix of the divs what the flags mean (a header is open only above the next div) and
which file each variable has (the last updated one, some old one below a header). The step from one div to the next
is `FindsOn`; the induction is over the set of the positions for which it holds (`SetInduction`, from the
well-foundedness of finite sets), since the library's induction takes an operator. `Document` is what it takes of a METS file:
files are leaves, the names looked for are files, and no updated file without a path follows one that has a path.
Without the last, the code would fall back to metadata.xml although there is an updated file.

`ConflictsAreDecided` needs `TaskIsDecided` (a workflow past the analysis has a task, and past
a conflict a decision to continue), `PoststorageFollows` (post-storage only after
successful preprocessing) and `RunFollowsDecision` (a run belongs to the recorded task and
is the one decided). `SuccessIsImported` needs `SuccessIsSeen`, which holds the result between
the poll and the return, when a canceled task would otherwise look the same.

Even the types in Preprocessing need an invariant: unbagging is a move within the package
only if what is on disk is the bag (`Arrived`), an event number is in range only for the
identified type (`Placed`), and premis.xml starts empty (`Blank`); together `Processing`.
`PremisIsTrue` is about a step long after the checks. For the format check it says that it was skipped or
found nothing, for every other one that it found nothing. `Rank` orders the steps, `NextStep`
says that a check of lower rank than the next step either does not apply to the type or
has been made, `Passed` that all of those succeeded while the outcome is a success, and
`Described` that the objects of premis.xml are the content when events are linked to them.
`TasksTellTheOutcome` needs `Telling`: until a system error the open tasks are exactly those
of the step, the later ones have not begun, so that no settled task is opened again, and
some task is invalid exactly when the outcome is "content".

`VerdictIsRight` compares a dozen checks, made by several activities in an order that depends on
the type, with a definition that knows neither. One part of its proof is about packages
alone: the structure check and the comparison with the manifest find nothing exactly
if `WellStructured` and `WellListed` hold (`PassedIsSound`, `SoundPasses`). The other part is the
invariant `Judging`, on top of `Claiming` of `PremisIsTrue`: what came to its step has passed what was checked
before it (`Judged`), what is on disk is the package with premis.xml, and the manifest is where it will be read again
(`Shaped`), a success is sound (`Accepted`), and any other outcome has an unsound
package, a fault or an obstacle behind it (`Refused`).

`NothingIsLost` has to hold in the middle of unbagging and of restructuring, where an activity
may fail between two moves or two deletions. `MovesApart` says that no two moves touch
the same file or start where another arrives, so that any set of them made so far leaves each file to
preserve where it was or puts it where it belongs (`KeptUnbagging`, `KeptRestructuring`). `Keeping`
follows this through the steps: `Located` has the files of the restructured package, with
what is written next to them and in the bag, `Recorded` what premis.xml and identifiers.json were
made from, `Ended` that everything is found where the workflow stopped. `TreeAssumption` is what
the checks of the structure and of the empty directories rest on.

**The way to the end.** Liveness itself is beyond the prover, but not the argument it mostly rests on: a number that
every step of a workflow lowers and that nothing else raises. For a generation it counts sessions, then
export attempts, then steps; the downloads stay in one step and shrink the list of files instead
(`SpecGenerationEndsSoon`). For the search bundle it counts sessions and steps
(`SpecWorkflowEndsSoon`). For an ingest it also counts the attempts of a step and the polls of a
task that can still show something new. That a poll always does is the part that could fail: the
activities poll without a limit, so a task that stays in one status would be polled for ever.
`RunIsPolled` says that an import that is polled has a run, or was canceled (`SpecIngestEndsSoon`). The statements are
about every number of sessions, attempts, files and faults, so retries nested in retries cannot go on for ever by themselves.
What is left to TLC is that a workflow that has not ended can take a step.
For the calls on the table `SpecCallsGoOn` also says who waits: each statement is the last one, a
later one or locks more of a scan; who blocks a call is under way; and calls that wait for
no one but each other have a deadlock among them (`WaitsMeet` takes a least set of them that
still waits, so a finite number of calls must be under way at any time: `FewUnderWay`).

**Only model-checked.** Liveness under fairness is beyond the prover: that generations, retentions,
requests, calls, preprocessing and post-storage end (`GenerationEnds`, `RetentionEnds`, `GenerationReturns`,
`PreprocessingSettles`, `PoststorageEnds`, `WorkflowReturns` and the two `CallsEnd`) is checked by TLC on small instances.
Of five of them the theorems on the way to the end prove what holds for every instance: the descent,
not that a step is possible, and for the calls that not all of them wait for others for ever. Every other property of a passing run is a theorem.

## 6. Disagreements

Each is shown by a run that TLC finds violated.

| run | what happens | what is said |
|---|---|---|
| `dip_lost_archive` | the final update commits, all its answers are lost, the archive is deleted and the row stays "stored" and is handed out | `internal/dips/README.md`: returned DIPs are "cached and still available" |
| `dip_stuck_queue` | a row is committed and no workflow ever starts (crash, or lost commit and failed read, or failed deletion); all later calls get it | comment in `dip.go`: "otherwise later requests would keep reusing a queued DIP with no workflow" |
| `prep_identifiers` | identifiers.json of an accepted born-digital AIP names a file the package does not have: its source, the old metadata.xml, was never verified, and every path that begins with "content" is kept | comment in `write_identifier_file.go`: files "not included in the PIP" are removed from the list |
| `apis_retry` | a lost session records a system error in the shared result, the repeated session succeeds and the outcome stays an error | comment in `poststorage_apis.go`: retry if the worker was lost |

Further things met while modelling, without a run of their own:

* A second caller of POST /dips gets the ID of a row that the first handler then deletes because
  its workflow did not start; GET /dips/{id} with that ID finds nothing.
* `create_dip.go` joins the errors of the METS downloads as text, so the loss of a worker
  there is not recognised and the generation fails in the first session.
  `LossIsRetriedElsewhere` leaves this step out.
* A download, fetch, ZIP or removal of a lost session that goes on works in the directory of a later
  session of the same DIP on that worker (`create_dip.go:295`). It can truncate or replace
  metadata.xml between its validation and prepare-dip (`download_export_activity.go:97`), truncate a
  file the session has fetched (`fetch_aip_file.go:59`), rewrite the ZIP (`create_dip.go:620-629`) or
  remove files, and the archive is stored all the same. Nothing in the code prevents it;
  `ArchiveHoldsItsMetadata` leaves these histories out (`spoiled`).
* Without a veraPDF command the format check reports nothing (`verapdf_validator.go:62-66`), yet premis.xml gets
  "valid" and "File format complies with specification" for each PDF/A
  (`preprocessing.go:927-945`, `add_premis_validation_event.go:87-121`). By the README, PDF/As are to be validated
  "against the PDF/A specification" (`README.md:391-392`), and the changelog has "Don't add inapplicable veraPDF
  PREMIS events" (`CHANGELOG.md:145`). `PremisIsTrue` names this exception.
* For digitized packages the README has `Prozess_Digitalisierung_PREMIS.xml` moved to the metadata
  directory (`README.md:456`, `474-475`). `transform_sip.go` leaves it in the content, below
  `objects/<sip>/content`, which is what `Preserved` has and `BagIsComplete` checks.
* The name of an AIP is not checked (`HasValidName` in `sip.go:135-157` has no criteria for it), and premis.xml says
  that it "matches validation criteria".
* When the answer to an import run is lost, `create-apis-import-run` posts it again and APIS refuses it;
  post-storage reports a failed delivery while APIS imports.
* `internal/dips/README.md` has the key cleared and "then" the archive removed; the code
  removes first, which is the safer order (`KeyOutlivesObject`).
* In preprocessing a package without its manifest is not refused for its content: the structure check
  reports the missing file, then `VerifyManifest` cannot open it and the workflow ends
  with a system error.
* Errors the ogen framework writes itself (400, 401, 415) are application/json, and the
  generated client takes problem+json only: the branch for "unauthorized" of the APIS activities is
  not reached by the mock's own refusals, which are repeated as an unknown answer. Unknown values of an enum fail
  validation in the same way before the branches for an unknown status.
* The mock's README writes paths as `POST /api/ImportTasks`; its router takes lower case only. It says that conflicts
  stop the flow before the import; the handler starts a run after them.
* A FAILED export whose log has an unknown status ends the activity with an error, and an export with any other
  status is polled until StartToCloseTimeout.
* In the METS scan of `internal/cantons` the end of any div ends all three flags, so a
  metadata.xml that comes after a directory of the header is missed. This leads to "not found", never to a wrong file
  (`BundleIsComplete`).
* A canceled poststorage-cantons returns neither result nor error, also after its upload, and its deferred
  removal cannot run in the canceled context. The path of a ZIP is known only from the
  result, so the ZIP of a failed activity stays. A session whose upload succeeded and
  whose removal was stopped is repeated, and so is one that had failed before its removal was stopped.

## 7. Not modelled

* Generated code of ent and goa, enums and test doubles, configuration, start-up,
  migrations, logging. The ogen code of APIS and ACTApro is modelled where an answer or a
  request can be refused; formatting, tracing and buffers are not.
* Authentication: each request asks the providers in turn and keeps nothing.
* In DipTransactions: the inside of the database beyond the locks its statements take
  (pages, purge, replication). A database with another isolation level is a mutant of
  `GapBlocks`, not a model.
* In ApiCalls: a restart of the mock, which forgets every task; how a token is fetched (it
  is valid, expired or missing); the contents of documents and export files.
* In CreateDipSession: a second late attempt of one generation; late METS downloads, whose files nothing
  in the modelled directory depends on.
* In PoststorageCantons: late activities of a lost worker other than downloads and the upload; the XML
  of the combined file.
* parse-metadata's matching of PREMIS objects to the files of an export, and the checksum comparison inside
  an AMSS download: computations on one document each.
* The contents of files: XML, checksums, PREMIS, ZIP. An export is a set of files
  and a verdict.
* A late upload of a lost worker is modelled in CreateDipSession, not in
  DipService, where it could land after the removal of the archive of a failed DIP.
* In DipTable: an update that clears the key of a row that is still in progress or stored, after
  a final update that failed; it changes nothing of the row that the model has.
* In Preprocessing: an empty data directory of a bag, which the code unbags and the model treats like a missing
  one (the package is refused either way); the check of the workflow's parameters; an activity that still runs
  when the workflow is canceled; a move or a write of one file that is itself done by half;
  a root directory whose own name is invalid. The external activities that extract the
  archive and create the bag do all or nothing.

## 8. Plan

In this order, the most important behaviour first:

1. `DipRecord`, `DipService`, `DipLifecycle`, proofs of types, of the key and of final states: done.
2. `CreateDipSession`, its proofs: done.
3. `ApisServer`, `ApisIngest`, their proofs: done.
4. `SipPackage`, `Preprocessing`, proofs of types, tasks, premis.xml and refusal: done.
5. `DipTable`, `DipTransactions`: RequestDIP as statements under locks, proved to implement the
   atomic steps: done.
6. The exchange with APIS and ACTApro, proof that what is returned is recorded: done.
7. `MetsFile`, `PoststorageCantons`, their proofs, also of the scan: done.
8. `ParseMetadata`: the choice of the files of an export against a reference definition
   over bounded inputs.
9. The late upload carried over to `DipService`.
10. An abstract specification of preprocessing (a package is refused untouched, or accepted
   if sound) that Preprocessing is shown to implement.
11. Proofs that every promise of DipService holds and every step of it is one of
   DipLifecycle or none: done.
12. Theorems about the files of Preprocessing, `VerdictIsRight` to `IdentifiersCoverContent`: done.
13. An abstract bundle that PoststorageCantons implements.
14. The descent behind the liveness of generations, bundles, ingests and calls: done.
