--------------------------- MODULE CreateDipSession ---------------------------
(***************************************************************************)
(* The generation of one DIP: what the create-dip workflow                 *)
(* (internal/dips/workflows/create_dip.go) does between its first and its  *)
(* final update.  It retrieves the document and the AIP paths and then, in *)
(* a Temporal session on one worker, exports the metadata, downloads the   *)
(* files, zips and uploads them.  A session is repeated when its worker is *)
(* lost.                                                                   *)
(*                                                                         *)
(* An activity with all its retries is one step that is "ok", returns an   *)
(* ordinary "error", or is "stopped": it returns a CanceledError or        *)
(* ErrSessionFailed because the workflow was canceled or the worker lost.  *)
(* An attempt that timed out or whose worker was lost may go on writing to *)
(* the working directory, which is the same for every session of a DIP.    *)
(***************************************************************************)
EXTENDS Integers, FiniteSets

CONSTANTS Files,        \* content files of the document
          Workers,      \* session workers, each with a local disk
          NoWorker,
          MaxSessions,  \* maxAttempts of the session loop
          MaxExports,   \* maxExportAttempts
          MaxLosses     \* bound: workers lost

ASSUME SessionAssumption == /\ Files # {}
                            /\ NoWorker \notin Workers
                            /\ MaxSessions \in Nat \ {0}
                            /\ MaxExports \in Nat \ {0}
                            /\ MaxLosses \in Nat

VARIABLES g,       \* the workflow: its step, its locals and its contexts
          disk,    \* the DIP's working directory on each worker
          object,  \* the archive in the bucket
          late,    \* an attempt that goes on though its workflow waits no longer
          spoiled, \* history: a late attempt changed what a session works with
          losses,
          dirty    \* workers with files that no clean-up has removed

vars == <<g, disk, object, late, spoiled, losses, dirty>>

\* An ACTApro export: the content files it lists and whether the XSD accepts it.
\* Invalid is one the XSD does not accept, or a part of one.
Export   == [files: SUBSET Files, valid: BOOLEAN]
NoExport == [files |-> {}, valid |-> FALSE]
Invalid  == [files |-> Files, valid |-> FALSE]

\* Broken is a part of an archive, or one made of two.
Archive   == [metadata: Export, content: SUBSET Files]
NoArchive == [metadata |-> NoExport, content |-> {}]
Broken    == [metadata |-> Invalid, content |-> {}]

\* metadata.xml, the DIP directory and the ZIP next to it.
Directory == [metadata: Export, dip: Archive, zip: Archive]
Empty     == [metadata |-> NoExport, dip |-> NoArchive, zip |-> NoArchive]

\* The step a late attempt belongs to, its worker, and the export it downloads,
\* the content file it fetches or the ZIP it uploads.
Attempt   == [step: {"none", "over", "download", "prepare", "content", "zip", "upload",
                     "cleanup"},
              on: Workers \cup {NoWorker}, data: Archive]
NoAttempt == [step |-> "none", on |-> NoWorker, data |-> NoArchive]
Over      == [NoAttempt EXCEPT !.step = "over"]

ExportStep == {"export", "poll", "download", "validate"}
FileStep   == {"parse", "prepare", "content", "zip", "upload"}
PC == {"document", "paths", "session", "delay", "mets", "cleanup", "retry", "ended"}
          \cup ExportStep \cup FileStep

\* A context is "closing" while the step in which it ended may have an activity
\* running, and "done" from the next step on.
Context == {"open", "closing", "done"}

\* err: what the session handler or Execute returns, cut: whether the step that
\* failed was stopped, and where.  root: the workflow's context, lost: the end of
\* the session's context with its worker.
Generation == [pc: PC, err: {"none", "plain", "stopped"},
               cut: {"no", "mets", "elsewhere"}, attempt: 1..MaxSessions,
               tries: 1..MaxExports, export: Export, todo: SUBSET Files,
               key: BOOLEAN, on: Workers \cup {NoWorker},
               root: Context, lost: Context]

TypeOK ==
    /\ g \in Generation
    /\ disk \in [Workers -> Directory]
    /\ object \in Archive
    /\ late \in Attempt /\ spoiled \in BOOLEAN
    /\ losses \in 0..MaxLosses
    /\ dirty \subseteq Workers

Init ==
    /\ g = [pc |-> "document", err |-> "none", cut |-> "no",
            attempt |-> 1, tries |-> 1, export |-> NoExport, todo |-> {},
            key |-> FALSE, on |-> NoWorker, root |-> "open", lost |-> "open"]
    /\ disk = [w \in Workers |-> Empty]
    /\ object = NoArchive
    /\ late = NoAttempt /\ spoiled = FALSE
    /\ losses = 0
    /\ dirty = {}

(***************************************************************************)
(* How a step ends.                                                        *)
(***************************************************************************)
Runnable  == g.root # "done" /\ g.lost # "done"
Stoppable == g.root # "open" \/ g.lost # "open"

Ends(how) == CASE how = "stopped" -> Stoppable
               [] OTHER -> Runnable

Passed(context) == IF context = "open" THEN "open" ELSE "done"

\* The locals of the export and those of the session are gone when it is over.
Goto(pc) ==
    [g EXCEPT !.pc = pc, !.root = Passed(@), !.lost = Passed(@),
              !.export = IF pc = "download" THEN @ ELSE NoExport,
              !.tries  = IF pc \in ExportStep \cup {"delay"} THEN @ ELSE 1,
              !.todo   = IF pc \in FileStep THEN @ ELSE {}]

\* The step failed with an error of this kind; pc is where its caller goes.
Failed(kind, how, pc) ==
    [Goto(pc) EXCEPT !.err = kind,
                     !.cut = CASE how # "stopped" -> "no"
                               [] g.pc = "mets"   -> "mets"
                               [] OTHER           -> "elsewhere"]

\* Faulty: an export that was stopped counts as a failed export attempt.
ExportFailedCounting(how) ==
    IF g.tries < MaxExports THEN Goto("delay") ELSE Failed("plain", how, "cleanup")

\* fetchValidMetadata: a stopped export ends the session, a failed one is
\* repeated after a delay until its attempts are used up.
ExportFailed(how) ==
    IF how = "stopped" THEN Failed("stopped", how, "cleanup")
    ELSE IF g.tries < MaxExports THEN Goto("delay")
    ELSE Failed("plain", how, "cleanup")

FileStepFailed(how) ==
    Failed(IF how = "stopped" THEN "stopped" ELSE "plain", how, "cleanup")

Here == disk[g.on]
OnDisk(directory) == disk' = [disk EXCEPT ![g.on] = directory]

\* An attempt of this step, the last one or one that was retried, may go on; the
\* model follows one attempt of a generation (the bound is the variable late).
\* Only the clean-up is scheduled in spite of a cancellation.
Scheduled == g.lost # "done" /\ (g.root # "done" \/ g.pc = "cleanup")

GoesOn(data) ==
    \/ UNCHANGED late
    \/ /\ Scheduled /\ late = NoAttempt
       /\ late' = [step |-> g.pc, on |-> g.on, data |-> data]

Elsewhere == UNCHANGED <<object, spoiled, losses, dirty>>
Locally   == UNCHANGED late /\ Elsewhere

(***************************************************************************)
(* The steps before the session and the session itself.                    *)
(***************************************************************************)

\* The document without AIPs is an error of the workflow, not of the activity.
GetDocument ==
    /\ g.pc = "document"
    /\ \E how \in {"ok", "error", "stopped"} :
          /\ Ends(how)
          /\ g' \in IF how = "ok" THEN {Goto("paths"), Failed("plain", how, "ended")}
                                  ELSE {Failed("plain", how, "ended")}
    /\ UNCHANGED disk /\ Locally

GetAIPPaths ==
    /\ g.pc = "paths"
    /\ \E how \in {"ok", "error", "stopped"} :
          /\ Ends(how)
          /\ g' = IF how = "ok" THEN Goto("session") ELSE Failed("plain", how, "ended")
    /\ UNCHANGED disk /\ Locally

\* CreateSession on any worker, where what an earlier session left behind may
\* still be, and attempts of it may still run; it fails for good when the workflow
\* is canceled.
CreateSession ==
    /\ g.pc = "session"
    /\ \/ /\ g.root # "done"
          /\ \E w \in Workers :
                /\ g' = [Goto("export") EXCEPT !.on = w, !.lost = "open",
                                               !.err = "none", !.cut = "no"]
                /\ \/ UNCHANGED <<disk, late>>
                   \/ /\ w \in dirty
                      /\ disk' = [disk EXCEPT ![w] = Empty]
                      /\ late' = IF late.on = w THEN Over ELSE late
       \/ /\ g' = Failed("plain", IF g.root = "open" THEN "error" ELSE "stopped", "ended")
          /\ UNCHANGED <<disk, late>>
    /\ Elsewhere

(***************************************************************************)
(* fetchValidMetadata and fetchMetadata.                                   *)
(***************************************************************************)
CreateExport ==
    /\ g.pc = "export"
    /\ \/ /\ Ends("ok")
          /\ \E export \in {e \in Export : e.valid} \cup {Invalid} :
                g' = [Goto("poll") EXCEPT !.export = export]
       \/ \E how \in {"error", "stopped"} : Ends(how) /\ g' = ExportFailed(how)
    /\ UNCHANGED disk /\ Locally

\* An export that failed or was canceled in ACTApro is an error like any other.
PollExport ==
    /\ g.pc = "poll"
    /\ \/ Ends("ok") /\ g' = Goto("download")
       \/ \E how \in {"error", "stopped"} : Ends(how) /\ g' = ExportFailed(how)
    /\ UNCHANGED disk /\ Locally

DownloadExport ==
    /\ g.pc = "download"
    /\ \/ /\ Ends("ok")
          /\ OnDisk([Here EXCEPT !.metadata = g.export])
          /\ g' = Goto("validate")
       \/ /\ \E how \in {"error", "stopped"} : Ends(how) /\ g' = ExportFailed(how)
          /\ UNCHANGED disk
    /\ GoesOn([NoArchive EXCEPT !.metadata = g.export])
    /\ Elsewhere

\* Faulty: the failures the validation reports are not looked at.
ValidateMetadataLax ==
    /\ g.pc = "validate"
    /\ \/ Ends("ok") /\ g' = Goto("mets")
       \/ \E how \in {"error", "stopped"} : Ends(how) /\ g' = ExportFailed(how)
    /\ UNCHANGED disk /\ Locally

ValidateMetadata ==
    /\ g.pc = "validate"
    /\ \/ /\ Ends("ok")
          /\ g' = IF Here.metadata.valid THEN Goto("mets") ELSE ExportFailed("ok")
       \/ \E how \in {"error", "stopped"} : Ends(how) /\ g' = ExportFailed(how)
    /\ UNCHANGED disk /\ Locally

\* Faulty: the attempt is not counted.
ExportDelayUncounted ==
    /\ g.pc = "delay"
    /\ \/ Runnable /\ g' = Goto("export")
       \/ Stoppable /\ g' = Failed("stopped", "stopped", "cleanup")
    /\ UNCHANGED disk /\ Locally

ExportDelay ==
    /\ g.pc = "delay"
    /\ \/ Runnable /\ g' = [Goto("export") EXCEPT !.tries = @ + 1]
       \/ Stoppable /\ g' = Failed("stopped", "stopped", "cleanup")
    /\ UNCHANGED disk /\ Locally

(***************************************************************************)
(* sessionHandler after the export.                                        *)
(***************************************************************************)

\* The errors of the METS downloads are joined into one new error, which tells
\* nothing of a canceled or failed session.
FetchMETS ==
    /\ g.pc = "mets"
    /\ \E how \in {"ok", "error", "stopped"} :
          /\ Ends(how)
          /\ g' = IF how = "ok" THEN Goto("parse") ELSE Failed("plain", how, "cleanup")
    /\ UNCHANGED disk /\ Locally

\* An export without content files is an error of the workflow; an unmatched
\* file or an export without header files is an error too.
ParseMetadata ==
    /\ g.pc = "parse"
    /\ \/ /\ Ends("ok")
          /\ g' = IF Here.metadata.files = {} THEN FileStepFailed("ok")
                  ELSE [Goto("prepare") EXCEPT !.todo = Here.metadata.files]
       \/ \E how \in {"error", "stopped"} : Ends(how) /\ g' = FileStepFailed(how)
    /\ UNCHANGED disk /\ Locally

\* The export is moved into the DIP's header.
InHeader(d) == [d EXCEPT !.dip.metadata = d.metadata, !.metadata = NoExport]

PrepareDIP ==
    /\ g.pc = "prepare"
    /\ \/ /\ Ends("ok") /\ Here.metadata # NoExport
          /\ OnDisk(InHeader(Here))
          /\ g' = Goto("content")
          /\ UNCHANGED late
       \/ /\ \E how \in {"error", "stopped"} : Ends(how) /\ g' = FileStepFailed(how)
          /\ GoesOn(NoArchive)
          /\ UNCHANGED disk
    /\ Elsewhere

\* Faulty: a file that cannot be downloaded is skipped.
FetchContentSkipping ==
    /\ g.pc = "content"
    /\ \E f \in g.todo :
          /\ g' = [Goto(IF g.todo = {f} THEN "zip" ELSE "content") EXCEPT !.todo = @ \ {f}]
          /\ \/ Ends("ok") /\ OnDisk([Here EXCEPT !.dip.content = @ \cup {f}])
             \/ Ends("error") /\ UNCHANGED disk
          /\ GoesOn([NoArchive EXCEPT !.content = {f}])
    /\ Elsewhere

FetchContent ==
    /\ g.pc = "content"
    /\ \E f \in g.todo :
          /\ \/ /\ Ends("ok")
                /\ OnDisk([Here EXCEPT !.dip.content = @ \cup {f}])
                /\ g' = [Goto(IF g.todo = {f} THEN "zip" ELSE "content")
                           EXCEPT !.todo = @ \ {f}]
             \/ /\ \E how \in {"error", "stopped"} : Ends(how) /\ g' = FileStepFailed(how)
                /\ UNCHANGED disk
          /\ GoesOn([NoArchive EXCEPT !.content = {f}])
    /\ Elsewhere

\* The ZIP is written next to the DIP, under the name of an earlier session's,
\* which a late upload may be reading.
WriteZip ==
    /\ Ends("ok") /\ Here.dip # NoArchive
    /\ OnDisk([Here EXCEPT !.zip = Here.dip])
    /\ \/ UNCHANGED <<late, spoiled>>
       \/ /\ late.step = "upload" /\ late.on = g.on
          /\ late' = [late EXCEPT !.data = Broken]
          /\ spoiled' = TRUE

ZipFailed ==
    /\ \E how \in {"error", "stopped"} : Ends(how) /\ g' = FileStepFailed(how)
    /\ GoesOn(NoArchive)
    /\ UNCHANGED <<disk, spoiled>>

\* Faulty: the key is not known before the upload.
ArchiveZipNoKey ==
    /\ g.pc = "zip"
    /\ \/ WriteZip /\ g' = Goto("upload")
       \/ ZipFailed
    /\ UNCHANGED <<object, losses, dirty>>

\* The object key is set between the ZIP and its upload.
ArchiveZip ==
    /\ g.pc = "zip"
    /\ \/ WriteZip /\ g' = [Goto("upload") EXCEPT !.key = TRUE]
       \/ ZipFailed
    /\ UNCHANGED <<object, losses, dirty>>

\* An upload that is reported failed may have stored the object, and so may an
\* attempt of it later on.
BucketUpload ==
    /\ g.pc = "upload"
    /\ \E how \in {"ok", "error", "stopped"} :
          /\ Ends(how)
          /\ \/ Runnable /\ Here.zip # NoArchive /\ object' = Here.zip
             \/ how # "ok" /\ UNCHANGED object
          /\ g' = IF how = "ok" THEN Goto("cleanup") ELSE FileStepFailed(how)
    /\ IF Here.zip = NoArchive THEN UNCHANGED late ELSE GoesOn(Here.zip)
    /\ UNCHANGED <<disk, spoiled, losses, dirty>>

(***************************************************************************)
(* The end of a session.                                                   *)
(***************************************************************************)

\* The session loop with the error the handler returned: only a stopped session
\* of a workflow that is not canceled is repeated.
AfterSession ==
    IF g.err = "stopped" /\ g.root = "open" THEN [g EXCEPT !.pc = "retry"]
    ELSE [g EXCEPT !.pc = "ended", !.root = Passed(@)]

\* Faulty: the clean-up uses the canceled context.
CleanupConnected ==
    /\ g.pc = "cleanup"
    /\ \/ /\ g.lost # "done" /\ g.root # "done"
          /\ OnDisk(Empty)
          /\ dirty' = dirty \ {g.on}
          /\ UNCHANGED late
       \/ /\ g.lost # "open"
          /\ dirty' = dirty \cup {g.on}
          /\ GoesOn(NoArchive)
          /\ UNCHANGED disk
       \/ /\ g.root = "done"
          /\ UNCHANGED <<disk, late, dirty>>
    /\ g' = AfterSession
    /\ UNCHANGED <<object, spoiled, losses>>

\* The deferred removal of the working directory, once, in a context that a
\* cancellation of the workflow does not reach; its error is only logged.
Cleanup ==
    /\ g.pc = "cleanup"
    /\ \/ /\ g.lost # "done"
          /\ OnDisk(Empty)
          /\ dirty' = dirty \ {g.on}
          /\ UNCHANGED late
       \/ /\ dirty' = dirty \cup {g.on}
          /\ GoesOn(NoArchive)
          /\ UNCHANGED disk
    /\ g' = AfterSession
    /\ UNCHANGED <<object, spoiled, losses>>

\* The pause before the next session; it also follows the last one.
RetrySession ==
    /\ g.pc = "retry"
    /\ g' = IF g.attempt < MaxSessions
            THEN [Goto("session") EXCEPT !.attempt = @ + 1]
            ELSE Goto("ended")
    /\ UNCHANGED disk /\ Locally

(***************************************************************************)
(* The environment.                                                        *)
(***************************************************************************)

\* The session's worker is lost; what it was doing may go on.
LoseWorker ==
    /\ losses < MaxLosses /\ losses' = losses + 1
    /\ g.pc \in ExportStep \cup FileStep \cup {"delay", "mets", "cleanup"}
    /\ g.lost = "open"
    /\ g' = [g EXCEPT !.lost = "closing"]
    /\ dirty' = dirty \cup {g.on}
    /\ UNCHANGED <<disk, object, late, spoiled>>

\* What a late attempt makes of directory d: a part of its work or all of it.  A
\* download writes to the file it has open, also where this was moved to.
Written(d, export) ==
    IF d.metadata = NoExport /\ d.dip.metadata # NoExport
    THEN [d EXCEPT !.dip.metadata = export] ELSE [d EXCEPT !.metadata = export]

Leaves(d) ==
    CASE late.step = "download" ->
           {Written(d, export) : export \in {late.data.metadata, Invalid}}
      [] late.step = "prepare" -> IF d.metadata = NoExport THEN {} ELSE {InHeader(d)}
      [] late.step = "content" -> {[d EXCEPT !.dip.content = @ \cup late.data.content],
                                   [d EXCEPT !.dip.content = @ \ late.data.content]}
      [] late.step = "zip" -> {[d EXCEPT !.zip = zip] : zip \in {d.dip, Broken}}
      [] late.step = "cleanup" ->
           {Empty, [d EXCEPT !.metadata = NoExport], [d EXCEPT !.dip.metadata = NoExport],
            [d EXCEPT !.zip = NoArchive]}
             \cup {[d EXCEPT !.dip.content = @ \ {f}] : f \in Files}
      [] OTHER -> {}

\* This change of the session's directory undoes what the session has made of it
\* and still needs.
Undoes(d) ==
    CASE g.pc \in {"mets", "parse", "prepare"} -> d.metadata # Here.metadata
      [] g.pc \in {"content", "zip"} ->
           \/ d.dip.metadata # Here.dip.metadata
           \/ ~(Here.dip.content \ g.todo \subseteq d.dip.content)
      [] g.pc = "upload" -> d.zip # Here.zip
      [] OTHER -> FALSE

\* A late attempt writes to its directory, whatever session uses this by now; of
\* what it leaves there one after the other, the model takes the last.
LateWrite ==
    /\ late.on # NoWorker
    /\ \E d \in Leaves(disk[late.on]) :
          /\ disk' = [disk EXCEPT ![late.on] = d]
          /\ spoiled' = (spoiled \/ (late.on = g.on /\ Undoes(d)))
    /\ late' = Over
    /\ dirty' = dirty \cup {late.on}
    /\ UNCHANGED <<g, object, losses>>

LateUpload ==
    /\ late.step = "upload"
    /\ object' = late.data
    /\ late' = Over
    /\ UNCHANGED <<g, disk, spoiled, losses, dirty>>

Cancel ==
    /\ g.pc # "ended" /\ g.root = "open"
    /\ g' = [g EXCEPT !.root = "closing"]
    /\ UNCHANGED disk /\ Locally

Ended == g.pc = "ended" /\ UNCHANGED vars

WorkflowStep ==
    \/ GetDocument \/ GetAIPPaths \/ CreateSession
    \/ CreateExport \/ PollExport \/ DownloadExport \/ ValidateMetadata \/ ExportDelay
    \/ FetchMETS \/ ParseMetadata \/ PrepareDIP \/ FetchContent \/ ArchiveZip
    \/ BucketUpload \/ Cleanup \/ RetrySession

Next == WorkflowStep \/ LoseWorker \/ LateWrite \/ LateUpload \/ Cancel \/ Ended

(***************************************************************************)
(* Properties.                                                             *)
(***************************************************************************)

\* The three outcomes DipService assumes of a generation: an archive that is in
\* the bucket or may still get there has its key tracked, whatever sessions were
\* lost after the upload began, and a successful generation has its archive.
OutcomeIsKnown ==
    /\ object # NoArchive \/ late.step = "upload" => g.key
    /\ g.pc = "ended" /\ g.err = "none" => g.key /\ object # NoArchive

\* An archive carries a metadata export that passed the validation and every
\* content file this export lists, although sessions with other exports were
\* begun, lost and continued on the same disk, with their files left behind and
\* their attempts still writing.  The exception is what the code has no defence
\* against: a late attempt undoes what the session in its directory has made or
\* validated and still needs, or uploads a ZIP that this session rewrites.
ArchiveHoldsItsMetadata ==
    object # NoArchive /\ ~spoiled =>
        object.metadata.valid /\ object.metadata.files \subseteq object.content

\* Local files are removed whatever ends the session; they stay behind only on a
\* worker that was lost, whose removal failed or where a late attempt wrote.
FilesAreRemoved ==
    g.pc \in {"retry", "ended"} =>
        \A w \in Workers : disk[w] # Empty => w \in dirty

\* The loss of a worker fails the generation only after the last session, as long
\* as the workflow is not canceled and the METS downloads were not hit.
LossIsRetriedElsewhere ==
    g.pc = "ended" /\ g.err # "none" /\ g.cut = "elsewhere" /\ g.root = "open"
        => g.attempt = MaxSessions

\* A generation returns, however often exports fail, workers are lost or the
\* workflow is canceled.
GenerationReturns == <>(g.pc = "ended")

Spec     == Init /\ [][Next]_vars
FairSpec == Spec /\ WF_vars(WorkflowStep)
==============================================================================
