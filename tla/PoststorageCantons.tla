-------------------------- MODULE PoststorageCantons --------------------------
(***************************************************************************)
(* The post-storage workflow for cantons without APIS                      *)
(* (internal/workflows/poststorage_cantons.go): in a session on one worker *)
(* it downloads the METS file of an AIP and the metadata file named there, *)
(* combines the two, and uploads the ZIP of the directory.  As in          *)
(* CreateDipSession an activity with all its retries is one step that is   *)
(* "ok", an "error", or "stopped" with the workflow or the worker.         *)
(***************************************************************************)
EXTENDS MetsFile, FiniteSets

CONSTANTS AIPs,        \* METS files of AIPs
          Workers,     \* session workers, each with a local disk
          NoWorker,
          MaxSessions  \* maxAttempts of the session loop

\* The files a fileSec lists.
FileIds == UNION {DOMAIN mets.groups : mets \in AIPs}

ASSUME CantonsAssumption == /\ NoWorker \notin Workers
                            /\ {NoFile, "none", "part", "METS"} \cap FileIds = {}
                            /\ MaxSessions \in Nat \ {0}
ASSUME AIPsAssumption == \A mets \in AIPs : Document(mets)

VARIABLES aip,      \* the METS file in the storage service
          g,        \* the workflow: its step, its locals and its contexts
          disk,     \* search-md_<AIP> on each worker, and the ZIP next to it
          bucket,   \* the bundle under the name of the ZIP
          late,     \* downloads that lost workers have not given up
          upload,   \* an upload that a lost worker may still complete
          left,     \* workers whose files a lost or canceled session could not remove
          disturbed \* a late download wrote beside a running session

vars == <<aip, g, disk, bucket, late, upload, left, disturbed>>

\* A file is missing, incomplete, or what it should be; the combined file is
\* known by the metadata file it begins with.
Content   == {"none", "part", "METS"} \cup FileIds
Directory == [mets: Content, metadata: Content, ais: Content]
Bare      == [mets |-> "none", metadata |-> "none", ais |-> "none"]
Broken    == [mets |-> "part", metadata |-> "part", ais |-> "part"]
Disk      == [dir: Directory, zip: Directory]
Empty     == [dir |-> Bare, zip |-> Bare]

InSession == {"mets", "parse", "metadata", "combine", "zip", "upload", "cleanup"}
PC        == {"path", "session", "retry", "ended"} \cup InSession
Context   == {"open", "closing", "done"}

\* err: what the handler returns; an error that joins others is "stopped" if one
\* of them is.  by: whether the failed step was.  zipped: the ZIP is to be removed.
Workflow == [pc: PC, err: {"none", "plain", "stopped"}, by: {"ok", "error", "stopped"},
             returned: {"", "result", "nothing", "error"}, attempt: 1..MaxSessions,
             zipped: BOOLEAN, on: Workers \cup {NoWorker},
             root: Context, lost: Context]

TypeOK ==
    /\ aip \in AIPs
    /\ g \in Workflow
    /\ disk \in [Workers -> Disk]
    /\ bucket \in Directory /\ upload \in Directory
    /\ late \in [Workers -> {"", "mets", "metadata"}]
    /\ left \subseteq Workers
    /\ disturbed \in BOOLEAN

Init ==
    /\ aip \in AIPs
    /\ g = [pc |-> "path", err |-> "none", by |-> "ok", returned |-> "", attempt |-> 1,
            zipped |-> FALSE, on |-> NoWorker,
            root |-> "open", lost |-> "open"]
    /\ disk = [w \in Workers |-> Empty]
    /\ bucket = Bare /\ upload = Bare
    /\ late = [w \in Workers |-> ""]
    /\ left = {} /\ disturbed = FALSE

(***************************************************************************)
(* How a step ends.                                                        *)
(***************************************************************************)
Runnable  == g.root # "done" /\ g.lost # "done"
Stoppable == g.root # "open" \/ g.lost # "open"
Ends(how) == IF how = "stopped" THEN Stoppable ELSE Runnable
Passed(context) == IF context = "open" THEN "open" ELSE "done"
Goto(pc) == [g EXCEPT !.pc = pc, !.root = Passed(@), !.lost = Passed(@)]

Returns(result, how) == [Goto("ended") EXCEPT !.returned = result, !.by = how]
Fails(how) == [Goto("cleanup") EXCEPT !.err = IF how = "stopped" THEN "stopped" ELSE "plain",
                                      !.by = how]

Here         == disk[g.on].dir
Dir(content) == disk' = [disk EXCEPT ![g.on].dir = content]
Elsewhere    == UNCHANGED <<aip, late, upload, disturbed>>
Locally      == Elsewhere /\ UNCHANGED <<bucket, left>>

\* A step that fails and may have begun to write.
FailsWith(contents) ==
    \E how \in {"error", "stopped"} :
        /\ Ends(how)
        /\ \E c \in IF Runnable THEN contents ELSE {Here} : Dir(c)
        /\ g' = Fails(how)

(***************************************************************************)
(* Execute: the path, the session loop.                                    *)
(***************************************************************************)
GetAIPPath ==
    /\ g.pc = "path"
    /\ \E how \in {"ok", "error", "stopped"} :
          /\ Ends(how)
          /\ g' = IF how = "ok" THEN Goto("session") ELSE Returns("error", how)
    /\ UNCHANGED disk /\ Locally

\* On any worker, with what an earlier session left there.
CreateSession ==
    /\ g.pc = "session"
    /\ \/ /\ g.root # "done"
          /\ \E w \in Workers :
                g' = [Goto("mets") EXCEPT !.on = w, !.lost = "open", !.err = "none",
                                          !.by = "ok", !.zipped = FALSE]
       \/ g' = Returns("error", IF g.root = "open" THEN "error" ELSE "stopped")
    /\ UNCHANGED disk /\ Locally

(***************************************************************************)
(* SessionHandler.                                                         *)
(***************************************************************************)
FetchMETS ==
    /\ g.pc = "mets"
    /\ \/ Ends("ok") /\ Dir([Here EXCEPT !.mets = "METS"]) /\ g' = Goto("parse")
       \/ FailsWith({Here} \cup {[Here EXCEPT !.mets = c] : c \in {"part", "METS"}})
    /\ Locally

\* The updated metadata file is preferred; without any the handler gives up.
Choice == [mets \in AIPs |-> LET found == Parse(mets)
                             IN IF found.updated # NoFile THEN found.updated ELSE found.old]
Chosen == Choice[aip]

ParseMETS ==
    /\ g.pc = "parse"
    /\ \/ /\ Ends("ok") /\ Here.mets = "METS"
          /\ g' = IF Chosen = NoFile THEN Fails("ok") ELSE Goto("metadata")
          /\ UNCHANGED disk
       \/ FailsWith({Here})
    /\ Locally

FetchMetadata ==
    /\ g.pc = "metadata"
    /\ \/ Ends("ok") /\ Dir([Here EXCEPT !.metadata = Chosen]) /\ g' = Goto("combine")
       \/ FailsWith({Here} \cup {[Here EXCEPT !.metadata = c] : c \in {"part", Chosen}})
    /\ Locally

Combined(d) == IF d.mets = "METS" /\ d.metadata \in FileIds THEN d.metadata ELSE "part"

\* The file is created anew, written and then the two it was made of are removed;
\* it fails without them, or without the accession number in the metadata.
CombineMD ==
    /\ g.pc = "combine"
    /\ \/ /\ Ends("ok") /\ Here.metadata # "none" /\ Here.mets # "none"
          /\ Dir([Bare EXCEPT !.ais = Combined(Here)])
          /\ g' = Goto("zip")
       \/ FailsWith({Here} \cup
                    IF Here.metadata = "none" \/ Here.mets = "none" THEN {}
                    ELSE {[Here EXCEPT !.ais = "part"]} \cup
                         {[mets |-> m, metadata |-> d, ais |-> Combined(Here)]
                            : m \in {"none", Here.mets}, d \in {"none", Here.metadata}})
    /\ Locally

Zip(content) == disk' = [disk EXCEPT ![g.on].zip = content]

\* The path of the ZIP is known only from the result.
ArchiveZip ==
    /\ g.pc = "zip"
    /\ \/ Ends("ok") /\ Zip(Here) /\ g' = [Goto("upload") EXCEPT !.zipped = TRUE] /\ UNCHANGED left
       \/ \E how \in {"error", "stopped"} :
             /\ Ends(how)
             /\ \E c \in {disk[g.on].zip} \cup IF Runnable THEN {Broken, Here} ELSE {} : Zip(c)
             /\ g' = Fails(how)
             /\ left' = left \cup {g.on}
    /\ Elsewhere /\ UNCHANGED bucket

\* An upload that is reported failed may have stored the bundle.
BucketUpload ==
    /\ g.pc = "upload"
    /\ \E how \in {"ok", "error", "stopped"} :
          /\ Ends(how)
          /\ bucket' \in IF how = "ok" THEN {disk[g.on].zip}
                         ELSE {bucket} \cup IF Runnable THEN {disk[g.on].zip} ELSE {}
          /\ g' = IF how = "ok" THEN Goto("cleanup") ELSE Fails(how)
    /\ UNCHANGED <<disk, left>> /\ Elsewhere

\* The session loop with the error of the handler: a stopped session is repeated
\* unless the workflow is canceled, which then returns neither result nor error.
AfterSession(err, how) ==
    CASE err = "stopped" /\ g.root = "open" -> [g EXCEPT !.pc = "retry", !.err = err, !.by = how]
      [] err = "stopped" /\ g.root # "open" -> [Returns("nothing", how) EXCEPT !.err = err]
      [] err = "plain" -> [Returns("error", how) EXCEPT !.err = err]
      [] err = "none"  -> Returns("result", how)

\* Faulty: the error of a removal counts only if there is no other.
JoinedFirst(err, how) ==
    IF err # "none" THEN err ELSE IF how = "stopped" THEN "stopped" ELSE "plain"

\* errors.Join
Joined(err, how) == IF how = "stopped" \/ err = "stopped" THEN "stopped" ELSE "plain"

\* Faulty: the path of the ZIP is not added to those that are removed.
RemovedDir == [dir |-> Bare, zip |-> disk[g.on].zip]

Removed == [dir |-> Bare, zip |-> IF g.zipped THEN Bare ELSE disk[g.on].zip]

\* The deferred removal, once, in the context of the session; its error joins
\* that of the handler.
Cleanup ==
    /\ g.pc = "cleanup"
    /\ \/ /\ Ends("ok")
          /\ disk' = [disk EXCEPT ![g.on] = Removed]
          /\ g' = AfterSession(g.err, g.by)
          /\ left' = IF g.zipped THEN left \ {g.on} ELSE left
       \/ \E how \in {"error", "stopped"} :
             /\ Ends(how)
             /\ disk' \in {disk} \cup IF Runnable THEN {[disk EXCEPT ![g.on].dir = Bare]} ELSE {}
             /\ g' = AfterSession(Joined(g.err, how), IF g.by = "stopped" THEN g.by ELSE how)
             /\ left' = left \cup {g.on}
    /\ Elsewhere /\ UNCHANGED bucket

\* Faulty: the attempt is not counted.
RetryUncounted ==
    /\ g.pc = "retry"
    /\ g' = IF g.attempt < MaxSessions THEN Goto("session") ELSE Returns("error", g.by)
    /\ UNCHANGED disk /\ Locally

\* The pause before the next session; it also follows the last one.
RetrySession ==
    /\ g.pc = "retry"
    /\ g' = IF g.attempt < MaxSessions THEN [Goto("session") EXCEPT !.attempt = @ + 1]
            ELSE Returns("error", g.by)
    /\ UNCHANGED disk /\ Locally

(***************************************************************************)
(* The environment.                                                        *)
(***************************************************************************)

\* The session's worker is lost to Temporal; its download or upload may go on.
LoseWorker ==
    /\ g.pc \in InSession /\ g.lost = "open"
    /\ g' = [g EXCEPT !.lost = "closing"]
    /\ late' \in IF g.pc \in {"mets", "metadata"} THEN {late, [late EXCEPT ![g.on] = g.pc]}
                 ELSE {late}
    /\ upload' \in IF g.pc = "upload" THEN {upload, disk[g.on].zip} ELSE {upload}
    /\ UNCHANGED <<aip, disk, bucket, left, disturbed>>

\* The answer of the storage service arrives after all: the file is truncated and
\* written, perhaps in the directory a later session on that worker uses.
LateDownload(w) ==
    /\ late[w] # ""
    /\ LET file == IF late[w] = "mets" THEN "METS" ELSE Chosen IN
       \E c \in {"part", file} :
          /\ disk' = [disk EXCEPT ![w].dir = IF late[w] = "mets" THEN [@ EXCEPT !.mets = c]
                                             ELSE [@ EXCEPT !.metadata = c]]
          /\ late' = IF c = "part" THEN late ELSE [late EXCEPT ![w] = ""]
    /\ left' = left \cup {w}
    /\ disturbed' = (disturbed \/ (g.on = w /\ g.pc \in InSession /\ g.lost = "open"))
    /\ UNCHANGED <<aip, g, bucket, upload>>

LateUpload ==
    /\ upload # Bare
    /\ bucket' = upload
    /\ upload' = Bare
    /\ UNCHANGED <<aip, g, disk, late, left, disturbed>>

Cancel ==
    /\ g.pc # "ended" /\ g.root = "open"
    /\ g' = [g EXCEPT !.root = "closing"]
    /\ UNCHANGED disk /\ Locally

Ended == g.pc = "ended" /\ UNCHANGED vars

WorkflowStep ==
    \/ GetAIPPath \/ CreateSession \/ FetchMETS \/ ParseMETS \/ FetchMetadata
    \/ CombineMD \/ ArchiveZip \/ BucketUpload \/ Cleanup \/ RetrySession

Next ==
    \/ WorkflowStep \/ LoseWorker \/ LateUpload \/ Cancel \/ Ended
    \/ \E w \in Workers : LateDownload(w)

(***************************************************************************)
(* Properties.                                                             *)
(***************************************************************************)

Named == [mets \in AIPs |-> Wanted(mets)]

\* A bundle is the METS file and the metadata the AIP's own METS names, whole and
\* nothing else, whatever lost sessions left on the worker's disk or uploaded
\* late; only a download of a lost session that is still writing on the same
\* worker can spoil it.  A result is returned only with a bundle.
BundleIsComplete ==
    /\ bucket # Bare /\ ~disturbed =>
          \E file \in Named[aip] : bucket = [Bare EXCEPT !.ais = file]
    /\ g.returned = "result" => bucket # Bare

\* Local files are removed whatever a session ends with, unless its removal was
\* stopped with it or failed, or the ZIP failed, whose path is known too late.
FilesAreRemoved ==
    g.pc \in {"retry", "ended"} => \A w \in Workers : disk[w] # Empty => w \in left

\* "We want to retry the session if it has been canceled as a result of losing the
\* worker": also when only the removal noticed it, after another error or none.
LossIsRetried ==
    g.returned = "error" /\ g.by = "stopped" /\ g.root = "open" => g.attempt = MaxSessions

\* The workflow returns however often workers are lost, or when it is canceled.
WorkflowReturns == <>(g.pc = "ended")

Spec     == Init /\ [][Next]_vars
FairSpec == Spec /\ WF_vars(WorkflowStep)
==============================================================================
