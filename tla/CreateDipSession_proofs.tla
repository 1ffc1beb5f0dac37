------------------------ MODULE CreateDipSession_proofs ------------------------
(***************************************************************************)
(* Proofs about CreateDipSession, for every document, every set of workers *)
(* and every number of sessions, exports and worker losses.                *)
(***************************************************************************)
EXTENDS CreateDipSession, TLAPS

InSession == ExportStep \cup FileStep \cup {"delay", "mets", "cleanup"}

(***************************************************************************)
(* How the steps leave the workflow.                                       *)
(***************************************************************************)

\* What no step but CreateSession, ArchiveZip and RetrySession changes.
Keeps(r) == /\ r.attempt = g.attempt /\ r.key = g.key /\ r.on = g.on
            /\ r.root = Passed(g.root) /\ r.lost = Passed(g.lost)

\* A step ahead.
LEMMA GotoAfter ==
    ASSUME TypeOK, NEW pc \in PC
    PROVE  /\ Goto(pc) \in Generation /\ Keeps(Goto(pc))
           /\ Goto(pc).pc = pc /\ Goto(pc).err = g.err /\ Goto(pc).cut = g.cut
           /\ pc \in FileStep => Goto(pc).todo = g.todo
           /\ pc \in ExportStep \cup {"delay"} => Goto(pc).tries = g.tries
<1> DEFINE export == IF pc = "download" THEN g.export ELSE NoExport
           tries  == IF pc \in ExportStep \cup {"delay"} THEN g.tries ELSE 1
           todo   == IF pc \in FileStep THEN g.todo ELSE {}
           s == [g EXCEPT !.pc = pc, !.root = Passed(g.root), !.lost = Passed(g.lost)]
<1>1. g \in Generation /\ Passed(g.root) \in Context /\ Passed(g.lost) \in Context
  BY DEF TypeOK, Passed, Context
<1>2. export \in Export /\ tries \in 1..MaxExports /\ todo \in SUBSET Files
  BY <1>1, SessionAssumption DEF NoExport, Export, Generation
<1>3. /\ s \in Generation /\ s.pc = pc /\ s.err = g.err /\ s.cut = g.cut
      /\ s.attempt = g.attempt /\ s.key = g.key /\ s.on = g.on
      /\ s.root = Passed(g.root) /\ s.lost = Passed(g.lost)
  BY <1>1 DEF Generation
<1>4. Goto(pc) = [s EXCEPT !.export = export, !.tries = tries, !.todo = todo]
  BY DEF Goto
<1> HIDE DEF s, export, tries, todo
<1>5. /\ Goto(pc) \in Generation /\ Keeps(Goto(pc)) /\ Goto(pc).pc = pc
      /\ Goto(pc).err = g.err /\ Goto(pc).cut = g.cut
      /\ Goto(pc).todo = todo /\ Goto(pc).tries = tries
  BY <1>2, <1>3, <1>4 DEF Keeps, Generation
<1> QED
  BY <1>5 DEF todo, tries

\* A failure.
LEMMA FailedAfter ==
    ASSUME TypeOK, NEW pc \in PC, NEW kind \in {"plain", "stopped"},
           NEW how \in {"ok", "error", "stopped"}
    PROVE  /\ Failed(kind, how, pc) \in Generation /\ Keeps(Failed(kind, how, pc))
           /\ Failed(kind, how, pc).pc = pc /\ Failed(kind, how, pc).err = kind
           /\ Failed(kind, how, pc).cut = "elsewhere" => how = "stopped" /\ g.pc # "mets"
<1> DEFINE r == Goto(pc)
           s == [r EXCEPT !.err = kind]
           cut == CASE how # "stopped" -> "no" [] g.pc = "mets" -> "mets"
                    [] OTHER -> "elsewhere"
<1>1. r \in Generation /\ Keeps(r) /\ r.pc = pc
  BY GotoAfter
<1>2. Failed(kind, how, pc) = [s EXCEPT !.cut = cut]
  BY DEF Failed
<1>3. /\ cut \in {"no", "mets", "elsewhere"}
      /\ cut = "elsewhere" => how = "stopped" /\ g.pc # "mets"
  OBVIOUS
<1> HIDE DEF r, cut
<1>4. s \in Generation /\ Keeps(s) /\ s.pc = pc /\ s.err = kind
  BY <1>1 DEF Generation, Keeps
<1> HIDE DEF s
<1> QED
  BY <1>2, <1>3, <1>4 DEF Keeps, Generation

\* A failed export is repeated, or ends the session with its kind of error.
LEMMA ExportFailedAfter ==
    ASSUME TypeOK, NEW how \in {"ok", "error", "stopped"}
    PROVE  \/ ExportFailed(how) = Goto("delay") /\ g.tries < MaxExports
           \/ ExportFailed(how) = Failed("stopped", "stopped", "cleanup")
           \/ how # "stopped" /\ ExportFailed(how) = Failed("plain", how, "cleanup")
BY DEF ExportFailed

\* A failed file step ends the session with its kind of error.
LEMMA FileStepFailedAfter ==
    ASSUME NEW how \in {"ok", "error", "stopped"}
    PROVE  \/ FileStepFailed(how) = Failed("stopped", "stopped", "cleanup")
           \/ how # "stopped" /\ FileStepFailed(how) = Failed("plain", how, "cleanup")
BY DEF FileStepFailed

\* Where the session loop goes: on to the next session with a stopped one only.
LEMMA AfterSessionAfter ==
    ASSUME TypeOK
    PROVE  /\ AfterSession \in Generation
           /\ AfterSession.err = g.err /\ AfterSession.cut = g.cut
           /\ AfterSession.key = g.key /\ AfterSession.attempt = g.attempt
           /\ AfterSession.on = g.on
           /\ AfterSession.root = "open" => g.root = "open"
           /\ \/ AfterSession.pc = "retry" /\ g.err = "stopped"
              \/ AfterSession.pc = "ended" /\ (g.err = "stopped" => AfterSession.root # "open")
<1>1. g \in Generation /\ Passed(g.root) \in Context
  BY DEF TypeOK, Passed, Context
<1>2. CASE g.err = "stopped" /\ g.root = "open"
  <2>1. AfterSession = [g EXCEPT !.pc = "retry"]
    BY <1>2 DEF AfterSession
  <2> QED
    BY <1>1, <1>2, <2>1 DEF Generation, PC
<1>3. CASE ~(g.err = "stopped" /\ g.root = "open")
  <2>1. AfterSession = [g EXCEPT !.pc = "ended", !.root = Passed(g.root)]
    BY <1>3 DEF AfterSession, Passed
  <2>2. Passed(g.root) = "open" => g.root = "open"
    BY DEF Passed
  <2> QED
    BY <1>1, <1>3, <2>1, <2>2 DEF Generation, PC
<1> QED
  BY <1>2, <1>3

(***************************************************************************)
(* The inductive invariant.                                                *)
(***************************************************************************)

\* An archive with an accepted export and every file it lists.
Whole(a) == a.metadata.valid /\ a.metadata.files \subseteq a.content

OnWorker == g.pc \in InSession => g.on \in Workers

\* A delay is followed by another export.
ExportsLeft == g.pc = "delay" => g.tries < MaxExports

\* What the directory of the session is good for at each step, as long as no late
\* attempt has undone anything of it.
Building ==
    /\ g.pc = "upload" => g.key
    /\ g.pc = "zip" => g.todo = {}
    /\ ~spoiled =>
          /\ g.pc \in {"mets", "parse", "prepare"} => Here.metadata.valid
          /\ g.pc = "prepare" => g.todo = Here.metadata.files
          /\ g.pc \in {"content", "zip"} =>
                /\ Here.dip.metadata.valid
                /\ Here.dip.metadata.files \subseteq Here.dip.content \cup g.todo
          /\ g.pc = "upload" => Whole(Here.zip)

\* What is, or may get, into the bucket.
Uploaded ==
    /\ object # NoArchive => g.key /\ (~spoiled => Whole(object))
    /\ late.step = "upload" =>
          /\ g.key /\ late.data # NoArchive
          /\ ~spoiled => Whole(late.data)
    /\ g.pc \in {"cleanup", "ended"} /\ g.err = "none" => g.key /\ object # NoArchive
    /\ g.pc = "retry" => g.err = "stopped"

AtWork     == OnWorker /\ ExportsLeft /\ Building /\ Uploaded
SessionInv == TypeOK /\ AtWork

(***************************************************************************)
(* Type correctness.                                                       *)
(***************************************************************************)
LEMMA FailuresAreTyped ==
    ASSUME TypeOK, NEW how \in {"ok", "error", "stopped"}
    PROVE  ExportFailed(how) \in Generation /\ FileStepFailed(how) \in Generation
<1>1. "cleanup" \in PC /\ "delay" \in PC
  BY DEF PC
<1> QED
  BY <1>1, GotoAfter, FailedAfter, ExportFailedAfter, FileStepFailedAfter

\* What steps and late attempts make of a directory is a directory.
LEMMA DirectoryAfter ==
    ASSUME NEW d \in Directory
    PROVE  /\ \A export \in Export : /\ [d EXCEPT !.metadata = export] \in Directory
                                    /\ [d EXCEPT !.dip.metadata = export] \in Directory
           /\ InHeader(d) \in Directory
           /\ \A c \in SUBSET Files :
                 /\ [d EXCEPT !.dip.content = @ \cup c] \in Directory
                 /\ [d EXCEPT !.dip.content = @ \ c] \in Directory
           /\ \A zip \in Archive : [d EXCEPT !.zip = zip] \in Directory
           /\ d.metadata \in Export /\ d.dip \in Archive /\ d.zip \in Archive
           /\ Empty \in Directory /\ NoExport \in Export /\ Invalid \in Export
           /\ NoArchive \in Archive /\ Broken \in Archive
<1>1. NoExport \in Export /\ Invalid \in Export
  BY DEF NoExport, Invalid, Export
<1>2. /\ d.metadata \in Export /\ d.dip \in Archive /\ d.zip \in Archive
      /\ NoArchive \in Archive /\ Broken \in Archive
  BY <1>1 DEF Directory, NoArchive, Broken, Archive
<1>3. /\ \A export \in Export : [d.dip EXCEPT !.metadata = export] \in Archive
      /\ \A c \in SUBSET Files : /\ [d.dip EXCEPT !.content = @ \cup c] \in Archive
                               /\ [d.dip EXCEPT !.content = @ \ c] \in Archive
  BY <1>2 DEF Archive
<1>4. \A export \in Export :
         /\ [d EXCEPT !.metadata = export] \in Directory
         /\ [d EXCEPT !.dip = [d.dip EXCEPT !.metadata = export]] \in Directory
  BY <1>3 DEF Directory
<1>5. [d EXCEPT !.dip = [d.dip EXCEPT !.metadata = d.metadata], !.metadata = NoExport]
        \in Directory
  BY <1>1, <1>2, <1>3 DEF Directory
<1>6. \A c \in SUBSET Files :
         /\ [d EXCEPT !.dip = [d.dip EXCEPT !.content = @ \cup c]] \in Directory
         /\ [d EXCEPT !.dip = [d.dip EXCEPT !.content = @ \ c]] \in Directory
  BY <1>3 DEF Directory
<1>7. \A zip \in Archive : [d EXCEPT !.zip = zip] \in Directory
  BY DEF Directory
<1>8. Empty \in Directory
  BY <1>1, <1>2 DEF Empty, Directory
<1> QED
  BY <1>1, <1>2, <1>4, <1>5, <1>6, <1>7, <1>8 DEF InHeader

\* What a late attempt writes leaves a directory.
LEMMA LeavesAreDirectories ==
    ASSUME TypeOK, NEW d \in Directory
    PROVE  Leaves(d) \subseteq Directory
<1>1. late.data.metadata \in Export /\ late.data.content \in SUBSET Files
  BY DEF TypeOK, Attempt, Archive
<1>2. \A export \in Export : Written(d, export) \in Directory
  BY DirectoryAfter DEF Written
<1>3. \A f \in Files : [d EXCEPT !.dip.content = @ \ {f}] \in Directory
  BY DirectoryAfter
<1>4. CASE late.step = "download"
  <2>1. Leaves(d) = {Written(d, export) : export \in {late.data.metadata, Invalid}}
    BY <1>4 DEF Leaves
  <2>2. Invalid \in Export
    BY DirectoryAfter
  <2> QED
    BY <1>1, <1>2, <2>1, <2>2
<1>5. CASE late.step = "prepare"
  BY <1>5, DirectoryAfter DEF Leaves
<1>6. CASE late.step = "content"
  <2>1. Leaves(d) = {[d EXCEPT !.dip.content = @ \cup late.data.content],
                     [d EXCEPT !.dip.content = @ \ late.data.content]}
    BY <1>6 DEF Leaves
  <2>2. /\ [d EXCEPT !.dip.content = @ \cup late.data.content] \in Directory
        /\ [d EXCEPT !.dip.content = @ \ late.data.content] \in Directory
    BY <1>1, DirectoryAfter
  <2> QED
    BY <2>1, <2>2
<1>7. CASE late.step = "zip"
  <2>1. Leaves(d) = {[d EXCEPT !.zip = zip] : zip \in {d.dip, Broken}}
    BY <1>7 DEF Leaves
  <2> QED
    BY <2>1, DirectoryAfter
<1>8. CASE late.step = "cleanup"
  <2>1. Leaves(d) =
          {Empty, [d EXCEPT !.metadata = NoExport], [d EXCEPT !.dip.metadata = NoExport],
           [d EXCEPT !.zip = NoArchive]}
            \cup {[d EXCEPT !.dip.content = @ \ {f}] : f \in Files}
    BY <1>8 DEF Leaves
  <2>2. /\ Empty \in Directory /\ [d EXCEPT !.metadata = NoExport] \in Directory
        /\ [d EXCEPT !.dip.metadata = NoExport] \in Directory
        /\ [d EXCEPT !.zip = NoArchive] \in Directory
    BY DirectoryAfter
  <2> QED
    BY <1>3, <2>1, <2>2
<1>9. CASE late.step \notin {"download", "prepare", "content", "zip", "cleanup"}
  BY <1>9 DEF Leaves
<1> QED
  BY <1>4, <1>5, <1>6, <1>7, <1>8, <1>9

\* An attempt that goes on is an attempt of this step on the session's worker.
LEMMA GoesOnAfter ==
    ASSUME TypeOK, g.on \in Workers, NEW data \in Archive, GoesOn(data),
           g.pc \in {"download", "prepare", "content", "zip", "upload", "cleanup"}
    PROVE  late' \in Attempt /\ (late' = late \/ (late'.step = g.pc /\ late'.data = data))
BY DEF TypeOK, GoesOn, Attempt

\* Every step keeps the types.
LEMMA TypeStep ==
    ASSUME SessionInv, [Next]_vars
    PROVE  TypeOK'
<1>1. /\ TypeOK /\ g \in Generation /\ disk \in [Workers -> Directory]
      /\ object \in Archive /\ late \in Attempt /\ spoiled \in BOOLEAN
      /\ losses \in 0..MaxLosses /\ dirty \subseteq Workers
  BY DEF SessionInv, TypeOK
<1>2. ASSUME g' \in Generation, disk' \in [Workers -> Directory], object' \in Archive,
             late' \in Attempt, spoiled' \in BOOLEAN, losses' \in 0..MaxLosses,
             dirty' \subseteq Workers
      PROVE  TypeOK'
  BY <1>2 DEF TypeOK
<1>3. ASSUME NEW pc \in PC PROVE Goto(pc) \in Generation
  BY <1>1, GotoAfter
<1>4. ASSUME NEW pc \in PC, NEW kind \in {"plain", "stopped"},
             NEW how \in {"ok", "error", "stopped"}
      PROVE  Failed(kind, how, pc) \in Generation
  BY <1>1, FailedAfter
<1>5. \A how \in {"ok", "error", "stopped"} :
        ExportFailed(how) \in Generation /\ FileStepFailed(how) \in Generation
  BY <1>1, FailuresAreTyped
<1>6. g.pc \in InSession => /\ g.on \in Workers /\ Here \in Directory
                            /\ \A d \in Directory :
                                  [disk EXCEPT ![g.on] = d] \in [Workers -> Directory]
  BY <1>1 DEF SessionInv, AtWork, OnWorker, Here
<1>0. NoArchive \in Archive /\ Broken \in Archive /\ Empty \in Directory /\ Over \in Attempt
  <2>1. NoExport \in Export /\ Invalid \in Export
    BY DEF NoExport, Invalid, Export
  <2>2. NoArchive \in Archive /\ Broken \in Archive
    BY <2>1 DEF NoArchive, Broken, Archive
  <2> QED
    BY <2>1, <2>2 DEF Empty, Directory, Over, NoAttempt, Attempt
<1>7. CASE GetDocument \/ GetAIPPaths
  BY <1>1, <1>2, <1>3, <1>4, <1>7 DEF GetDocument, GetAIPPaths, Locally, Elsewhere, PC
<1>8. CASE CreateSession
  <2>1. disk' \in [Workers -> Directory] /\ late' \in Attempt
    BY <1>0, <1>1, <1>8 DEF CreateSession
  <2>2. g' \in Generation
    <3>1. ASSUME NEW w \in Workers,
                 g' = [Goto("export") EXCEPT !.on = w, !.lost = "open",
                                             !.err = "none", !.cut = "no"]
          PROVE  g' \in Generation
      <4> DEFINE s == [Goto("export") EXCEPT !.on = w, !.lost = "open"]
      <4>1. s \in Generation
        <5>1. Goto("export") \in Generation
          BY <1>3 DEF PC, ExportStep
        <5> QED
          BY <5>1 DEF Generation, Context
      <4>2. g' = [s EXCEPT !.err = "none", !.cut = "no"]
        BY <3>1
      <4> HIDE DEF s
      <4> QED
        BY <4>1, <4>2 DEF Generation
    <3> QED
      BY <1>4, <1>8, <3>1 DEF CreateSession, PC
  <2> QED
    BY <1>1, <1>2, <1>8, <2>1, <2>2 DEF CreateSession, Elsewhere
<1>9. CASE CreateExport
  <2>1. g' \in Generation
    <3>1. ASSUME NEW export \in Export, g' = [Goto("poll") EXCEPT !.export = export]
          PROVE  g' \in Generation
      BY <1>3, <3>1 DEF Generation, PC, ExportStep
    <3>2. Invalid \in Export
      BY DEF Invalid, Export
    <3> QED
      BY <1>5, <1>9, <3>1, <3>2 DEF CreateExport
  <2> QED
    BY <1>1, <1>2, <1>9, <2>1 DEF CreateExport, Locally, Elsewhere
<1>10. CASE PollExport
  BY <1>1, <1>2, <1>3, <1>5, <1>10 DEF PollExport, Locally, Elsewhere, PC, ExportStep
<1>11. CASE DownloadExport
  <2>1. g' \in Generation
    BY <1>3, <1>5, <1>11 DEF DownloadExport, PC, ExportStep
  <2>2. g.pc = "download" /\ g.on \in Workers /\ Here \in Directory /\ g.export \in Export
    BY <1>1, <1>6, <1>11 DEF DownloadExport, InSession, ExportStep, Generation
  <2>3. disk' \in [Workers -> Directory]
    <3>1. [Here EXCEPT !.metadata = g.export] \in Directory
      BY <2>2, DirectoryAfter
    <3> QED
      BY <1>1, <1>6, <1>11, <2>2, <3>1 DEF DownloadExport, OnDisk, InSession, ExportStep
  <2>4. late' \in Attempt
    <3>1. [NoArchive EXCEPT !.metadata = g.export] \in Archive
      BY <1>0, <2>2 DEF Archive
    <3> QED
      BY <1>1, <1>11, <2>2, <3>1, GoesOnAfter DEF DownloadExport
  <2> QED
    BY <1>1, <1>2, <1>11, <2>1, <2>3, <2>4 DEF DownloadExport, Elsewhere
<1>12. CASE ValidateMetadata
  BY <1>1, <1>2, <1>3, <1>5, <1>12 DEF ValidateMetadata, Locally, Elsewhere, PC
<1>13. CASE ExportDelay
  <2>1. g' \in Generation
    <3>1. ASSUME g' = [Goto("export") EXCEPT !.tries = @ + 1], g.pc = "delay"
          PROVE  g' \in Generation
      <4>1. Goto("export") \in Generation /\ Goto("export").tries = g.tries
        BY <1>1, GotoAfter DEF PC, ExportStep
      <4>2. g.tries + 1 \in 1..MaxExports
        <5>1. g.tries \in 1..MaxExports /\ g.tries < MaxExports
          BY <1>1, <3>1 DEF SessionInv, AtWork, ExportsLeft, Generation
        <5> QED
          BY <5>1, SessionAssumption
      <4> QED
        BY <3>1, <4>1, <4>2 DEF Generation
    <3> QED
      BY <1>4, <1>13, <3>1 DEF ExportDelay, PC
  <2> QED
    BY <1>1, <1>2, <1>13, <2>1 DEF ExportDelay, Locally, Elsewhere
<1>14. CASE FetchMETS
  BY <1>1, <1>2, <1>3, <1>4, <1>14 DEF FetchMETS, Locally, Elsewhere, PC, FileStep
<1>15. CASE ParseMetadata
  <2>1. g' \in Generation
    <3>1. ASSUME g' = [Goto("prepare") EXCEPT !.todo = Here.metadata.files],
                 g.pc = "parse"
          PROVE  g' \in Generation
      <4>1. Goto("prepare") \in Generation
        BY <1>3 DEF PC, FileStep
      <4>2. Here.metadata.files \subseteq Files
        BY <1>6, <3>1 DEF InSession, FileStep, Directory, Export
      <4> QED
        BY <3>1, <4>1, <4>2 DEF Generation
    <3> QED
      BY <1>5, <1>15, <3>1 DEF ParseMetadata
  <2> QED
    BY <1>1, <1>2, <1>15, <2>1 DEF ParseMetadata, Locally, Elsewhere
<1>16. CASE PrepareDIP
  <2>1. g' \in Generation
    BY <1>3, <1>5, <1>16 DEF PrepareDIP, PC, FileStep
  <2>2. g.pc = "prepare" /\ g.on \in Workers /\ Here \in Directory
    BY <1>6, <1>16 DEF PrepareDIP, InSession, FileStep
  <2>3. disk' \in [Workers -> Directory]
    BY <1>1, <1>6, <1>16, <2>2, DirectoryAfter DEF PrepareDIP, OnDisk, InSession, FileStep
  <2>4. late' \in Attempt
    BY <1>0, <1>1, <1>16, <2>2, GoesOnAfter DEF PrepareDIP
  <2> QED
    BY <1>1, <1>2, <1>16, <2>1, <2>3, <2>4 DEF PrepareDIP, Elsewhere
<1>17. CASE FetchContent
  <2>1. g.pc = "content" /\ g.on \in Workers /\ Here \in Directory
    BY <1>6, <1>17 DEF FetchContent, InSession, FileStep
  <2>2. PICK f \in g.todo :
          /\ \/ /\ disk' = [disk EXCEPT ![g.on] = [Here EXCEPT !.dip.content = @ \cup {f}]]
                /\ g' = [Goto(IF g.todo = {f} THEN "zip" ELSE "content")
                          EXCEPT !.todo = @ \ {f}]
             \/ disk' = disk /\ \E how \in {"error", "stopped"} : g' = FileStepFailed(how)
          /\ GoesOn([NoArchive EXCEPT !.content = {f}])
    BY <1>17 DEF FetchContent, OnDisk
  <2>3. f \in Files
    BY <1>1 DEF Generation
  <2>4. g' \in Generation
    <3>1. ASSUME g' = [Goto(IF g.todo = {f} THEN "zip" ELSE "content")
                         EXCEPT !.todo = @ \ {f}]
          PROVE  g' \in Generation
      <4>1. Goto(IF g.todo = {f} THEN "zip" ELSE "content") \in Generation
        BY <1>3 DEF PC, FileStep
      <4> QED
        BY <3>1, <4>1 DEF Generation
    <3> QED
      BY <1>5, <2>2, <3>1
  <2>5. disk' \in [Workers -> Directory]
    <3>1. [Here EXCEPT !.dip.content = @ \cup {f}] \in Directory
      BY <2>1, <2>3, DirectoryAfter
    <3> QED
      BY <1>1, <1>6, <2>1, <2>2, <3>1 DEF InSession, FileStep
  <2>6. late' \in Attempt
    <3>1. [NoArchive EXCEPT !.content = {f}] \in Archive
      BY <1>0, <2>3 DEF Archive
    <3> QED
      BY <1>1, <2>1, <2>2, <3>1, GoesOnAfter
  <2> QED
    BY <1>1, <1>2, <1>17, <2>4, <2>5, <2>6 DEF FetchContent, Elsewhere
<1>18. CASE ArchiveZip
  <2>1. g.pc = "zip" /\ g.on \in Workers /\ Here \in Directory
    BY <1>6, <1>18 DEF ArchiveZip, InSession, FileStep
  <2>2. g' \in Generation
    <3>1. Goto("upload") \in Generation
      BY <1>3 DEF PC, FileStep
    <3>2. [Goto("upload") EXCEPT !.key = TRUE] \in Generation
      BY <3>1 DEF Generation
    <3> QED
      BY <1>5, <1>18, <3>2 DEF ArchiveZip, ZipFailed
  <2>3. disk' \in [Workers -> Directory]
    BY <1>1, <1>6, <1>18, <2>1, DirectoryAfter
       DEF ArchiveZip, WriteZip, ZipFailed, OnDisk, InSession, FileStep
  <2>4. late' \in Attempt /\ spoiled' \in BOOLEAN
    <3>1. CASE WriteZip
      BY <1>0, <1>1, <3>1 DEF WriteZip, Attempt
    <3>2. CASE ZipFailed
      BY <1>0, <1>1, <2>1, <3>2, GoesOnAfter DEF ZipFailed
    <3> QED
      BY <1>18, <3>1, <3>2 DEF ArchiveZip
  <2> QED
    BY <1>1, <1>2, <1>18, <2>2, <2>3, <2>4 DEF ArchiveZip
<1>19. CASE BucketUpload
  <2>1. g.pc = "upload" /\ g.on \in Workers /\ Here.zip \in Archive
    BY <1>6, <1>19 DEF BucketUpload, InSession, FileStep, Directory
  <2>2. g' \in Generation
    BY <1>3, <1>5, <1>19 DEF BucketUpload, PC
  <2>3. object' \in Archive
    BY <1>1, <1>19, <2>1 DEF BucketUpload
  <2>4. late' \in Attempt
    BY <1>1, <1>19, <2>1, GoesOnAfter DEF BucketUpload
  <2> QED
    BY <1>1, <1>2, <1>19, <2>2, <2>3, <2>4 DEF BucketUpload
<1>20. CASE Cleanup
  <2>1. g' \in Generation
    BY <1>1, <1>20, AfterSessionAfter DEF Cleanup
  <2>2. g.pc = "cleanup" /\ g.on \in Workers
    BY <1>6, <1>20 DEF Cleanup, InSession
  <2>3. disk' \in [Workers -> Directory]
    BY <1>0, <1>1, <1>20, <2>2 DEF Cleanup, OnDisk
  <2>4. dirty' \subseteq Workers /\ late' \in Attempt
    BY <1>0, <1>1, <1>20, <2>2, GoesOnAfter DEF Cleanup
  <2> QED
    BY <1>1, <1>2, <1>20, <2>1, <2>3, <2>4 DEF Cleanup
<1>21. CASE RetrySession
  <2>1. Goto("session") \in Generation /\ Goto("ended") \in Generation
    BY <1>3 DEF PC
  <2>2. Goto("session").attempt = g.attempt
    BY <1>1, GotoAfter DEF PC, Keeps
  <2>3. g.attempt \in 1..MaxSessions
    BY <1>1 DEF Generation
  <2>4. g.attempt < MaxSessions => g.attempt + 1 \in 1..MaxSessions
    BY <2>3, SessionAssumption
  <2>5. g' \in Generation
    BY <1>21, <2>1, <2>2, <2>4 DEF RetrySession, Generation
  <2> QED
    BY <1>1, <1>2, <1>21, <2>5 DEF RetrySession, Locally, Elsewhere
<1>22. CASE LoseWorker
  <2>1. g.on \in Workers
    BY <1>6, <1>22 DEF LoseWorker, InSession
  <2>2. g' \in Generation
    BY <1>1, <1>22 DEF LoseWorker, Generation, Context
  <2>3. losses' \in 0..MaxLosses
    BY <1>1, <1>22, SessionAssumption DEF LoseWorker
  <2>4. dirty' \subseteq Workers
    BY <1>1, <1>22, <2>1 DEF LoseWorker
  <2> QED
    BY <1>1, <1>2, <1>22, <2>2, <2>3, <2>4 DEF LoseWorker
<1>23. CASE LateWrite
  <2>1. late.on \in Workers
    BY <1>1, <1>23 DEF LateWrite, Attempt
  <2>2. PICK d \in Leaves(disk[late.on]) :
          /\ disk' = [disk EXCEPT ![late.on] = d]
          /\ spoiled' = (spoiled \/ (late.on = g.on /\ Undoes(d)))
    BY <1>23 DEF LateWrite
  <2>3. d \in Directory
    BY <1>1, <2>1, LeavesAreDirectories
  <2>4. disk' \in [Workers -> Directory] /\ spoiled' \in BOOLEAN /\ dirty' \subseteq Workers
    BY <1>1, <1>23, <2>1, <2>2, <2>3 DEF LateWrite
  <2> QED
    BY <1>0, <1>1, <1>2, <1>23, <2>4 DEF LateWrite
<1>24. CASE LateUpload \/ Cancel
  <2>1. g' \in Generation
    BY <1>1, <1>24 DEF LateUpload, Cancel, Generation, Context
  <2> QED
    BY <1>0, <1>1, <1>2, <1>24, <2>1 DEF LateUpload, Cancel, Attempt, Locally, Elsewhere
<1>25. CASE Ended \/ UNCHANGED vars
  BY <1>1, <1>2, <1>25 DEF Ended, vars
<1> QED
  BY <1>7, <1>8, <1>9, <1>10, <1>11, <1>12, <1>13, <1>14, <1>15, <1>16, <1>17, <1>18,
     <1>19, <1>20, <1>21, <1>22, <1>23, <1>24, <1>25 DEF Next, WorkflowStep

(***************************************************************************)
(* The invariant is inductive.                                             *)
(***************************************************************************)
MetadataStep == {"mets", "parse", "prepare", "content", "zip", "upload"}

\* What goes on, if anything does, is no upload.
NoUpload == spoiled' = spoiled /\ (late' = late \/ late'.step # "upload")

\* A step that leaves the archives alone and goes where nothing is claimed.
LEMMA QuietStep ==
    ASSUME SessionInv, object' = object, NoUpload, g'.key = g.key,
           g'.pc \notin MetadataStep,
           g'.pc \in InSession => g'.on \in Workers,
           g'.pc = "delay" => g'.tries < MaxExports,
           g'.pc \in {"cleanup", "ended"} /\ g'.err = "none" => g.key /\ object # NoArchive,
           g'.pc = "retry" => g'.err = "stopped"
    PROVE  AtWork'
<1>1. OnWorker' /\ ExportsLeft'
  BY DEF OnWorker, ExportsLeft
<1>2. Building'
  BY DEF Building, MetadataStep
<1>3. Uploaded'
  BY DEF SessionInv, AtWork, Uploaded, NoUpload, Whole
<1> QED
  BY <1>1, <1>2, <1>3 DEF AtWork

\* A failure in the session goes to the clean-up with an error.
LEMMA FailingStep ==
    ASSUME SessionInv, g.pc \in InSession, object' = object, NoUpload,
           NEW how \in {"ok", "error", "stopped"},
           \/ g' = ExportFailed(how)
           \/ g' = FileStepFailed(how)
           \/ \E kind \in {"plain", "stopped"} : g' = Failed(kind, how, "cleanup")
    PROVE  AtWork'
<1>1. TypeOK /\ g.on \in Workers /\ "cleanup" \in PC /\ "delay" \in PC
  BY DEF SessionInv, AtWork, OnWorker, PC
<1>2. ASSUME NEW kind \in {"plain", "stopped"}, NEW by \in {"ok", "error", "stopped"},
             g' = Failed(kind, by, "cleanup")
      PROVE  AtWork'
  <2>1. /\ g'.pc = "cleanup" /\ g'.err = kind /\ g'.key = g.key /\ g'.on = g.on
    BY <1>1, <1>2, FailedAfter DEF Keeps
  <2> QED
    BY <1>1, <2>1, QuietStep DEF MetadataStep
<1>3. ASSUME g' = Goto("delay"), g.tries < MaxExports
      PROVE  AtWork'
  <2>1. g'.pc = "delay" /\ g'.key = g.key /\ g'.on = g.on /\ g'.tries = g.tries
    BY <1>1, <1>3, GotoAfter DEF Keeps
  <2> QED
    BY <1>1, <1>3, <2>1, QuietStep DEF MetadataStep
<1>4. CASE g' = ExportFailed(how)
  BY <1>1, <1>2, <1>3, <1>4, ExportFailedAfter
<1>5. CASE g' = FileStepFailed(how)
  BY <1>1, <1>2, <1>5, FileStepFailedAfter
<1> QED
  BY <1>2, <1>4, <1>5

\* A step inside the session that leaves the archives alone.
LEMMA WorkingStep ==
    ASSUME SessionInv, g.pc \in InSession, g'.pc \in InSession \ {"delay", "cleanup"},
           g'.on = g.on, g'.key = g.key \/ g'.key = TRUE, object' = object, NoUpload, Building'
    PROVE  AtWork'
<1>1. OnWorker' /\ ExportsLeft'
  BY DEF SessionInv, AtWork, OnWorker, ExportsLeft
<1>2. Uploaded'
  BY DEF SessionInv, AtWork, Uploaded, NoUpload, Whole, InSession, ExportStep, FileStep
<1> QED
  BY <1>1, <1>2 DEF AtWork

\* An attempt that goes on in another step than the upload is no upload.
LEMMA NoUploadGoesOn ==
    ASSUME TypeOK, g.pc # "upload", NEW data, spoiled' = spoiled,
           late' = late \/ GoesOn(data)
    PROVE  NoUpload
BY DEF NoUpload, GoesOn

\* Every step keeps what the directory, the bucket and a late upload are good for.
LEMMA AtWorkStep ==
    ASSUME SessionInv, [Next]_vars
    PROVE  AtWork'
<1>1. /\ TypeOK /\ g \in Generation /\ disk \in [Workers -> Directory]
      /\ OnWorker /\ ExportsLeft /\ Building /\ Uploaded
  BY DEF SessionInv, AtWork, TypeOK
<1>2. ASSUME NEW pc \in PC
      PROVE  /\ Goto(pc) \in Generation /\ Goto(pc).pc = pc /\ Goto(pc).key = g.key
             /\ Goto(pc).on = g.on /\ Goto(pc).err = g.err
             /\ pc \in FileStep => Goto(pc).todo = g.todo
  BY <1>1, GotoAfter DEF Keeps
<1>3. CASE GetDocument \/ GetAIPPaths
  <2>1. \/ g' \in {Goto("paths"), Goto("session")}
        \/ \E how \in {"ok", "error", "stopped"} : g' = Failed("plain", how, "ended")
    BY <1>3 DEF GetDocument, GetAIPPaths
  <2>2. g'.pc \in {"paths", "session"} \/ (g'.pc = "ended" /\ g'.err = "plain")
    BY <1>1, <1>2, <2>1, FailedAfter DEF PC
  <2>3. g'.key = g.key
    BY <1>1, <1>2, <2>1, FailedAfter DEF PC, Keeps
  <2>4. object' = object /\ NoUpload
    BY <1>3 DEF GetDocument, GetAIPPaths, Locally, Elsewhere, NoUpload
  <2> QED
    BY <2>2, <2>3, <2>4, QuietStep DEF MetadataStep, InSession, ExportStep, FileStep
<1>4. CASE CreateSession
  <2>1. object' = object /\ NoUpload
    BY <1>4 DEF CreateSession, Elsewhere, NoUpload, Over, NoAttempt
  <2>2. CASE \E how \in {"error", "stopped"} : g' = Failed("plain", how, "ended")
    <3>1. g'.pc = "ended" /\ g'.err = "plain" /\ g'.key = g.key
      BY <1>1, <2>2, FailedAfter DEF PC, Keeps
    <3> QED
      BY <2>1, <3>1, QuietStep DEF MetadataStep, InSession, ExportStep, FileStep
  <2>3. CASE \E w \in Workers : g' = [Goto("export") EXCEPT !.on = w, !.lost = "open",
                                                          !.err = "none", !.cut = "no"]
    <3>1. Goto("export") \in Generation /\ Goto("export").pc = "export"
          /\ Goto("export").key = g.key
      BY <1>2 DEF PC, ExportStep
    <3>2. g'.pc = "export" /\ g'.key = g.key /\ g'.on \in Workers
      BY <2>3, <3>1 DEF Generation
    <3> QED
      BY <2>1, <3>2, QuietStep DEF MetadataStep
  <2> QED
    BY <1>4, <2>2, <2>3 DEF CreateSession
<1>5. CASE CreateExport \/ PollExport \/ DownloadExport
  <2>1. object' = object /\ NoUpload /\ g.pc \in ExportStep
    <3>1. g.pc \in ExportStep /\ object' = object /\ spoiled' = spoiled
      BY <1>5 DEF CreateExport, PollExport, DownloadExport, Locally, Elsewhere, ExportStep
    <3>2. late' = late \/ GoesOn([NoArchive EXCEPT !.metadata = g.export])
      BY <1>5 DEF CreateExport, PollExport, DownloadExport, Locally
    <3> QED
      BY <1>1, <3>1, <3>2, NoUploadGoesOn DEF ExportStep
  <2>2. g.pc \in InSession /\ g.on \in Workers
    BY <1>1, <2>1 DEF InSession, OnWorker
  <2>3. CASE \E how \in {"error", "stopped"} : g' = ExportFailed(how)
    BY <2>1, <2>2, <2>3, FailingStep
  <2>4. CASE \/ \E export \in Export \cup {Invalid} :
                   g' = [Goto("poll") EXCEPT !.export = export]
             \/ g' \in {Goto("download"), Goto("validate")}
    <3>1. g'.pc \in {"poll", "download", "validate"} /\ g'.key = g.key /\ g'.on = g.on
      BY <1>2, <2>4 DEF PC, ExportStep, Generation
    <3> QED
      BY <2>1, <2>2, <3>1, QuietStep DEF MetadataStep
  <2> QED
    BY <1>5, <2>3, <2>4 DEF CreateExport, PollExport, DownloadExport
<1>6. CASE ValidateMetadata
  <2>1. object' = object /\ NoUpload /\ disk' = disk /\ g.pc = "validate"
        /\ g.pc \in InSession
    BY <1>6 DEF ValidateMetadata, Locally, Elsewhere, NoUpload, InSession, ExportStep
  <2>2. CASE \E how \in {"ok", "error", "stopped"} : g' = ExportFailed(how)
    BY <2>1, <2>2, FailingStep
  <2>3. CASE Here.metadata.valid /\ g' = Goto("mets")
    <3>1. g'.pc = "mets" /\ g'.on = g.on /\ g'.key = g.key
      BY <1>2, <2>3 DEF PC
    <3>2. Building'
      BY <2>1, <2>3, <3>1 DEF Building, Here, NoUpload
    <3> QED
      BY <2>1, <3>1, <3>2, WorkingStep DEF InSession
  <2> QED
    BY <1>6, <2>2, <2>3 DEF ValidateMetadata
<1>7. CASE ExportDelay
  <2>1. object' = object /\ NoUpload /\ g.pc \in InSession /\ g.on \in Workers
    BY <1>1, <1>7 DEF ExportDelay, Locally, Elsewhere, NoUpload, InSession, OnWorker
  <2>2. CASE g' = Failed("stopped", "stopped", "cleanup")
    BY <2>1, <2>2, FailingStep
  <2>3. CASE g' = [Goto("export") EXCEPT !.tries = @ + 1]
    <3>1. Goto("export") \in Generation /\ Goto("export").pc = "export"
          /\ Goto("export").key = g.key /\ Goto("export").on = g.on
      BY <1>2 DEF PC, ExportStep
    <3>2. g'.pc = "export" /\ g'.key = g.key /\ g'.on = g.on
      BY <2>3, <3>1 DEF Generation
    <3> QED
      BY <2>1, <3>2, QuietStep DEF MetadataStep
  <2> QED
    BY <1>7, <2>2, <2>3 DEF ExportDelay
<1>8. CASE FetchMETS
  <2>1. object' = object /\ NoUpload /\ disk' = disk /\ g.pc = "mets"
        /\ g.pc \in InSession
    BY <1>8 DEF FetchMETS, Locally, Elsewhere, NoUpload, InSession
  <2>2. CASE \E how \in {"error", "stopped"} : g' = Failed("plain", how, "cleanup")
    BY <2>1, <2>2, FailingStep
  <2>3. CASE g' = Goto("parse")
    <3>1. g'.pc = "parse" /\ g'.on = g.on /\ g'.key = g.key
      BY <1>2, <2>3 DEF PC, FileStep
    <3>2. Building'
      BY <1>1, <2>1, <3>1 DEF Building, Here, NoUpload
    <3> QED
      BY <2>1, <3>1, <3>2, WorkingStep DEF InSession, FileStep
  <2> QED
    BY <1>8, <2>2, <2>3 DEF FetchMETS
<1>9. CASE ParseMetadata
  <2>1. object' = object /\ NoUpload /\ disk' = disk /\ g.pc = "parse"
        /\ g.pc \in InSession
    BY <1>9 DEF ParseMetadata, Locally, Elsewhere, NoUpload, InSession, FileStep
  <2>2. CASE \E how \in {"ok", "error", "stopped"} : g' = FileStepFailed(how)
    BY <2>1, <2>2, FailingStep
  <2>3. CASE g' = [Goto("prepare") EXCEPT !.todo = Here.metadata.files]
    <3>1. Goto("prepare") \in Generation /\ Goto("prepare").pc = "prepare"
          /\ Goto("prepare").key = g.key /\ Goto("prepare").on = g.on
      BY <1>2 DEF PC, FileStep
    <3>2. g'.pc = "prepare" /\ g'.on = g.on /\ g'.key = g.key
          /\ g'.todo = Here.metadata.files
      BY <2>3, <3>1 DEF Generation
    <3>3. Building'
      BY <1>1, <2>1, <3>2 DEF Building, Here, NoUpload
    <3> QED
      BY <2>1, <3>2, <3>3, WorkingStep DEF InSession, FileStep
  <2> QED
    BY <1>9, <2>2, <2>3 DEF ParseMetadata
<1>10. CASE PrepareDIP
  <2>1. object' = object /\ g.pc = "prepare" /\ g.pc \in InSession /\ g.on \in Workers
    BY <1>1, <1>10 DEF PrepareDIP, Elsewhere, InSession, FileStep, OnWorker
  <2>2. NoUpload
    BY <1>1, <1>10, <2>1, NoUploadGoesOn DEF PrepareDIP, Elsewhere
  <2>3. CASE \E how \in {"ok", "error", "stopped"} : g' = FileStepFailed(how)
    BY <2>1, <2>2, <2>3, FailingStep
  <2>4. CASE g' = Goto("content") /\ OnDisk(InHeader(Here))
    <3>1. g'.pc = "content" /\ g'.on = g.on /\ g'.key = g.key /\ g'.todo = g.todo
      BY <1>2, <2>4 DEF PC, FileStep
    <3>2. Here \in Directory
      BY <1>1, <2>1 DEF Here
    <3>3. InHeader(Here).dip.metadata = Here.metadata
      BY <3>2 DEF InHeader, Directory, Archive
    <3>4. Here' = InHeader(Here)
      BY <1>1, <2>1, <2>4, <3>1 DEF OnDisk, Here
    <3>5. Building'
      BY <1>1, <2>1, <2>2, <3>1, <3>3, <3>4 DEF Building, NoUpload
    <3> QED
      BY <2>1, <2>2, <3>1, <3>5, WorkingStep DEF InSession, FileStep
  <2> QED
    BY <1>10, <2>3, <2>4 DEF PrepareDIP
<1>11. CASE FetchContent
  <2>1. object' = object /\ g.pc = "content" /\ g.pc \in InSession /\ g.on \in Workers
    BY <1>1, <1>11 DEF FetchContent, Elsewhere, InSession, FileStep, OnWorker
  <2>2. NoUpload
    BY <1>1, <1>11, <2>1, NoUploadGoesOn DEF FetchContent, Elsewhere
  <2>3. CASE \E how \in {"ok", "error", "stopped"} : g' = FileStepFailed(how)
    BY <2>1, <2>2, <2>3, FailingStep
  <2>4. ASSUME NEW f \in g.todo,
               OnDisk([Here EXCEPT !.dip.content = @ \cup {f}]),
               g' = [Goto(IF g.todo = {f} THEN "zip" ELSE "content") EXCEPT !.todo = @ \ {f}]
        PROVE  AtWork'
    <3> DEFINE new == [Here EXCEPT !.dip.content = @ \cup {f}]
               pc == IF g.todo = {f} THEN "zip" ELSE "content"
    <3>1. Goto(pc) \in Generation /\ Goto(pc).pc = pc /\ Goto(pc).key = g.key
          /\ Goto(pc).on = g.on /\ Goto(pc).todo = g.todo
      BY <1>2 DEF PC, FileStep
    <3>2. g'.pc = pc /\ g'.on = g.on /\ g'.key = g.key /\ g'.todo = g.todo \ {f}
      BY <2>4, <3>1 DEF Generation
    <3>3. Here \in Directory
      BY <1>1, <2>1 DEF Here
    <3>4. /\ new.dip.metadata = Here.dip.metadata
          /\ new.dip.content = Here.dip.content \cup {f}
      BY <3>3 DEF Directory, Archive
    <3>5. Here' = new
      BY <1>1, <2>1, <2>4, <3>2 DEF OnDisk, Here
    <3> HIDE DEF new
    <3>6. ~spoiled => /\ Here.dip.metadata.valid
                      /\ Here.dip.metadata.files \subseteq Here.dip.content \cup g.todo
      BY <1>1, <2>1 DEF Building
    <3>7. Building'
      <4>1. CASE g.todo = {f}
        BY <2>2, <3>2, <3>4, <3>5, <3>6, <4>1 DEF Building, NoUpload
      <4>2. CASE g.todo # {f}
        BY <2>2, <3>2, <3>4, <3>5, <3>6, <4>2 DEF Building, NoUpload
      <4> QED
        BY <4>1, <4>2
    <3> QED
      BY <2>1, <2>2, <3>2, <3>7, WorkingStep DEF InSession, FileStep
  <2> QED
    BY <1>11, <2>3, <2>4 DEF FetchContent
<1>12. CASE ArchiveZip
  <2>1. object' = object /\ g.pc = "zip" /\ g.pc \in InSession /\ g.on \in Workers
    BY <1>1, <1>12 DEF ArchiveZip, InSession, FileStep, OnWorker
  <2>2. CASE ZipFailed
    <3>1. NoUpload
      BY <1>1, <2>1, <2>2, NoUploadGoesOn DEF ZipFailed
    <3> QED
      BY <2>1, <2>2, <3>1, FailingStep DEF ZipFailed
  <2>3. CASE WriteZip /\ g' = [Goto("upload") EXCEPT !.key = TRUE]
    <3> DEFINE new == [Here EXCEPT !.zip = Here.dip]
    <3>1. Goto("upload") \in Generation /\ Goto("upload").pc = "upload"
          /\ Goto("upload").on = g.on
      BY <1>2 DEF PC, FileStep
    <3>2. g'.pc = "upload" /\ g'.on = g.on /\ g'.key = TRUE
      BY <2>3, <3>1 DEF Generation
    <3>3. Here \in Directory
      BY <1>1, <2>1 DEF Here
    <3>4. new.zip = Here.dip
      BY <3>3 DEF Directory
    <3>5. Here' = new
      BY <1>1, <2>1, <2>3, <3>2 DEF WriteZip, OnDisk, Here
    <3> HIDE DEF new
    <3>6. ~spoiled => Whole(Here.dip)
      BY <1>1, <2>1 DEF Building, Whole
    <3>7. spoiled' = spoiled \/ spoiled' = TRUE
      BY <2>3 DEF WriteZip
    <3>8. Building'
      BY <3>2, <3>4, <3>5, <3>6, <3>7 DEF Building, Whole
    <3>9. Uploaded'
      <4>1. CASE UNCHANGED <<late, spoiled>>
        BY <1>1, <2>1, <3>2, <4>1 DEF Uploaded, Whole
      <4>2. CASE spoiled' = TRUE /\ late' = [late EXCEPT !.data = Broken]
        <5>1. late'.data # NoArchive
          BY <1>1, <4>2, SessionAssumption
             DEF TypeOK, Attempt, Broken, Invalid, NoArchive, NoExport
        <5> QED
          BY <1>1, <2>1, <3>2, <4>2, <5>1 DEF Uploaded
      <4> QED
        BY <2>3, <4>1, <4>2 DEF WriteZip
    <3>10. OnWorker' /\ ExportsLeft'
      BY <2>1, <3>2 DEF OnWorker, ExportsLeft
    <3> QED
      BY <3>8, <3>9, <3>10 DEF AtWork
  <2> QED
    BY <1>12, <2>2, <2>3 DEF ArchiveZip
<1>13. CASE BucketUpload
  <2>1. /\ g.pc = "upload" /\ g.pc \in InSession /\ g.on \in Workers
        /\ (~spoiled => Whole(Here.zip)) /\ g.key /\ spoiled' = spoiled
        /\ object' = object \/ (object' = Here.zip /\ object' # NoArchive)
    BY <1>1, <1>13 DEF BucketUpload, InSession, FileStep, OnWorker, Building
  <2>2. late' = late \/ (late'.data = Here.zip /\ Here.zip # NoArchive)
    BY <1>1, <1>13 DEF BucketUpload, GoesOn, TypeOK
  <2>3. g'.pc = "cleanup" /\ g'.key = g.key /\ g'.on = g.on
        /\ (g'.err = "none" => object' # NoArchive)
    <3>1. ASSUME NEW how \in {"error", "stopped"}, g' = FileStepFailed(how)
          PROVE  g'.pc = "cleanup" /\ g'.key = g.key /\ g'.on = g.on /\ g'.err # "none"
      <4>1. "cleanup" \in PC
        BY DEF PC
      <4> QED
        BY <1>1, <3>1, <4>1, FileStepFailedAfter, FailedAfter DEF Keeps
    <3>2. ASSUME g' = Goto("cleanup")
          PROVE  g'.pc = "cleanup" /\ g'.key = g.key /\ g'.on = g.on
      BY <1>2, <3>2 DEF PC
    <3> QED
      BY <1>13, <3>1, <3>2 DEF BucketUpload
  <2>4. OnWorker' /\ ExportsLeft' /\ Building'
    BY <2>1, <2>3 DEF OnWorker, ExportsLeft, Building
  <2>5. Uploaded'
    BY <1>1, <2>1, <2>2, <2>3 DEF Uploaded, Whole
  <2> QED
    BY <2>4, <2>5 DEF AtWork
<1>14. CASE Cleanup
  <2>1. object' = object /\ g.pc = "cleanup" /\ g' = AfterSession /\ spoiled' = spoiled
    BY <1>14 DEF Cleanup
  <2>2. NoUpload
    BY <1>1, <1>14, <2>1, NoUploadGoesOn DEF Cleanup
  <2>3. /\ g'.err = g.err /\ g'.key = g.key
        /\ g'.pc = "ended" \/ (g'.pc = "retry" /\ g.err = "stopped")
    BY <1>1, <2>1, AfterSessionAfter
  <2>4. g'.pc \in {"ended", "retry"} /\ (g'.err = "none" => g.key /\ object # NoArchive)
    BY <1>1, <2>1, <2>3 DEF Uploaded
  <2> QED
    BY <2>1, <2>2, <2>3, <2>4, QuietStep DEF MetadataStep, InSession, ExportStep, FileStep
<1>15. CASE RetrySession
  <2>1. object' = object /\ NoUpload /\ g.pc = "retry" /\ g.err = "stopped"
    BY <1>1, <1>15 DEF RetrySession, Locally, Elsewhere, NoUpload, Uploaded
  <2>2. g'.pc \in {"session", "ended"} /\ g'.err = g.err /\ g'.key = g.key
    <3>1. Goto("session") \in Generation /\ Goto("session").pc = "session"
          /\ Goto("session").err = g.err /\ Goto("session").key = g.key
      BY <1>2 DEF PC
    <3>2. Goto("ended").pc = "ended" /\ Goto("ended").err = g.err
          /\ Goto("ended").key = g.key
      BY <1>2 DEF PC
    <3> QED
      BY <1>15, <3>1, <3>2 DEF RetrySession, Generation
  <2> QED
    BY <2>1, <2>2, QuietStep DEF MetadataStep, InSession, ExportStep, FileStep
<1>16. ASSUME g'.pc = g.pc, g'.on = g.on, g'.tries = g.tries PROVE OnWorker' /\ ExportsLeft'
  BY <1>1, <1>16 DEF OnWorker, ExportsLeft
<1>17. CASE LoseWorker \/ Cancel \/ Ended \/ UNCHANGED vars
  <2>1. /\ g'.pc = g.pc /\ g'.err = g.err /\ g'.key = g.key /\ g'.on = g.on
        /\ g'.todo = g.todo /\ g'.tries = g.tries
        /\ disk' = disk /\ object' = object /\ late' = late /\ spoiled' = spoiled
    BY <1>1, <1>17 DEF LoseWorker, Cancel, Ended, vars, Locally, Elsewhere, Generation
  <2>2. Building' /\ Uploaded'
    BY <1>1, <2>1 DEF Building, Here, Uploaded, Whole
  <2> QED
    BY <1>16, <2>1, <2>2 DEF AtWork
<1>18. CASE LateWrite
  <2>1. /\ g' = g /\ object' = object /\ late' = Over /\ late.on \in Workers
    BY <1>1, <1>18 DEF LateWrite, TypeOK, Attempt
  <2>2. PICK d \in Leaves(disk[late.on]) :
          /\ disk' = [disk EXCEPT ![late.on] = d]
          /\ spoiled' = (spoiled \/ (late.on = g.on /\ Undoes(d)))
    BY <1>18 DEF LateWrite
  <2>3. ~spoiled' => ~spoiled
    BY <1>1, <2>2 DEF TypeOK
  <2>4. Uploaded'
    BY <1>1, <2>1, <2>3 DEF Uploaded, Whole, Over, NoAttempt
  <2>5. Building'
    <3>1. CASE late.on = g.on
      <4>1. Here' = d
        BY <1>1, <2>1, <2>2, <3>1 DEF Here
      <4>2. ~spoiled' => ~Undoes(d)
        BY <1>1, <2>2, <3>1 DEF TypeOK
      <4>3. ASSUME ~spoiled', g.pc \in {"mets", "parse", "prepare"}
            PROVE  d.metadata = Here.metadata
        BY <4>2, <4>3 DEF Undoes
      <4>4. ASSUME ~spoiled', g.pc \in {"content", "zip"}
            PROVE  d.dip.metadata = Here.dip.metadata
                   /\ Here.dip.content \ g.todo \subseteq d.dip.content
        BY <4>2, <4>4 DEF Undoes
      <4>5. ASSUME ~spoiled', g.pc = "upload"
            PROVE  d.zip = Here.zip
        BY <4>2, <4>5 DEF Undoes
      <4> QED
        BY <1>1, <2>1, <2>3, <4>1, <4>3, <4>4, <4>5 DEF Building, Whole
    <3>2. CASE late.on # g.on
      <4>1. g.pc \in MetadataStep => Here' = Here
        BY <1>1, <2>1, <2>2, <3>2
           DEF Here, OnWorker, MetadataStep, InSession, FileStep
      <4> QED
        BY <1>1, <2>1, <2>3, <4>1 DEF Building, MetadataStep, Whole
    <3> QED
      BY <3>1, <3>2
  <2> QED
    BY <1>16, <2>1, <2>4, <2>5 DEF AtWork
<1>19. CASE LateUpload
  <2>1. /\ g' = g /\ disk' = disk /\ spoiled' = spoiled /\ object' = late.data
        /\ late.step = "upload" /\ late' = Over
    BY <1>19 DEF LateUpload
  <2>2. Uploaded'
    BY <1>1, <2>1 DEF Uploaded, Whole, Over, NoAttempt
  <2>3. Building'
    BY <1>1, <2>1 DEF Building, Here, Whole
  <2> QED
    BY <1>16, <2>1, <2>2, <2>3 DEF AtWork
<1> QED
  BY <1>3, <1>4, <1>5, <1>6, <1>7, <1>8, <1>9, <1>10, <1>11, <1>12, <1>13, <1>14, <1>15,
     <1>17, <1>18, <1>19 DEF Next, WorkflowStep

\* The invariant holds at the start.
LEMMA InitialState == Init => SessionInv
<1> SUFFICES ASSUME Init PROVE SessionInv
  OBVIOUS
<1>1. /\ NoExport \in Export /\ NoArchive \in Archive /\ Empty \in Directory
  BY DEF NoExport, NoArchive, Empty, Export, Archive, Directory
<1>2. 1 \in 1..MaxSessions /\ 1 \in 1..MaxExports /\ 0 \in 0..MaxLosses
  BY SessionAssumption
<1>3. g \in Generation
  BY <1>1, <1>2 DEF Init, Generation, PC, Context
<1>4. TypeOK
  BY <1>1, <1>2, <1>3 DEF Init, TypeOK, NoAttempt, Attempt
<1>5. g.pc = "document"
  BY DEF Init
<1>6. OnWorker /\ ExportsLeft /\ Building
  BY <1>5 DEF OnWorker, ExportsLeft, Building, InSession, ExportStep, FileStep
<1>7. Uploaded
  BY <1>5 DEF Init, Uploaded, NoAttempt
<1> QED
  BY <1>4, <1>6, <1>7 DEF SessionInv, AtWork

(***************************************************************************)
(* The local files, and who hears of a lost worker.                        *)
(***************************************************************************)

\* Files are in the directory of the session or on a dirty worker.
Removed == \A w \in Workers :
              disk[w] # Empty => w \in dirty \/ (g.pc \in InSession /\ w = g.on)

\* A workflow that is not canceled and heard of a stopped activity elsewhere than in
\* the METS downloads is about to repeat the session, or has used them up.
Told ==
    /\ g.pc \in (InSession \ {"cleanup"}) \cup {"document", "paths"} => g.err = "none"
    /\ g.pc \in {"document", "paths"} => g.lost = "open"
    /\ g.err # "none" /\ g.cut = "elsewhere" /\ g.root = "open" =>
          \/ g.err = "stopped" /\ g.pc \in {"cleanup", "retry", "session"}
          \/ g.pc = "ended" /\ g.attempt = MaxSessions

\* A failure in the session, with its kind of error kept.
LEMMA FailureIsTold ==
    ASSUME SessionInv, Told, g.pc \in InSession \ {"cleanup"},
           NEW how \in {"ok", "error", "stopped"},
           \/ g' = ExportFailed(how)
           \/ g' = FileStepFailed(how)
           \/ g' = Failed("stopped", "stopped", "cleanup")
           \/ g.pc = "mets" /\ g' = Failed("plain", how, "cleanup")
    PROVE  g'.on = g.on /\ g'.pc \in {"delay", "cleanup"} /\ Told'
<1>1. TypeOK /\ "cleanup" \in PC /\ "delay" \in PC /\ g.err = "none"
  BY DEF SessionInv, PC, Told
<1>2. ASSUME g' = Failed("stopped", "stopped", "cleanup")
      PROVE  g'.on = g.on /\ g'.pc \in {"delay", "cleanup"} /\ Told'
  BY <1>1, <1>2, FailedAfter DEF Keeps, Told, InSession, ExportStep, FileStep
<1>3. ASSUME g' = Failed("plain", how, "cleanup"), how # "stopped" \/ g.pc = "mets"
      PROVE  g'.on = g.on /\ g'.pc \in {"delay", "cleanup"} /\ Told'
  BY <1>1, <1>3, FailedAfter DEF Keeps, Told, InSession, ExportStep, FileStep
<1>4. ASSUME g' = Goto("delay")
      PROVE  g'.on = g.on /\ g'.pc \in {"delay", "cleanup"} /\ Told'
  BY <1>1, <1>4, GotoAfter DEF Keeps, Told
<1> QED
  BY <1>1, <1>2, <1>3, <1>4, ExportFailedAfter, FileStepFailedAfter

\* A working step of the session stays in it, on its worker, and touches no
\* other directory.
LEMMA SessionSteps ==
    ASSUME SessionInv, Told, g.pc \in InSession \ {"cleanup"}, WorkflowStep
    PROVE  /\ g'.pc \in InSession /\ g'.on = g.on /\ dirty' = dirty
           /\ \A w \in Workers \ {g.on} : disk'[w] = disk[w]
           /\ Told'
<1>1. TypeOK /\ disk \in [Workers -> Directory] /\ g.err = "none"
  BY DEF SessionInv, TypeOK, Told
<1>2. dirty' = dirty /\ \A w \in Workers \ {g.on} : disk'[w] = disk[w]
  BY <1>1 DEF WorkflowStep, GetDocument, GetAIPPaths, CreateSession, CreateExport,
     PollExport, DownloadExport, ValidateMetadata, ExportDelay, FetchMETS, ParseMetadata,
     PrepareDIP, FetchContent, ArchiveZip, WriteZip, ZipFailed, BucketUpload, Cleanup,
     RetrySession, Locally, Elsewhere, OnDisk, InSession, ExportStep, FileStep
<1>3. ASSUME \/ \E how \in {"ok", "error", "stopped"} :
                   \/ g' = ExportFailed(how)
                   \/ g' = FileStepFailed(how)
                   \/ g.pc = "mets" /\ g' = Failed("plain", how, "cleanup")
             \/ g' = Failed("stopped", "stopped", "cleanup")
      PROVE  g'.pc \in InSession /\ g'.on = g.on /\ Told'
  BY <1>3, FailureIsTold DEF InSession
<1>4. ASSUME g'.pc \in InSession, g'.on = g.on, g'.err = "none"
      PROVE  Told'
  BY <1>4 DEF Told, InSession, ExportStep, FileStep
<1>5. ASSUME NEW pc \in InSession
      PROVE  Goto(pc) \in Generation /\ Goto(pc).pc = pc /\ Goto(pc).on = g.on
             /\ Goto(pc).err = "none"
  BY <1>1, GotoAfter DEF InSession, PC, Keeps
<1>6. ASSUME NEW pc \in InSession, g' = Goto(pc)
      PROVE  g'.pc \in InSession /\ g'.on = g.on /\ Told'
  BY <1>4, <1>5, <1>6
<1>7. CASE CreateExport \/ PollExport \/ DownloadExport \/ ValidateMetadata
  <2>1. ASSUME NEW export \in Export, g' = [Goto("poll") EXCEPT !.export = export]
        PROVE  g'.pc \in InSession /\ g'.on = g.on /\ Told'
    <3>1. Goto("poll") \in Generation /\ Goto("poll").pc = "poll"
          /\ Goto("poll").on = g.on /\ Goto("poll").err = "none"
      BY <1>5 DEF InSession, ExportStep
    <3> QED
      BY <1>4, <2>1, <3>1 DEF Generation, InSession, ExportStep
  <2>2. {"download", "validate", "mets"} \subseteq InSession
    BY DEF InSession, ExportStep
  <2>3. Invalid \in Export
    BY DEF Invalid, Export
  <2> QED
    BY <1>2, <1>3, <1>6, <1>7, <2>1, <2>2, <2>3
       DEF CreateExport, PollExport, DownloadExport, ValidateMetadata
<1>8. CASE ExportDelay
  <2>1. ASSUME g' = [Goto("export") EXCEPT !.tries = @ + 1]
        PROVE  g'.pc \in InSession /\ g'.on = g.on /\ Told'
    <3>1. Goto("export") \in Generation /\ Goto("export").pc = "export"
          /\ Goto("export").on = g.on /\ Goto("export").err = "none"
      BY <1>5 DEF InSession, ExportStep
    <3> QED
      BY <1>4, <2>1, <3>1 DEF Generation, InSession, ExportStep
  <2> QED
    BY <1>2, <1>3, <1>8, <2>1 DEF ExportDelay
<1>9. CASE FetchMETS
  BY <1>2, <1>3, <1>6, <1>9 DEF FetchMETS, InSession, FileStep
<1>10. CASE ParseMetadata
  <2>1. ASSUME g' = [Goto("prepare") EXCEPT !.todo = Here.metadata.files]
        PROVE  g'.pc \in InSession /\ g'.on = g.on /\ Told'
    <3>1. Goto("prepare") \in Generation /\ Goto("prepare").pc = "prepare"
          /\ Goto("prepare").on = g.on /\ Goto("prepare").err = "none"
      BY <1>5 DEF InSession, FileStep
    <3> QED
      BY <1>4, <2>1, <3>1 DEF Generation, InSession, FileStep
  <2> QED
    BY <1>2, <1>3, <1>10, <2>1 DEF ParseMetadata
<1>11. CASE PrepareDIP
  BY <1>2, <1>3, <1>6, <1>11 DEF PrepareDIP, InSession, FileStep
<1>12. CASE FetchContent
  <2>1. ASSUME NEW pc \in {"zip", "content"}, NEW f,
               g' = [Goto(pc) EXCEPT !.todo = @ \ {f}]
        PROVE  g'.pc \in InSession /\ g'.on = g.on /\ Told'
    <3>1. Goto(pc) \in Generation /\ Goto(pc).pc = pc
          /\ Goto(pc).on = g.on /\ Goto(pc).err = "none"
      BY <1>5 DEF InSession, FileStep
    <3> QED
      BY <1>4, <2>1, <3>1 DEF Generation, InSession, FileStep
  <2> QED
    BY <1>2, <1>3, <1>12, <2>1 DEF FetchContent
<1>13. CASE ArchiveZip
  <2>1. ASSUME g' = [Goto("upload") EXCEPT !.key = TRUE]
        PROVE  g'.pc \in InSession /\ g'.on = g.on /\ Told'
    <3>1. Goto("upload") \in Generation /\ Goto("upload").pc = "upload"
          /\ Goto("upload").on = g.on /\ Goto("upload").err = "none"
      BY <1>5 DEF InSession, FileStep
    <3> QED
      BY <1>4, <2>1, <3>1 DEF Generation, InSession, FileStep
  <2> QED
    BY <1>2, <1>3, <1>13, <2>1 DEF ArchiveZip, ZipFailed
<1>14. CASE BucketUpload
  BY <1>2, <1>3, <1>6, <1>14 DEF BucketUpload, InSession
<1> QED
  BY <1>7, <1>8, <1>9, <1>10, <1>11, <1>12, <1>13, <1>14
     DEF WorkflowStep, GetDocument, GetAIPPaths, CreateSession, Cleanup, RetrySession,
         InSession, ExportStep, FileStep

\* A step before a session, between two sessions, or after the last one leaves
\* the files where they are.
LEMMA OutsideSteps ==
    ASSUME SessionInv, Told, WorkflowStep, g.pc \notin InSession \ {"cleanup"},
           g.pc # "cleanup"
    PROVE  /\ Told' /\ dirty' = dirty
           /\ \A w \in Workers : disk'[w] = disk[w] \/ disk'[w] = Empty
<1>1. /\ TypeOK /\ disk \in [Workers -> Directory] /\ g \in Generation
      /\ g.pc = "retry" => g.err = "stopped"
  BY DEF SessionInv, TypeOK, AtWork, Uploaded
<1>2. dirty' = dirty /\ \A w \in Workers : disk'[w] = disk[w] \/ disk'[w] = Empty
  BY <1>1 DEF WorkflowStep, GetDocument, GetAIPPaths, CreateSession, CreateExport,
     PollExport, DownloadExport, ValidateMetadata, ExportDelay, FetchMETS, ParseMetadata,
     PrepareDIP, FetchContent, ArchiveZip, BucketUpload, Cleanup, RetrySession, Locally,
     Elsewhere, InSession, ExportStep, FileStep
<1>3. {"paths", "session", "ended"} \subseteq PC /\ "export" \in PC
  BY DEF PC, ExportStep
<1>4. ASSUME NEW how \in {"ok", "error", "stopped"},
             how = "stopped" => g.root # "open",
             g' = Failed("plain", how, "ended")
      PROVE  Told'
  <2>1. /\ g'.pc = "ended" /\ (g'.cut = "elsewhere" => how = "stopped")
        /\ g'.root = Passed(g.root)
    BY <1>1, <1>3, <1>4, FailedAfter DEF Keeps
  <2> QED
    BY <1>4, <2>1 DEF Told, Passed, InSession, ExportStep, FileStep
<1>5. CASE GetDocument \/ GetAIPPaths
  <2>1. g.pc \in {"document", "paths"} /\ g.err = "none" /\ g.lost = "open"
    BY <1>5 DEF GetDocument, GetAIPPaths, Told
  <2>2. ASSUME NEW pc \in {"paths", "session"}, g' = Goto(pc)
        PROVE  Told'
    <3>1. g'.pc = pc /\ g'.err = "none" /\ g'.lost = "open"
      BY <1>1, <1>3, <2>1, <2>2, GotoAfter DEF Keeps, Passed
    <3> QED
      BY <3>1 DEF Told
  <2> QED
    BY <1>2, <1>4, <1>5, <2>1, <2>2 DEF GetDocument, GetAIPPaths, Ends, Stoppable
<1>6. CASE CreateSession
  <2>1. ASSUME NEW w \in Workers,
               g' = [Goto("export") EXCEPT !.on = w, !.lost = "open", !.err = "none",
                                           !.cut = "no"]
        PROVE  Told'
    <3>1. Goto("export") \in Generation /\ Goto("export").pc = "export"
      BY <1>1, <1>3, GotoAfter
    <3>2. g'.pc = "export" /\ g'.err = "none"
      BY <2>1, <3>1 DEF Generation
    <3> QED
      BY <3>2 DEF Told
  <2> QED
    BY <1>2, <1>4, <1>6, <2>1 DEF CreateSession
<1>7. CASE RetrySession
  <2>1. g.pc = "retry" /\ g.err = "stopped" /\ g.attempt \in 1..MaxSessions
    BY <1>1, <1>7 DEF RetrySession, Generation
  <2>2. ASSUME g' = [Goto("session") EXCEPT !.attempt = @ + 1]
        PROVE  Told'
    <3>1. Goto("session") \in Generation /\ Goto("session").pc = "session"
          /\ Goto("session").err = "stopped"
      BY <1>1, <1>3, <2>1, GotoAfter
    <3>2. g'.pc = "session" /\ g'.err = "stopped"
      BY <2>2, <3>1 DEF Generation
    <3> QED
      BY <3>2 DEF Told, InSession, ExportStep, FileStep
  <2>3. ASSUME g' = Goto("ended"), ~(g.attempt < MaxSessions)
        PROVE  Told'
    <3>1. g'.pc = "ended" /\ g'.attempt = g.attempt
      BY <1>1, <1>3, <2>3, GotoAfter DEF Keeps
    <3>2. g.attempt = MaxSessions
      BY <2>1, <2>3, SessionAssumption
    <3> QED
      BY <3>1, <3>2 DEF Told, InSession, ExportStep, FileStep
  <2> QED
    BY <1>2, <1>7, <2>2, <2>3 DEF RetrySession
<1>8. GetDocument \/ GetAIPPaths \/ CreateSession \/ RetrySession
  BY DEF WorkflowStep, CreateExport, PollExport, DownloadExport, ValidateMetadata,
     ExportDelay, FetchMETS, ParseMetadata, PrepareDIP, FetchContent, ArchiveZip,
     BucketUpload, Cleanup, InSession, ExportStep, FileStep
<1> QED
  BY <1>2, <1>5, <1>6, <1>7, <1>8

\* The clean-up, done or reported failed, and where the session loop goes then.
LEMMA CleanupStep ==
    ASSUME SessionInv, Removed, Told, Cleanup
    PROVE  Removed' /\ Told'
<1>1. /\ TypeOK /\ disk \in [Workers -> Directory] /\ g.pc = "cleanup"
      /\ g' = AfterSession
  BY DEF SessionInv, TypeOK, Cleanup
<1>2. /\ g'.pc \in {"retry", "ended"}
      /\ g'.pc = "retry" => g.err = "stopped"
      /\ g'.err = g.err /\ g'.cut = g.cut
      /\ g'.root = "open" => g.root = "open"
      /\ g'.pc = "ended" => (g.err = "stopped" => g'.root # "open")
  BY <1>1, AfterSessionAfter
<1>3. Told'
  BY <1>1, <1>2 DEF Told, InSession, ExportStep, FileStep
<1>4. \A w \in Workers : disk'[w] # Empty => w \in dirty'
  BY <1>1 DEF Cleanup, Removed, OnDisk
<1> QED
  BY <1>3, <1>4 DEF Removed

\* Every step keeps the account of the local files and of the losses.
LEMMA SettledStep ==
    ASSUME SessionInv, Removed, Told, [Next]_vars
    PROVE  Removed' /\ Told'
<1>1. g \in Generation
  BY DEF SessionInv, TypeOK
<1>2. CASE WorkflowStep
  <2>1. CASE g.pc \in InSession \ {"cleanup"}
    BY <1>2, <2>1, SessionSteps DEF Removed
  <2>2. CASE g.pc = "cleanup"
    <3>1. Cleanup
      BY <1>2, <2>2 DEF WorkflowStep, GetDocument, GetAIPPaths, CreateSession,
         CreateExport, PollExport, DownloadExport, ValidateMetadata, ExportDelay,
         FetchMETS, ParseMetadata, PrepareDIP, FetchContent, ArchiveZip, BucketUpload,
         RetrySession
    <3> QED
      BY <3>1, CleanupStep
  <2>3. CASE g.pc \notin InSession
    <3>1. g.pc \notin InSession \ {"cleanup"} /\ g.pc # "cleanup"
      BY <2>3 DEF InSession
    <3> QED
      BY <1>2, <2>3, <3>1, OutsideSteps DEF Removed
  <2> QED
    BY <2>1, <2>2, <2>3
<1>3. CASE LoseWorker
  <2>1. /\ g.pc \in InSession /\ g'.pc = g.pc /\ g'.on = g.on /\ g'.err = g.err
        /\ g'.cut = g.cut /\ g'.root = g.root /\ g'.attempt = g.attempt
    BY <1>1, <1>3 DEF LoseWorker, Generation, InSession
  <2>2. g.pc \notin {"document", "paths"}
    BY <2>1 DEF InSession, ExportStep, FileStep
  <2>3. disk' = disk /\ dirty \subseteq dirty'
    BY <1>3 DEF LoseWorker
  <2> QED
    BY <2>1, <2>2, <2>3 DEF Removed, Told
<1>4. CASE LateUpload
  BY <1>4 DEF LateUpload, Removed, Told
<1>7. CASE LateWrite
  <2>1. g' = g /\ dirty' = dirty \cup {late.on}
    BY <1>7 DEF LateWrite
  <2>2. PICK d \in Leaves(disk[late.on]) : disk' = [disk EXCEPT ![late.on] = d]
    BY <1>7 DEF LateWrite
  <2>3. disk \in [Workers -> Directory]
    BY DEF SessionInv, TypeOK
  <2>4. \A w \in Workers : w = late.on \/ disk'[w] = disk[w]
    BY <2>2, <2>3
  <2> QED
    BY <2>1, <2>4 DEF Removed, Told
<1>5. CASE Cancel
  <2>1. /\ g'.pc = g.pc /\ g'.on = g.on /\ g'.err = g.err /\ g'.lost = g.lost
        /\ g'.root = "closing"
    BY <1>1, <1>5 DEF Cancel, Generation
  <2>2. disk' = disk /\ dirty' = dirty
    BY <1>5 DEF Cancel, Locally, Elsewhere
  <2> QED
    BY <2>1, <2>2 DEF Removed, Told
<1>6. CASE UNCHANGED vars
  BY <1>6 DEF vars, Removed, Told
<1> QED
  BY <1>2, <1>3, <1>4, <1>5, <1>6, <1>7 DEF Next, Ended

(***************************************************************************)
(* Theorems.                                                               *)
(***************************************************************************)

\* What the directory, the bucket and a late upload hold is invariant.
THEOREM Invariant == Spec => []SessionInv
<1>1. ASSUME SessionInv, [Next]_vars PROVE SessionInv'
  BY <1>1, TypeStep, AtWorkStep DEF SessionInv
<1> QED
  BY InitialState, <1>1, PTL DEF Spec

\* The files and the losses of a generation are accounted for at every step.
LEMMA Settled == Spec => [](Removed /\ Told)
<1>1. Init => Removed /\ Told
  BY DEF Init, Removed, Told
<1>2. ASSUME SessionInv, Removed /\ Told, [Next]_vars
      PROVE  (Removed /\ Told)'
  BY <1>2, SettledStep
<1> QED
  BY <1>1, <1>2, Invariant, PTL DEF Spec

\* The workflow, the disks, the bucket and the bounds keep their types.
THEOREM TypeCorrect == Spec => []TypeOK
<1>1. SessionInv => TypeOK
  BY DEF SessionInv
<1> QED
  BY Invariant, <1>1, PTL

\* An archive that is in the bucket or may get there has its key recorded, and a
\* successful generation has its archive: what DipService assumes of a generation.
THEOREM SpecOutcomeIsKnown == Spec => []OutcomeIsKnown
<1>1. SessionInv => OutcomeIsKnown
  BY DEF SessionInv, AtWork, Uploaded, OutcomeIsKnown
<1> QED
  BY Invariant, <1>1, PTL

\* An archive has an accepted metadata export and every content file of it, also
\* with attempts of lost sessions that write to the same directory, as long as none
\* undoes what the session still needs or uploads a ZIP that is rewritten.
THEOREM SpecArchiveHoldsItsMetadata == Spec => []ArchiveHoldsItsMetadata
<1>1. SessionInv => ArchiveHoldsItsMetadata
  BY DEF SessionInv, AtWork, Uploaded, Whole, ArchiveHoldsItsMetadata
<1> QED
  BY Invariant, <1>1, PTL

\* Nothing of a session stays on a worker but where the worker was lost, the
\* removal failed or a late attempt wrote.
THEOREM SpecFilesAreRemoved == Spec => []FilesAreRemoved
<1>1. Removed => FilesAreRemoved
  BY DEF Removed, FilesAreRemoved, InSession, ExportStep, FileStep
<1> QED
  BY Settled, <1>1, PTL

\* A lost worker fails the generation in the last session only, the METS downloads
\* excepted.
THEOREM SpecLossIsRetriedElsewhere == Spec => []LossIsRetriedElsewhere
<1>1. Told => LossIsRetriedElsewhere
  BY DEF Told, LossIsRetriedElsewhere
<1> QED
  BY Settled, <1>1, PTL

(***************************************************************************)
(* The way to the end.  Every step of the workflow leaves fewer sessions,  *)
(* export attempts or steps of one, or fewer files to fetch.               *)
(***************************************************************************)
Stage ==
    [pc \in PC |->
       CASE pc \in {"document", "mets"} -> 8 [] pc \in {"paths", "parse"} -> 7
         [] pc \in {"session", "prepare"} -> 6 [] pc \in {"export", "content"} -> 5
         [] pc \in {"poll", "zip"} -> 4 [] pc \in {"download", "upload"} -> 3
         [] pc \in {"validate", "cleanup"} -> 2 [] pc \in {"delay", "retry"} -> 1
         [] pc = "ended" -> 0]

\* The steps of the export attempts, those before them, and those after.
Exporting == ExportStep \cup {"delay"}
Outset    == {"document", "paths", "session"}
FromMETS  == {"mets", "parse", "prepare", "content", "zip", "upload", "cleanup", "retry", "ended"}

\* The steps up to the end of the session: an export attempt has 6 of them.
InThisSession(h) ==
    CASE h.pc \in {"document", "paths", "session"} -> 8 + 6 * MaxExports + Stage[h.pc]
      [] h.pc \in Exporting -> 8 + 6 * (MaxExports - h.tries) + Stage[h.pc]
      [] OTHER -> Stage[h.pc]

Steps(h)  == (17 + 6 * MaxExports) * (MaxSessions - h.attempt) + InThisSession(h)
StepsLeft == Steps(g)

\* The numbers.
LEMMA Stages ==
    /\ Stage["document"] = 8 /\ Stage["paths"] = 7 /\ Stage["session"] = 6
    /\ Stage["export"] = 5 /\ Stage["poll"] = 4 /\ Stage["download"] = 3
    /\ Stage["validate"] = 2 /\ Stage["delay"] = 1
    /\ Stage["mets"] = 8 /\ Stage["parse"] = 7 /\ Stage["prepare"] = 6 /\ Stage["content"] = 5
    /\ Stage["zip"] = 4 /\ Stage["upload"] = 3 /\ Stage["cleanup"] = 2 /\ Stage["retry"] = 1
    /\ Stage["ended"] = 0
<1>1. /\ {"document", "paths", "session", "delay", "mets", "cleanup", "retry", "ended"} \subseteq PC
      /\ {"export", "poll", "download", "validate"} \subseteq PC
      /\ {"parse", "prepare", "content", "zip", "upload"} \subseteq PC
  BY DEF PC, ExportStep, FileStep
<1> QED
  BY <1>1 DEF Stage

\* What is left, in the parts of a session.
LEMMA Parts ==
    ASSUME NEW h \in Generation
    PROVE  /\ MaxSessions \in Nat /\ MaxExports \in Nat /\ h.attempt \in 1..MaxSessions
           /\ h.tries \in 1..MaxExports /\ Stage[h.pc] \in 0..8
           /\ h.pc \in Outset => InThisSession(h) = 8 + 6 * MaxExports + Stage[h.pc]
           /\ h.pc \in Exporting =>
                 InThisSession(h) = 8 + 6 * (MaxExports - h.tries) + Stage[h.pc]
           /\ h.pc \in FromMETS => InThisSession(h) = Stage[h.pc]
           /\ InThisSession(h) \in 0..(16 + 6 * MaxExports)
<1>1. h.pc \in PC /\ MaxSessions \in Nat /\ MaxExports \in Nat
  BY SessionAssumption DEF Generation
<1>2. PC = Outset \cup Exporting \cup FromMETS
  BY DEF PC, Outset, Exporting, FromMETS, ExportStep, FileStep
<1>3. Stage[h.pc] \in 0..8
  <2>1. \A pc \in Outset \cup Exporting \cup FromMETS : Stage[pc] \in 0..8
    BY Stages DEF Outset, Exporting, FromMETS, ExportStep
  <2> QED
    BY <1>1, <1>2, <2>1
<1>4. h.attempt \in 1..MaxSessions /\ h.tries \in 1..MaxExports
  BY DEF Generation
<1>5. /\ Exporting \cap Outset = {}
      /\ FromMETS \cap (Exporting \cup Outset) = {}
  BY DEF Exporting, ExportStep, Outset, FromMETS
<1>6. /\ h.pc \in Outset => InThisSession(h) = 8 + 6 * MaxExports + Stage[h.pc]
      /\ h.pc \in Exporting =>
            InThisSession(h) = 8 + 6 * (MaxExports - h.tries) + Stage[h.pc]
      /\ h.pc \in FromMETS => InThisSession(h) = Stage[h.pc]
  BY <1>5 DEF InThisSession, Outset
<1>7. InThisSession(h) \in 0..(16 + 6 * MaxExports)
  BY <1>1, <1>2, <1>3, <1>4, <1>6
<1> QED
  BY <1>1, <1>3, <1>4, <1>6, <1>7

\* A step further within the session.
LEMMA Nearer ==
    ASSUME g \in Generation, g' \in Generation, g'.attempt = g.attempt,
           InThisSession(g') < InThisSession(g)
    PROVE  StepsLeft' < StepsLeft
<1>1. /\ MaxExports \in Nat /\ MaxSessions \in Nat /\ g.attempt \in Nat
      /\ InThisSession(g) \in Nat /\ InThisSession(g') \in Nat
  BY Parts
<1>2. StepsLeft' = (17 + 6 * MaxExports) * (MaxSessions - g.attempt) + InThisSession(g')
  BY DEF StepsLeft, Steps
<1>3. StepsLeft = (17 + 6 * MaxExports) * (MaxSessions - g.attempt) + InThisSession(g)
  BY DEF StepsLeft, Steps
<1> DEFINE x == (17 + 6 * MaxExports) * (MaxSessions - g.attempt)
<1>4. x \in Int
  BY <1>1
<1> HIDE DEF x
<1> QED
  BY <1>1, <1>2, <1>3, <1>4 DEF x

\* The ways a step can go further within the session.
LEMMA Further ==
    ASSUME TypeOK, TypeOK', g'.attempt = g.attempt,
           \/ g.pc \in Outset /\ g'.pc \in Outset /\ Stage[g'.pc] < Stage[g.pc]
           \/ g.pc \in Outset /\ g'.pc \in Exporting \cup {"ended"}
           \/ g.pc \in Exporting /\ g'.pc \in Exporting /\ g'.tries = g.tries
              /\ Stage[g'.pc] < Stage[g.pc]
           \/ g.pc = "delay" /\ g'.pc = "export" /\ g'.tries = g.tries + 1
           \/ g.pc \in Exporting /\ g'.pc \in {"mets", "cleanup"}
           \/ g.pc \in FromMETS /\ g'.pc \in FromMETS /\ Stage[g'.pc] < Stage[g.pc]
    PROVE  StepsLeft' < StepsLeft
<1>0. g \in Generation /\ g' \in Generation
  BY DEF TypeOK
<1>1. /\ MaxExports \in Nat
      /\ g.tries \in 1..MaxExports /\ Stage[g.pc] \in 0..8
      /\ g'.tries \in 1..MaxExports /\ Stage[g'.pc] \in 0..8
      /\ g.pc \in Outset => InThisSession(g) = 8 + 6 * MaxExports + Stage[g.pc]
      /\ g'.pc \in Outset => InThisSession(g') = 8 + 6 * MaxExports + Stage[g'.pc]
      /\ g.pc \in Exporting => InThisSession(g) = 8 + 6 * (MaxExports - g.tries) + Stage[g.pc]
      /\ g'.pc \in Exporting => InThisSession(g') = 8 + 6 * (MaxExports - g'.tries) + Stage[g'.pc]
      /\ g.pc \in FromMETS => InThisSession(g) = Stage[g.pc]
      /\ g'.pc \in FromMETS => InThisSession(g') = Stage[g'.pc]
  BY <1>0, Parts
<1>2. FromMETS \cap (Exporting \cup Outset) = {} /\ "ended" \in FromMETS
      /\ "delay" \in Exporting /\ "export" \in Exporting /\ Outset \cap Exporting = {}
  BY DEF FromMETS, Exporting, Outset, ExportStep
<1>3. InThisSession(g') < InThisSession(g)
  <2>1. CASE g.pc \in Outset /\ g'.pc \in Outset /\ Stage[g'.pc] < Stage[g.pc]
    BY <1>1, <2>1
  <2>2. CASE g.pc \in Outset /\ g'.pc \in Exporting
    <3>1. Stage[g.pc] >= 6
      BY <2>2, Stages DEF Outset
    <3> QED
      BY <1>1, <2>2, <3>1
  <2>3. CASE g.pc \in Outset /\ g'.pc = "ended"
    BY <1>1, <1>2, <2>3, Stages
  <2>4. CASE g.pc \in Exporting /\ g'.pc \in Exporting /\ g'.tries = g.tries
             /\ Stage[g'.pc] < Stage[g.pc]
    BY <1>1, <2>4
  <2>5. CASE g.pc = "delay" /\ g'.pc = "export" /\ g'.tries = g.tries + 1
    BY <1>1, <1>2, <2>5, Stages
  <2>6. CASE g.pc \in Exporting /\ g'.pc \in {"mets", "cleanup"}
    <3>1. Stage[g.pc] > 0
      BY <2>6, Stages DEF Exporting, ExportStep
    <3> QED
      BY <1>1, <1>2, <2>6, <3>1, Stages DEF FromMETS
  <2>7. CASE g.pc \in FromMETS /\ g'.pc \in FromMETS /\ Stage[g'.pc] < Stage[g.pc]
    BY <1>1, <1>2, <2>7
  <2> QED
    BY <2>1, <2>2, <2>3, <2>4, <2>5, <2>6, <2>7
<1> QED
  BY <1>0, <1>3, Nearer

\* Outside the next session's start and the removal, a step keeps the attempt.
LEMMA Jumps ==
    ASSUME TypeOK, NEW pc \in PC, NEW kind \in {"plain", "stopped"},
           NEW how \in {"ok", "error", "stopped"}
    PROVE  /\ Goto(pc).attempt = g.attempt /\ Goto(pc).pc = pc
           /\ pc \in ExportStep \cup {"delay"} => Goto(pc).tries = g.tries
           /\ Failed(kind, how, pc).attempt = g.attempt /\ Failed(kind, how, pc).pc = pc
BY GotoAfter, FailedAfter DEF Keeps

\* The steps up to a valid export.
LEMMA ExportGoesOn ==
    ASSUME TypeOK, TypeOK',
           \/ GetDocument \/ GetAIPPaths \/ CreateSession
           \/ CreateExport \/ PollExport \/ DownloadExport \/ ValidateMetadata \/ ExportDelay
    PROVE  StepsLeft' < StepsLeft
<1>1. g \in Generation /\ {"ended", "cleanup", "delay", "mets", "paths", "session"} \subseteq PC
      /\ ExportStep \subseteq PC
  BY DEF TypeOK, PC
<1>2. /\ \A pc \in PC : /\ Goto(pc).attempt = g.attempt /\ Goto(pc).pc = pc
                        /\ pc \in ExportStep \cup {"delay"} => Goto(pc).tries = g.tries
                        /\ Goto(pc) \in Generation
      /\ \A pc \in PC, kind \in {"plain", "stopped"}, how \in {"ok", "error", "stopped"} :
            Failed(kind, how, pc).attempt = g.attempt /\ Failed(kind, how, pc).pc = pc
  BY Jumps, GotoAfter
<1>3. ASSUME NEW how \in {"ok", "error", "stopped"}, g' = ExportFailed(how),
             g.pc \in ExportStep
      PROVE  StepsLeft' < StepsLeft
  <2>1. g'.attempt = g.attempt /\ (g'.pc = "cleanup" \/ (g'.pc = "delay" /\ g'.tries = g.tries))
    BY <1>1, <1>2, <1>3, ExportFailedAfter
  <2>2. Stage["delay"] < Stage[g.pc] /\ g.pc \in Exporting /\ "delay" \in Exporting
    BY <1>3, Stages DEF ExportStep, Exporting
  <2> QED
    BY <2>1, <2>2, Further
<1>4. CASE GetDocument
  <2>1. g.pc = "document" /\ g'.attempt = g.attempt /\ g'.pc \in {"paths", "ended"}
    BY <1>1, <1>2, <1>4 DEF GetDocument
  <2> QED
    BY <2>1, Further, Stages DEF Outset
<1>5. CASE GetAIPPaths
  <2>1. g.pc = "paths" /\ g'.attempt = g.attempt /\ g'.pc \in {"session", "ended"}
    BY <1>1, <1>2, <1>5 DEF GetAIPPaths
  <2> QED
    BY <2>1, Further, Stages DEF Outset
<1>6. CASE CreateSession
  <2>1. g.pc = "session" /\ g'.attempt = g.attempt /\ g'.pc \in {"export", "ended"}
    <3>1. ASSUME NEW w \in Workers,
                 g' = [Goto("export") EXCEPT !.on = w, !.lost = "open", !.err = "none",
                                             !.cut = "no"]
          PROVE  g'.attempt = g.attempt /\ g'.pc = "export"
      BY <1>1, <1>2, <3>1 DEF Generation, ExportStep
    <3>2. ASSUME NEW how \in {"ok", "error", "stopped"}, g' = Failed("plain", how, "ended")
          PROVE  g'.attempt = g.attempt /\ g'.pc = "ended"
      BY <1>1, <1>2, <3>2
    <3>3. \/ \E w \in Workers : g' = [Goto("export") EXCEPT !.on = w, !.lost = "open",
                                                            !.err = "none", !.cut = "no"]
          \/ \E how \in {"ok", "error", "stopped"} : g' = Failed("plain", how, "ended")
      BY <1>6 DEF CreateSession
    <3> QED
      BY <1>6, <3>1, <3>2, <3>3 DEF CreateSession
  <2> QED
    BY <2>1, Further DEF Outset, Exporting, ExportStep
<1>7. CASE CreateExport
  <2>1. CASE \E how \in {"error", "stopped"} : g' = ExportFailed(how)
    BY <1>3, <1>7, <2>1 DEF CreateExport, ExportStep
  <2>2. CASE \E export \in Export \cup {Invalid} :
               g' = [Goto("poll") EXCEPT !.export = export]
    <3>1. g.pc = "export" /\ g'.attempt = g.attempt /\ g'.pc = "poll" /\ g'.tries = g.tries
      BY <1>1, <1>2, <1>7, <2>2 DEF CreateExport, Generation, ExportStep
    <3> QED
      BY <3>1, Further, Stages DEF Exporting, ExportStep
  <2> QED
    BY <1>7, <2>1, <2>2 DEF CreateExport
<1>8. CASE PollExport
  <2>1. CASE \E how \in {"error", "stopped"} : g' = ExportFailed(how)
    BY <1>3, <1>8, <2>1 DEF PollExport, ExportStep
  <2>2. CASE g' = Goto("download")
    BY <1>1, <1>2, <1>8, <2>2, Further, Stages DEF PollExport, Exporting, ExportStep
  <2> QED
    BY <1>8, <2>1, <2>2 DEF PollExport
<1>9. CASE DownloadExport
  <2>1. CASE \E how \in {"error", "stopped"} : g' = ExportFailed(how)
    BY <1>3, <1>9, <2>1 DEF DownloadExport, ExportStep
  <2>2. CASE g' = Goto("validate")
    BY <1>1, <1>2, <1>9, <2>2, Further, Stages DEF DownloadExport, Exporting, ExportStep
  <2> QED
    BY <1>9, <2>1, <2>2 DEF DownloadExport
<1>10. CASE ValidateMetadata
  <2>1. CASE \E how \in {"ok", "error", "stopped"} : g' = ExportFailed(how)
    BY <1>3, <1>10, <2>1 DEF ValidateMetadata, ExportStep
  <2>2. CASE g' = Goto("mets")
    BY <1>1, <1>2, <1>10, <2>2, Further DEF ValidateMetadata, Exporting, ExportStep
  <2> QED
    BY <1>10, <2>1, <2>2 DEF ValidateMetadata
<1>11. CASE ExportDelay
  <2>1. CASE g' = [Goto("export") EXCEPT !.tries = @ + 1]
    <3>1. g.pc = "delay" /\ g'.attempt = g.attempt /\ g'.pc = "export" /\ g'.tries = g.tries + 1
      BY <1>1, <1>2, <1>11, <2>1 DEF ExportDelay, Generation, ExportStep
    <3> QED
      BY <3>1, Further
  <2>2. CASE g' = Failed("stopped", "stopped", "cleanup")
    BY <1>1, <1>2, <1>11, <2>2, Further DEF ExportDelay, Exporting
  <2> QED
    BY <1>11, <2>1, <2>2 DEF ExportDelay
<1> QED
  BY <1>4, <1>5, <1>6, <1>7, <1>8, <1>9, <1>10, <1>11

\* The steps with the files.  While the last ones are fetched only their set gets smaller.
LEMMA FilesGoOn ==
    ASSUME TypeOK, TypeOK',
           FetchMETS \/ ParseMetadata \/ PrepareDIP \/ FetchContent \/ ArchiveZip \/ BucketUpload
    PROVE  \/ StepsLeft' < StepsLeft
           \/ StepsLeft' = StepsLeft /\ g'.todo \subseteq g.todo /\ g'.todo # g.todo
<1>1. /\ g \in Generation
      /\ {"cleanup", "parse", "prepare", "content", "zip", "upload"} \subseteq PC
  BY DEF TypeOK, PC, FileStep
<1>2. \A pc \in PC : /\ Goto(pc).attempt = g.attempt /\ Goto(pc).pc = pc
                     /\ pc \in FileStep => Goto(pc).todo = g.todo
                     /\ Goto(pc) \in Generation
  BY GotoAfter DEF Keeps
<1>3. ASSUME g.pc \in {"mets", "parse", "prepare", "content", "zip", "upload"},
             g'.attempt = g.attempt, g'.pc \in FromMETS, Stage[g'.pc] < Stage[g.pc]
      PROVE  StepsLeft' < StepsLeft
  BY <1>3, Further DEF FromMETS
<1>4. ASSUME g.pc \in {"mets", "parse", "prepare", "content", "zip", "upload"},
             \E kind \in {"plain", "stopped"}, how \in {"ok", "error", "stopped"} :
                 g' = Failed(kind, how, "cleanup")
      PROVE  StepsLeft' < StepsLeft
  <2>1. g'.attempt = g.attempt /\ g'.pc = "cleanup"
    BY <1>1, <1>4, Jumps
  <2> QED
    BY <1>3, <1>4, <2>1, Stages DEF FromMETS
<1>5. \A how \in {"ok", "error", "stopped"} : \E kind \in {"plain", "stopped"} :
          FileStepFailed(how) = Failed(kind, how, "cleanup")
  BY DEF FileStepFailed
<1>6. CASE FetchMETS
  <2>1. CASE g' = Goto("parse")
    BY <1>1, <1>2, <1>3, <1>6, <2>1, Stages DEF FetchMETS, FromMETS
  <2> QED
    BY <1>4, <1>6, <2>1 DEF FetchMETS
<1>7. CASE ParseMetadata
  <2>1. CASE g' = [Goto("prepare") EXCEPT !.todo = Here.metadata.files]
    <3>1. g'.attempt = g.attempt /\ g'.pc = "prepare"
      BY <1>1, <1>2, <2>1 DEF Generation
    <3> QED
      BY <1>3, <1>7, <3>1, Stages DEF ParseMetadata, FromMETS
  <2> QED
    BY <1>4, <1>5, <1>7, <2>1 DEF ParseMetadata
<1>8. CASE PrepareDIP
  <2>1. CASE g' = Goto("content")
    BY <1>1, <1>2, <1>3, <1>8, <2>1, Stages DEF PrepareDIP, FromMETS
  <2> QED
    BY <1>4, <1>5, <1>8, <2>1 DEF PrepareDIP
<1>9. CASE FetchContent
  <2>1. ASSUME NEW f \in g.todo,
               g' = [Goto(IF g.todo = {f} THEN "zip" ELSE "content") EXCEPT !.todo = @ \ {f}]
        PROVE  \/ StepsLeft' < StepsLeft
               \/ StepsLeft' = StepsLeft /\ g'.todo \subseteq g.todo /\ g'.todo # g.todo
    <3> DEFINE pc == IF g.todo = {f} THEN "zip" ELSE "content"
    <3>1. pc \in PC /\ pc \in FileStep
      BY <1>1 DEF FileStep
    <3>2. g'.attempt = g.attempt /\ g'.pc = pc /\ g'.todo = g.todo \ {f}
      BY <1>1, <1>2, <2>1, <3>1 DEF Generation
    <3>3. g'.todo \subseteq g.todo /\ g'.todo # g.todo /\ g.pc = "content"
      BY <1>9, <3>2 DEF FetchContent
    <3>4. CASE g'.pc = "zip"
      BY <1>3, <3>2, <3>3, <3>4, Stages DEF FromMETS
    <3>5. CASE g'.pc = "content"
      <4>1. InThisSession(g') = InThisSession(g)
        <5>1. g \in Generation /\ g' \in Generation
          BY DEF TypeOK
        <5> QED
          BY <3>3, <3>5, <5>1, Parts DEF FromMETS
      <4> QED
        BY <3>2, <3>3, <4>1 DEF StepsLeft, Steps
    <3> QED
      BY <3>2, <3>4, <3>5
  <2>2. CASE \E f \in g.todo :
               g' = [Goto(IF g.todo = {f} THEN "zip" ELSE "content") EXCEPT !.todo = @ \ {f}]
    BY <2>1, <2>2
  <2>3. CASE \E how \in {"error", "stopped"} : g' = FileStepFailed(how)
    BY <1>4, <1>5, <1>9, <2>3 DEF FetchContent
  <2> QED
    BY <1>9, <2>2, <2>3 DEF FetchContent
<1>10. CASE ArchiveZip
  <2>1. CASE g' = [Goto("upload") EXCEPT !.key = TRUE]
    <3>1. g'.attempt = g.attempt /\ g'.pc = "upload"
      BY <1>1, <1>2, <2>1 DEF Generation
    <3> QED
      BY <1>3, <1>10, <3>1, Stages DEF ArchiveZip, FromMETS
  <2> QED
    BY <1>4, <1>5, <1>10, <2>1 DEF ArchiveZip, ZipFailed
<1>11. CASE BucketUpload
  <2>1. CASE g' = Goto("cleanup")
    BY <1>1, <1>2, <1>3, <1>11, <2>1, Stages DEF BucketUpload, FromMETS
  <2> QED
    BY <1>4, <1>5, <1>11, <2>1 DEF BucketUpload
<1> QED
  BY <1>6, <1>7, <1>8, <1>9, <1>10, <1>11

\* The removal, and the next session.
LEMMA LoopGoesOn ==
    ASSUME TypeOK, TypeOK', Cleanup \/ RetrySession
    PROVE  StepsLeft' < StepsLeft
<1>1. CASE Cleanup
  <2>1. g.pc = "cleanup" /\ g'.attempt = g.attempt /\ g'.pc \in {"retry", "ended"}
    BY <1>1, AfterSessionAfter DEF Cleanup
  <2> QED
    BY <2>1, Further, Stages DEF FromMETS
<1>2. CASE RetrySession /\ g' = Goto("ended")
  <2>1. Goto("ended").attempt = g.attempt /\ Goto("ended").pc = "ended"
    BY GotoAfter DEF Keeps, PC
  <2>2. g.pc = "retry" /\ g'.attempt = g.attempt /\ g'.pc = "ended"
    BY <1>2, <2>1 DEF RetrySession
  <2> QED
    BY <2>2, Further, Stages DEF FromMETS
<1>3. CASE RetrySession /\ g' = [Goto("session") EXCEPT !.attempt = @ + 1]
  <2>1. Goto("session") \in Generation /\ Goto("session").attempt = g.attempt
        /\ Goto("session").pc = "session"
    BY GotoAfter DEF Keeps, PC
  <2>2. g.pc = "retry" /\ g'.attempt = g.attempt + 1 /\ g'.pc = "session"
    BY <1>3, <2>1 DEF RetrySession, Generation
  <2>3. /\ MaxExports \in Nat /\ MaxSessions \in Nat /\ g.attempt \in Nat
        /\ InThisSession(g) = 1 /\ InThisSession(g') = 8 + 6 * MaxExports + 6
    <3>1. g \in Generation /\ g' \in Generation
      BY DEF TypeOK
    <3>2. /\ MaxExports \in Nat /\ MaxSessions \in Nat /\ g.attempt \in Nat
          /\ g.pc \in FromMETS => InThisSession(g) = Stage[g.pc]
          /\ g'.pc \in Outset => InThisSession(g') = 8 + 6 * MaxExports + Stage[g'.pc]
      BY <3>1, Parts
    <3> QED
      BY <2>2, <3>2, Stages DEF FromMETS, Outset
  <2> DEFINE s == 17 + 6 * MaxExports
             k == MaxSessions - (g.attempt + 1)
  <2>4. s \in Int /\ k \in Int /\ MaxSessions - g.attempt = k + 1
    BY <2>3
  <2>5. StepsLeft = s * (k + 1) + 1 /\ StepsLeft' = s * k + (s - 3)
    BY <2>2, <2>3, <2>4 DEF StepsLeft, Steps
  <2> HIDE DEF s, k
  <2>6. s * (k + 1) = s * k + s /\ s * k \in Int
    BY <2>4
  <2> QED
    BY <2>4, <2>5, <2>6
<1> QED
  BY <1>1, <1>2, <1>3 DEF RetrySession

\* Each step of the workflow leaves it fewer steps, or one file less to fetch, and
\* nothing else that happens (lost workers, late attempts, a cancellation) gives it
\* more: nested retries of sessions and exports come to an end for any number of
\* both.
THEOREM SpecGenerationEndsSoon ==
    Spec => /\ [](StepsLeft \in Nat)
            /\ [][IF WorkflowStep
                  THEN \/ StepsLeft' < StepsLeft
                       \/ StepsLeft' = StepsLeft /\ g'.todo \subseteq g.todo /\ g'.todo # g.todo
                  ELSE StepsLeft' = StepsLeft /\ g'.todo = g.todo]_vars
<1>1. ASSUME SessionInv PROVE StepsLeft \in Nat
  <2>1. /\ MaxExports \in Nat /\ MaxSessions - g.attempt \in Nat /\ InThisSession(g) \in Nat
    BY <1>1, Parts DEF SessionInv, TypeOK
  <2>2. \A s, k \in Nat : s * k \in Nat
    OBVIOUS
  <2>3. (17 + 6 * MaxExports) * (MaxSessions - g.attempt) \in Nat
    BY <2>1, <2>2
  <2> QED
    BY <2>1, <2>3 DEF StepsLeft, Steps
<1>2. ASSUME SessionInv, SessionInv', [Next]_vars
      PROVE  [IF WorkflowStep
              THEN \/ StepsLeft' < StepsLeft
                   \/ StepsLeft' = StepsLeft /\ g'.todo \subseteq g.todo /\ g'.todo # g.todo
              ELSE StepsLeft' = StepsLeft /\ g'.todo = g.todo]_vars
  <2>1. TypeOK /\ TypeOK'
    BY <1>2 DEF SessionInv
  <2>2. CASE WorkflowStep
    BY <2>1, <2>2, ExportGoesOn, FilesGoOn, LoopGoesOn DEF WorkflowStep
  <2>3. CASE ~WorkflowStep
    <3>1. g'.pc = g.pc /\ g'.attempt = g.attempt /\ g'.tries = g.tries /\ g'.todo = g.todo
      BY <1>2, <2>1, <2>3 DEF Next, LoseWorker, LateWrite, LateUpload, Cancel, Ended, vars, TypeOK,
             Generation
    <3>2. InThisSession(g') = InThisSession(g)
      BY <3>1 DEF InThisSession
    <3> QED
      BY <2>3, <3>1, <3>2 DEF StepsLeft, Steps
  <2> QED
    BY <2>2, <2>3
<1> QED
  BY Invariant, <1>1, <1>2, PTL DEF Spec
==============================================================================
