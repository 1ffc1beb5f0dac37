----------------------------- MODULE Preprocessing -----------------------------
(***************************************************************************)
(* The preprocessing workflow (internal/workflows/preprocessing.go) from   *)
(* the archive Enduro hands over to the bag it gets back: extraction,      *)
(* identification, the checks, and for a package that passed them all the  *)
(* submission to APIS, premis.xml, the restructuring, identifiers.json and *)
(* the bag.  An action is the reply of one activity: the workflow settles  *)
(* the activity's task and opens the next.                                 *)
(*                                                                         *)
(* No activity is repeated (withFilesystemActivityOpts), so one that fails *)
(* ends the workflow; what it had done by then stays on disk.              *)
(***************************************************************************)
EXTENDS SipPackage, TLC

CONSTANT ApisEnabled

ASSUME ApisAssumption == ApisEnabled \in BOOLEAN

VARIABLES pkg,      \* the package in the archive
          verapdf,  \* the worker has a command for veraPDF; it starts with one or not
          files,    \* the files in the extracted directory
          premis,   \* the objects of premis.xml and the events linked to them
          ids,      \* the entries of identifiers.json
          pc,       \* the activity whose reply is awaited
          sip,      \* the type of the identified package
          events,   \* how many kinds of event premis.xml has
          tasks,
          outcome,
          fault     \* an activity failed, or APIS refused, without the package's fault

vars == <<pkg, verapdf, files, premis, ids, pc, sip, events, tasks, outcome, fault>>

Checks == {"structure", "name", "disallowed", "formats", "metadata", "logical"}
Tasks  == Checks \cup {"extract", "bag", "unbag", "identify", "manifest", "checksums", "apis",
                       "premis", "restructure", "identifiers", "create bag"}
Steps  == (Tasks \ {"checksums", "premis"})
              \cup {"is bag", "objects", "event", "agent", "done"}

TaskState == {"none", "open", "ok", "invalid", "system"}
Claim     == [check : Checks, object : Path]

TypeOK ==
    /\ pkg \in Package /\ verapdf \in BOOLEAN
    /\ files \in SUBSET Path
    /\ premis \in [objects : SUBSET Path, claims : SUBSET Claim]
    /\ ids \in SUBSET [file : Path, source : Path]
    /\ pc \in Steps
    /\ sip \in Types \cup {"none"}
    /\ events \in 0..5
    /\ tasks \in [Tasks -> TaskState]
    /\ outcome \in {"success", "content", "system", "error"}
    /\ fault \in BOOLEAN

-----------------------------------------------------------------------------
(* The order of the activities *)

\* The tasks in progress during a step.
Opened(step) ==
    IF step = "manifest" THEN {"manifest", "checksums"}
    ELSE IF step \in {"objects", "event", "agent"} THEN {"premis"}
    ELSE {step} \cap Tasks

\* Faulty: the check for disallowed formats is left out.
NextCheckSkipping(step, t) ==
    [structure |-> "name",
     name      |-> "manifest",
     manifest  |-> "formats",
     formats   |-> "metadata",
     metadata  |-> IF t \in AIPs THEN "logical" ELSE "",
     logical   |-> ""][step]

\* The check after one of type t, or "" after the last.
NextCheck(step, t) ==
    [structure  |-> "name",
     name       |-> "manifest",
     manifest   |-> IF t \in SIPs THEN "disallowed" ELSE "formats",
     disallowed |-> "formats",
     formats    |-> "metadata",
     metadata   |-> IF t \in AIPs THEN "logical" ELSE "",
     logical    |-> ""][step]

\* Faulty: processing goes on whatever the checks found.
FollowingRegardless(step, result) ==
    IF NextCheck(step, sip) # "" THEN NextCheck(step, sip)
    ELSE IF ApisEnabled THEN "apis" ELSE "objects"

\* Processing stops after the last check if one of them has failed.
Following(step, result) ==
    IF NextCheck(step, sip) # "" THEN NextCheck(step, sip)
    ELSE IF result = "content" THEN "done"
    ELSE IF ApisEnabled THEN "apis" ELSE "objects"

\* The events of premis.xml, in order.
EventsOf(t) == IF t \in SIPs
               THEN <<"structure", "name", "disallowed", "formats", "metadata">>
               ELSE <<"structure", "name", "formats", "metadata">>

\* Tasks in the domain of results are settled, those of the next step opened.
Proceed(results, step) ==
    /\ pc' = step
    /\ tasks' = [t \in Tasks |-> IF t \in DOMAIN results THEN results[t]
                                 ELSE IF t \in Opened(step) THEN "open" ELSE tasks[t]]

Settled(task, state) == [t \in {task} |-> state]
Verdict(failed)      == IF failed THEN "invalid" ELSE "ok"

\* Faulty: only the first of the tasks fails.
FailedFirst(step) == [t \in Opened(step) \cap {step} |-> "system"]

\* An error of an activity fails every task it was to settle.
Failed(step) == [t \in Opened(step) |-> "system"]

-----------------------------------------------------------------------------
(* What the activities do on disk *)

Tags        == {<<"bagit.txt">>, <<"manifest.txt">>}
InData(ps)  == {<<"data">> \o p : p \in ps}

Extracted == IF pkg.bag = "none" THEN pkg.files
             ELSE Tags \cup IF pkg.bag = "bag" THEN InData(pkg.files) ELSE {}

\* The files outside data are deleted, then the entries of data moved up.
Untagged == Below(<<"data">>, files)
MovedUp(names) == Moved({[from |-> <<"data", n>>, to |-> <<n>>] : n \in names}, Untagged)
Unbagged       == MovedUp({p[2] : p \in Untagged})

PremisFile    == <<"metadata", "premis.xml">>
\* Faulty: the names in premis.xml leave out the bag's directory.
OriginalNameUnbagged(p) == Rebased(ContentPath(sip), Objects \o <<"content">>, p)

OriginalName(p) == <<"data">> \o Rebased(ContentPath(sip), Objects \o <<"content">>, p)

WithObjects == [premis EXCEPT !.objects =
                   @ \cup {OriginalName(p) : p \in Below(ContentPath(sip), files)}]

\* The event of the format validation goes to the files the validator knows,
\* the others to every object.
Linked(check) == IF check = "formats"
                 THEN {OriginalName(p) : p \in pkg.pdf \cap Below(ContentPath(sip), files)}
                 ELSE premis.objects
WithEvent(check) == [premis EXCEPT !.claims =
                        @ \cup {[check |-> check, object |-> o] : o \in Linked(check)}]

\* Faulty: the metadata of an AIP is looked for where a SIP has it.
MovesOfSIP == <<[from |-> ContentPath(sip), to |-> Objects \o <<"content">>],
                [from |-> <<"header", "metadata.xml">>,
                 to |-> Objects \o <<"header", "metadata.xml">>]>>

\* The moves of the restructuring, in order.
Moves == (IF sip \in AIPs
          THEN <<[from |-> UpdatedPath, to |-> <<"metadata", Last(UpdatedPath)>>],
                 [from |-> LogicalPath, to |-> <<"metadata", Last(LogicalPath)>>]>>
          ELSE <<>>)
         \o <<[from |-> ContentPath(sip), to |-> Objects \o <<"content">>],
              [from |-> MetadataPath(sip), to |-> Objects \o <<"header", "metadata.xml">>]>>

AfterMoves(n)    == Moved({Moves[i] : i \in 1..n}, files)
Cleared(dirs)    == {p \in AfterMoves(Len(Moves)) : p[1] \notin dirs}
Restructured     == Cleared(TopLevel(sip))

IdentifierFile == <<"metadata", "identifiers.json">>

-----------------------------------------------------------------------------
Init ==
    /\ pkg \in Packages /\ verapdf \in BOOLEAN
    /\ files = {} /\ premis = [objects |-> {}, claims |-> {}] /\ ids = {}
    /\ pc = "extract" /\ sip = "none" /\ events = 0
    /\ tasks = [t \in Tasks |-> IF t = "extract" THEN "open" ELSE "none"]
    /\ outcome = "success" /\ fault = FALSE

\* The archive must hold one directory with the name of the archive.
ExtractSIP ==
    /\ pc = "extract"
    /\ files' = Extracted
    /\ IF "folder" \in pkg.flaws
       THEN outcome' = "content" /\ Proceed(Settled("extract", "invalid"), "is bag")
       ELSE outcome' = outcome /\ Proceed(Settled("extract", "ok"), "is bag")
    /\ UNCHANGED <<pkg, verapdf, premis, ids, sip, events, fault>>

IsBag ==
    /\ pc = "is bag"
    /\ Proceed(<<>>, IF <<"bagit.txt">> \in files THEN "bag" ELSE "identify")
    /\ UNCHANGED <<pkg, verapdf, files, premis, ids, sip, events, outcome, fault>>

\* The only step whose error is returned without a result.
IsBagFails ==
    /\ pc = "is bag"
    /\ Proceed(<<>>, "done")
    /\ outcome' = "error" /\ fault' = TRUE
    /\ UNCHANGED <<pkg, verapdf, files, premis, ids, sip, events>>

\* A bag that is not valid is unbagged all the same.
ValidateBag ==
    /\ pc = "bag"
    /\ IF "bag" \in pkg.flaws
       THEN outcome' = "content" /\ Proceed(Settled("bag", "invalid"), "unbag")
       ELSE outcome' = outcome /\ Proceed(Settled("bag", "ok"), "unbag")
    /\ UNCHANGED <<pkg, verapdf, files, premis, ids, sip, events, fault>>

UnbagSIP ==
    /\ pc = "unbag" /\ Untagged # {}
    /\ files' = Unbagged
    /\ Proceed(Settled("unbag", "ok"), "identify")
    /\ UNCHANGED <<pkg, verapdf, premis, ids, sip, events, outcome, fault>>

IdentifySIP ==
    /\ pc = "identify"
    /\ sip' = SipType(pkg)
    /\ Proceed(Settled("identify", "ok"), "structure")
    /\ UNCHANGED <<pkg, verapdf, files, premis, ids, events, outcome, fault>>

\* Any error of this activity is put down to the content.
IdentifyFails ==
    /\ pc = "identify"
    /\ outcome' = "content" /\ fault' = TRUE
    /\ Proceed(Settled("identify", "invalid"), "done")
    /\ UNCHANGED <<pkg, verapdf, files, premis, ids, sip, events>>

-----------------------------------------------------------------------------
(* The checks *)

\* Without its command the only format validator reports nothing.
Skipped(check) == check = "formats" /\ ~verapdf

\* What a check finds when it is made.
Finds(check) ==
    \/ check = "structure" /\ StructureFailures(pkg, sip) # {}
    \/ check = "name" /\ sip \in SIPs /\ "name" \in pkg.flaws
    \/ check = "logical" /\ (LogicalPath \notin pkg.files \/ "logical" \in pkg.flaws)
    \/ check \in {"disallowed", "formats", "metadata"} /\ check \in pkg.flaws

Fails(check) == Finds(check) /\ ~Skipped(check)

\* The package makes the activity return an error.  A tool of another repository
\* that cannot work on it counts as failing by itself.
Breaks(step) ==
    \/ step = "unbag" /\ Untagged = {}
    \/ step = "manifest" /\ ManifestBreaks(pkg, sip)
    \/ step = "formats" /\ ContentPath(sip) \notin Dirs(pkg) \cup pkg.files
    \/ step = "objects" /\ <<"metadata">> \in files
    \/ step = "restructure" /\ <<"objects">> \in files
    \/ /\ step = "identifiers"
       /\ \/ PipManifestPath(sip) \notin files
          \/ PipManifest(pkg, sip).version = "malformed"
          \/ PipManifest(pkg, sip).entries = {}

Validate(check) ==
    /\ pc = check /\ ~Breaks(check)
    /\ outcome' = IF Fails(check) THEN "content" ELSE outcome
    /\ Proceed(Settled(check, Verdict(Fails(check))), Following(check, outcome'))
    /\ UNCHANGED <<pkg, verapdf, files, premis, ids, sip, events, fault>>

VerifyManifest ==
    /\ pc = "manifest" /\ ~Breaks("manifest")
    /\ outcome' = IF ManifestFails(pkg, sip) \/ ChecksumsFail(pkg, sip)
                  THEN "content" ELSE outcome
    /\ Proceed([t \in {"manifest", "checksums"} |->
                   Verdict(IF t = "manifest" THEN ManifestFails(pkg, sip)
                                             ELSE ChecksumsFail(pkg, sip))],
               Following("manifest", outcome'))
    /\ UNCHANGED <<pkg, verapdf, files, premis, ids, sip, events, fault>>

\* Faulty: only a system error of the submission stops the processing.
CreateAPISImportTaskLax(result) ==
    /\ pc = "apis"
    /\ outcome' = [ok |-> outcome, invalid |-> "content", system |-> "system"][result]
    /\ Proceed(Settled("apis", result), IF result # "system" THEN "objects" ELSE "done")
    /\ fault' = (fault \/ result # "ok")
    /\ UNCHANGED <<pkg, verapdf, files, premis, ids, sip, events>>

\* The submission to APIS, analysis and decision (module ApisIngest) as a whole.
CreateAPISImportTask(result) ==
    /\ pc = "apis"
    /\ outcome' = [ok |-> outcome, invalid |-> "content", system |-> "system"][result]
    /\ Proceed(Settled("apis", result), IF result = "ok" THEN "objects" ELSE "done")
    /\ fault' = (fault \/ result # "ok")
    /\ UNCHANGED <<pkg, verapdf, files, premis, ids, sip, events>>

-----------------------------------------------------------------------------
(* The package for preservation *)

AddPREMISObjects ==
    /\ pc = "objects" /\ ~Breaks("objects")
    /\ files' = files \cup {PremisFile} /\ premis' = WithObjects
    /\ Proceed(<<>>, "event")
    /\ UNCHANGED <<pkg, verapdf, ids, sip, events, outcome, fault>>

AddPREMISEvent ==
    /\ pc = "event"
    /\ premis' = WithEvent(EventsOf(sip)[events + 1])
    /\ events' = events + 1
    /\ Proceed(<<>>, IF events + 1 = Len(EventsOf(sip)) THEN "agent" ELSE "event")
    /\ UNCHANGED <<pkg, verapdf, files, ids, sip, outcome, fault>>

AddPREMISAgent ==
    /\ pc = "agent"
    /\ Proceed(Settled("premis", "ok"), "restructure")
    /\ UNCHANGED <<pkg, verapdf, files, premis, ids, sip, events, outcome, fault>>

TransformSIP ==
    /\ pc = "restructure" /\ ~Breaks("restructure")
    /\ files' = Restructured
    /\ Proceed(Settled("restructure", "ok"), "identifiers")
    /\ UNCHANGED <<pkg, verapdf, premis, ids, sip, events, outcome, fault>>

WriteIdentifierFile ==
    /\ pc = "identifiers" /\ ~Breaks("identifiers")
    /\ files' = files \cup {IdentifierFile} /\ ids' = Identifiers(pkg, sip)
    /\ Proceed(Settled("identifiers", "ok"), "create bag")
    /\ UNCHANGED <<pkg, verapdf, premis, sip, events, outcome, fault>>

CreateBag ==
    /\ pc = "create bag"
    /\ files' = InData(files) \cup Tags
    /\ Proceed(Settled("create bag", "ok"), "done")
    /\ UNCHANGED <<pkg, verapdf, premis, ids, sip, events, outcome, fault>>

\* What an activity that failed may have done: nothing, a part, or all of it.
Disrupted ==
    \/ UNCHANGED <<files, premis, ids>>
    \/ ~Breaks(pc) /\ UNCHANGED <<premis, ids>>
          /\ \/ pc = "extract" /\ files' = Extracted
             \/ pc = "unbag" /\ \E names \in SUBSET {p[2] : p \in Untagged} :
                                  files' = MovedUp(names)
             \/ pc = "restructure" /\ \E dirs \in SUBSET TopLevel(sip) : files' = Cleared(dirs)
             \/ pc = "create bag" /\ files' = InData(files) \cup Tags
    \/ /\ pc = "restructure"
       /\ \E n \in 1..Len(Moves) : /\ Breaks(pc) => n <= Len(Moves) - 2
                                   /\ files' = AfterMoves(n)
       /\ UNCHANGED <<premis, ids>>
    \/ /\ pc = "objects" /\ ~Breaks(pc)
       /\ files' = files \cup {PremisFile} /\ premis' = WithObjects /\ UNCHANGED ids
    \/ pc = "event" /\ premis' = WithEvent(EventsOf(sip)[events + 1]) /\ UNCHANGED <<files, ids>>
    \/ /\ pc = "identifiers" /\ ~Breaks(pc)
       /\ files' = files \cup {IdentifierFile} /\ ids' = Identifiers(pkg, sip)
       /\ UNCHANGED premis

\* An activity fails: by itself, with its worker, or over the package.
ActivityFails ==
    /\ pc \in Steps \ {"is bag", "identify", "apis", "done"}
    /\ Disrupted
    /\ outcome' = "system" /\ fault' = (fault \/ ~Breaks(pc))
    /\ Proceed(Failed(pc), "done")
    /\ UNCHANGED <<pkg, verapdf, sip, events>>

Next ==
    \/ ExtractSIP \/ IsBag \/ IsBagFails \/ ValidateBag \/ UnbagSIP
    \/ IdentifySIP \/ IdentifyFails
    \/ \E check \in Checks : Validate(check)
    \/ VerifyManifest
    \/ \E result \in {"ok", "invalid", "system"} : CreateAPISImportTask(result)
    \/ AddPREMISObjects \/ AddPREMISEvent \/ AddPREMISAgent
    \/ TransformSIP \/ WriteIdentifierFile \/ CreateBag
    \/ ActivityFails

Spec == Init /\ [][Next]_vars

-----------------------------------------------------------------------------
(* What a package must be like, stated from its content and, for the formats, *)
(* from what the worker can check                                             *)

\* The check of the structure does not tell a file from a directory where it only
\* looks a path up (validate_structure.go).
WellStructured(p) ==
    LET t == SipType(p)
        n == Len(ContentPath(t)) + 1
    IN /\ p.files # {} /\ p.empty = {}
       /\ \A f \in p.files : \A i \in 1..Len(f) : f[i] \notin InvalidNames
       /\ \A f \in p.files : Len(f) > 1 => f[1] \in TopLevel(t)
       /\ {MetadataPath(t), XSDPath(t)} \subseteq p.files \cup Dirs(p)
       /\ t \in AIPs => LogicalPath \in p.files
       /\ Content(p) # {}
       /\ t \in {"DigitizedAIP", "DigitizedSIP"} =>
             \A f, g \in Content(p) : Len(f) > n /\ Len(g) > n => f[n] = g[n]

\* Every file the manifest speaks for is listed, with its own checksum.
WellListed(p) ==
    LET t    == SipType(p)
        ours == IF t \in AIPs THEN {f \in p.files : f[1] = "content"}
                              ELSE p.files \ {MetadataPath(t)}
    IN /\ ManifestPath(t) \in p.files
       /\ Manifest(p, t).version = "allowed"
       /\ \A e \in Manifest(p, t).entries : e.sum = "match"
       /\ {Root(t) \o e.path : e \in Manifest(p, t).entries} = ours

\* tool: whether the worker can validate PDF/A files.
Sound(p, tool) ==
    /\ p.bag # "without data" /\ p.flaws \cap {"folder", "metadata"} = {}
    /\ tool => "formats" \notin p.flaws
    /\ p.bag = "bag" => "bag" \notin p.flaws
    /\ SipType(p) \in SIPs => p.flaws \cap {"name", "disallowed"} = {}
    /\ SipType(p) \in AIPs => "logical" \notin p.flaws
    /\ WellStructured(p) /\ WellListed(p)

\* Sound packages that cannot be restructured: a file is in the way of a
\* directory, or the file read for the identifiers is none or lists nothing.
Obstructed(p) ==
    \/ {<<"metadata">>, <<"objects">>} \cap p.files # {}
    \/ SipType(p) # "DigitizedAIP" /\ MetadataPath(SipType(p)) \notin p.files
    \/ PipManifest(p, SipType(p)).version = "malformed"
    \/ PipManifest(p, SipType(p)).entries = {}

\* The place of a file to preserve in the restructured package.
PlaceOf(t, f) ==
    IF IsPrefix(ContentPath(t), f) THEN Rebased(ContentPath(t), Objects \o <<"content">>, f)
    ELSE IF IsPrefix(MetadataPath(t), f)
         THEN Rebased(MetadataPath(t), Objects \o <<"header", "metadata.xml">>, f)
         ELSE <<"metadata", Last(f)>>

\* The files to preserve, each with its place.
ToPreserve(p, t) == Below(ContentPath(t), p.files) \cup Below(MetadataPath(t), p.files)
                        \cup IF t \in AIPs THEN {UpdatedPath, LogicalPath} \cap p.files ELSE {}
Preserved(p)     == [f \in ToPreserve(p, SipType(p)) |-> PlaceOf(SipType(p), f)]

-----------------------------------------------------------------------------
(* Properties *)

\* A package is accepted only if it is sound as far as the worker can tell (without
\* veraPDF it knows nothing of the formats), and one that is sound is refused
\* only if something failed, or APIS refused it, or it is obstructed: what the
\* checks amount to, each applied or not by the type of the package and reached
\* or not after an earlier one (preprocessing.go:69-541).
VerdictIsRight ==
    pc = "done" => /\ outcome = "success" => Sound(pkg, verapdf)
                   /\ outcome # "success" => fault \/ ~Sound(pkg, verapdf) \/ Obstructed(pkg)

\* The tasks Enduro is shown tell the same as the outcome and none stays in
\* progress, also where one activity settles two tasks (preprocessing.go:230-294)
\* or several settle one (preprocessing.go:463-476).
TasksTellTheOutcome ==
    pc = "done" /\ outcome # "error" =>
        LET told == {tasks[t] : t \in Tasks} \ {"none"}
        IN /\ "open" \notin told
           /\ outcome = IF "system" \in told THEN "system"
                        ELSE IF "invalid" \in told THEN "content" ELSE "success"

\* premis.xml claims of objects that are content, and only checks that the package
\* has passed: its events have fixed texts and are written after all the checks
\* (preprocessing.go:848-982).  The exception is a worker without veraPDF, which
\* skips the check of the formats (verapdf_validator.go:62-66) and claims it all the
\* same: there "valid" may be said of a PDF/A that is not.
PremisIsTrue ==
    /\ premis.objects \subseteq {OriginalName(p) : p \in Content(pkg)}
    /\ \A c \in premis.claims :
          /\ c.object \in premis.objects
          /\ Skipped(c.check) \/ ~Finds(c.check)

\* However far the activities that move files and delete directories got, each
\* file to be preserved is in its old or its new place (unbag.go:34-75,
\* transform_sip.go:30-97).
NothingIsLost ==
    pc # "extract" /\ files # {} /\ pkg.bag # "without data" =>
        \A f \in DOMAIN Preserved(pkg) :
            LET places == {f, Preserved(pkg)[f]}
            IN (places \cup InData(places)) \cap files # {}

\* Enduro gets a bag of the preserved files, at the places and under the names
\* premis.xml has for them, and of the rest only stray files beside the top-level
\* directories (transform_sip.go:68-89, premis.go:399-401).  The content goes as a
\* whole, a Prozess_Digitalisierung_PREMIS.xml in it too, which README.md:456 and
\* 474-475 of the repository put in the metadata directory.
BagIsComplete ==
    pc = "done" /\ outcome = "success" =>
        LET kept  == {Preserved(pkg)[f] : f \in DOMAIN Preserved(pkg)}
            stray == {f \in pkg.files : Len(f) = 1 /\ f[1] \notin TopLevel(sip)}
        IN /\ files = InData(kept \cup stray \cup {PremisFile, IdentifierFile}) \cup Tags
           /\ premis.objects = Below(<<"data">> \o Objects \o <<"content">>, files)

\* A package refused for its content is as it came, out of its bag, and nothing
\* is claimed of it (the stops at preprocessing.go:451-461).
RefusedIsUntouched ==
    pc = "done" /\ outcome = "content" =>
        files = pkg.files /\ premis.objects = {} /\ ids = {}

\* Where the manifest that was verified is read again for the identifiers, every
\* file of the content gets one, unless its name is one of those that are sent
\* elsewhere (pips.go:42-56, write_identifier_file.go:75-87).
IdentifiersCoverContent ==
    pc = "done" /\ outcome = "success" /\ sip # "BornDigitalAIP" =>
        \A f \in Content(pkg) : Last(f) \notin {"metadata.xml", "UpdatedAreldaMetadata.xml"} =>
            \E i \in ids : i.file = Preserved(pkg)[f]

\* identifiers.json names only files of the restructured package
\* (write_identifier_file.go:71-74).
IdentifiersNameFiles ==
    pc = "create bag" => \A i \in ids : i.file \in files
==============================================================================
