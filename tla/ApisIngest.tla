------------------------------ MODULE ApisIngest ------------------------------
(***************************************************************************)
(* One ingest with APIS enabled.  The preprocessing workflow submits the   *)
(* metadata of a valid SIP to APIS, waits for the analysis and, if there   *)
(* are conflicts, for a person's decision (createAPISImportTask in         *)
(* internal/workflows/preprocessing.go).  When Enduro has stored the AIP,  *)
(* the poststorage-apis workflow starts the import and waits for it        *)
(* (internal/workflows/poststorage_apis.go).                               *)
(*                                                                         *)
(* A request to APIS is done and answered, done with the answer lost, or   *)
(* not done; the last two are faults, retried unless the error forbids it. *)
(***************************************************************************)
EXTENDS ApisServer

CONSTANTS Tasks,        \* import task IDs APIS may give out
          NoTask,
          MaxTries,     \* RetryPolicy.MaximumAttempts
          MaxSessions,  \* maxAttempts of the session loop
          MaxFaults,    \* bound: requests that fail or whose answer is lost
          MaxLosses     \* bound: workers lost

ASSUME IngestAssumption == /\ NoTask \notin Tasks
                           /\ MaxTries \in Nat \ {0}
                           /\ MaxSessions \in Nat \ {0}
                           /\ MaxFaults \in Nat /\ MaxLosses \in Nat

VARIABLES tasks,   \* the import tasks in APIS
          pre,     \* the preprocessing workflow
          post,    \* the poststorage-apis workflow
          faults,
          losses

vars == <<tasks, pre, post, faults, losses>>

Decisions == {"", "cancel", "overwrite", "append", "unsupported"}
Outcomes  == {"success", "content error", "system error"}

\* task and decision are the custom metadata handed to poststorage.
Preprocessing ==
    [pc: {"submit", "analysis", "ask", "decide", "package", "ended"},
     tries: 1..MaxTries, task: Tasks \cup {NoTask}, decision: Decisions,
     outcome: Outcomes, canceled: BOOLEAN]

\* A context is "closing" while the step in which it ended may have an activity
\* running, and "done" from the next step on.
Context == {"open", "closing", "done"}

PostPC == {"idle", "session", "path", "mets", "run", "import", "cleanup", "retry", "ended"}

\* outcome is that of the result all sessions share, at the step that set it to
\* an error last, imported: this session saw a successful import.  returned is
\* what Execute gives Enduro: an outcome, an error, or neither.
Poststorage ==
    [pc: PostPC, attempt: 1..MaxSessions, tries: 1..MaxTries, outcome: Outcomes,
     at: PostPC, imported: BOOLEAN, root: Context, lost: Context,
     returned: Outcomes \cup {"", "error", "nothing"}]

TypeOK ==
    /\ tasks \in [Tasks -> Task]
    /\ pre \in Preprocessing
    /\ post \in Poststorage
    /\ faults \in 0..MaxFaults
    /\ losses \in 0..MaxLosses

Init ==
    /\ tasks = [t \in Tasks |-> Unknown]
    /\ pre = [pc |-> "submit", tries |-> 1, task |-> NoTask, decision |-> "",
              outcome |-> "success", canceled |-> FALSE]
    /\ post = [pc |-> "idle", attempt |-> 1, tries |-> 1, outcome |-> "success",
               at |-> "idle", imported |-> FALSE, root |-> "open", lost |-> "open",
               returned |-> ""]
    /\ faults = 0
    /\ losses = 0

Fault   == faults < MaxFaults /\ faults' = faults + 1
NoFault == UNCHANGED faults

(***************************************************************************)
(* createAPISImportTask                                                    *)
(***************************************************************************)
PreGoto(pc) == [pre EXCEPT !.pc = pc, !.tries = 1]
PreEnds(outcome) == [PreGoto("ended") EXCEPT !.outcome = outcome]

\* The workflow after an attempt that failed with a retryable error.
PreRetries ==
    IF pre.tries < MaxTries /\ ~pre.canceled
    THEN [pre EXCEPT !.tries = @ + 1] ELSE PreEnds("system error")

\* The submission is not idempotent: an attempt whose answer is lost leaves a
\* task behind.  Only missing default values are the fault of the content.
SubmitMetadata ==
    /\ pre.pc = "submit"
    /\ \/ \E t \in Tasks, analysis \in AnalysisResults :
             /\ tasks[t] = Unknown
             /\ tasks' = [tasks EXCEPT ![t] = Created(analysis)]
             /\ \/ NoFault /\ pre' = [PreGoto("analysis") EXCEPT !.task = t]
                \/ Fault /\ pre' = PreRetries
       \/ UNCHANGED tasks /\ Fault /\ pre' = PreRetries
       \/ /\ UNCHANGED tasks /\ NoFault
          /\ pre' \in {PreEnds("content error"), PreEnds("system error")}
    /\ UNCHANGED <<post, losses>>

\* Faulty: a canceled task is polled on.
AnalysisNextPatient(t) ==
    CASE t.status \in {"Neu", "InAnalyse", "Abgebrochen"} -> pre
      [] t.status = "Analysiert" /\ t.analysis \in {"AlleNeu", "AlleGleich"} ->
            PreGoto("package")
      [] t.status = "Analysiert" /\ t.analysis = "Konflikte" -> PreGoto("ask")
      [] OTHER -> PreEnds("system error")

\* The workflow after a status request showed the task t.
AnalysisNext(t) ==
    CASE t.status \in {"Neu", "InAnalyse"} -> pre
      [] t.status = "Analysiert" /\ t.analysis \in {"AlleNeu", "AlleGleich"} ->
            PreGoto("package")
      [] t.status = "Analysiert" /\ t.analysis = "Konflikte" -> PreGoto("ask")
      [] OTHER -> PreEnds("system error")

PollAnalysis ==
    /\ pre.pc = "analysis"
    /\ LET seen == Advanced(tasks[pre.task]) IN
       \/ /\ NoFault
          /\ tasks' = [tasks EXCEPT ![pre.task] = seen]
          /\ pre' = AnalysisNext(seen)
       \/ /\ Fault
          /\ \/ /\ tasks' \in {tasks, [tasks EXCEPT ![pre.task] = seen]}
                /\ pre' = PreRetries
             \/ UNCHANGED tasks /\ pre' = PreEnds("system error")
    /\ UNCHANGED <<post, losses>>

\* The decision request is signalled to the parent workflow, without retries.
AskForDecision ==
    /\ pre.pc = "ask"
    /\ \/ NoFault /\ pre' = PreGoto("decide")
       \/ Fault /\ pre' = PreEnds("system error")
    /\ UNCHANGED <<tasks, post, losses>>

\* Faulty: what is not a cancellation lets the ingest continue.
DecideLax ==
    /\ pre.pc = "decide"
    /\ \E decision \in Decisions \ {""} :
          pre' = [IF decision = "cancel" THEN PreEnds("content error")
                  ELSE PreGoto("package") EXCEPT !.decision = decision]
    /\ UNCHANGED <<tasks, post, faults, losses>>

\* A person answers.  The wait has no timeout, and a cancellation of the
\* workflow does not end it.
Decide ==
    /\ pre.pc = "decide"
    /\ \E decision \in Decisions \ {""} :
          pre' = [CASE decision \in {"overwrite", "append"} -> PreGoto("package")
                    [] decision = "cancel" -> PreEnds("content error")
                    [] OTHER -> PreEnds("system error") EXCEPT !.decision = decision]
    /\ UNCHANGED <<tasks, post, faults, losses>>

\* The steps from premis.xml to the bag, each ending the workflow if it fails.
Package ==
    /\ pre.pc = "package"
    /\ pre' \in {PreEnds("success"), PreEnds("system error")}
    /\ UNCHANGED <<tasks, post, faults, losses>>

\* A canceled workflow's activities return an error.
PreCanceled ==
    /\ pre.canceled
    /\ pre.pc \in {"submit", "analysis", "ask", "package"}
    /\ pre' = PreEnds("system error")
    /\ UNCHANGED <<tasks, post, faults, losses>>

(***************************************************************************)
(* poststorage-apis                                                        *)
(***************************************************************************)
Runnable  == post.root # "done" /\ post.lost # "done"
Stoppable == post.root # "open" \/ post.lost # "open"

Passed(context) == IF context = "open" THEN "open" ELSE "done"

Goto(pc) == [post EXCEPT !.pc = pc, !.tries = 1,
                         !.root = Passed(@), !.lost = Passed(@)]

\* Every error of an activity, the loss of its worker included, is recorded as a
\* system error in the result, and the handler returns nil.
Fails == [Goto("cleanup") EXCEPT !.outcome = "system error", !.at = post.pc]

Retries == IF post.tries < MaxTries /\ ~Stoppable
           THEN [post EXCEPT !.tries = @ + 1] ELSE Fails

MyTask == tasks[pre.task]
Becomes(t) == [tasks EXCEPT ![pre.task] = t]

\* CustomMetadata.ImportBehaviour for the decisions that continue.
ImportBehaviour ==
    IF pre.decision = "overwrite" THEN "OverwriteAndAppend" ELSE "AppendOnly"

\* Enduro runs the workflow when the AIP of a successful preprocessing is stored.
Stored ==
    /\ pre.pc = "ended" /\ pre.outcome = "success"
    /\ post.pc = "idle"
    /\ post' = Goto("session")
    /\ UNCHANGED <<tasks, pre, faults, losses>>

CreateSession ==
    /\ post.pc = "session"
    /\ \/ /\ post.root # "done"
          /\ post' = [Goto("path") EXCEPT !.lost = "open", !.imported = FALSE]
       \/ post' = [Goto("ended") EXCEPT !.returned = "error"]
    /\ UNCHANGED <<tasks, pre, faults, losses>>

\* get-aip-path and fetch-aip-file with all their retries.
DownloadMETS ==
    /\ post.pc \in {"path", "mets"}
    /\ \/ Runnable /\ post' = Goto(IF post.pc = "path" THEN "mets" ELSE "run")
       \/ post' = Fails
    /\ UNCHANGED <<tasks, pre, faults, losses>>

\* An attempt of create-apis-import-run.  APIS refuses a second run with a bad
\* request, which is not retried; an abandoned attempt may still reach APIS.
CreateImportRun ==
    /\ post.pc = "run"
    /\ LET runs == IF Runnable /\ RunAccepted(MyTask)
                   THEN {Becomes(WithRun(MyTask, ImportBehaviour, import)) :
                            import \in ImportResults}
                   ELSE {}
       IN  \/ Runnable /\ NoFault /\ tasks' \in runs /\ post' = Goto("import")
           \/ /\ Runnable /\ NoFault /\ ~RunAccepted(MyTask)
              /\ UNCHANGED tasks /\ post' = Fails
           \/ /\ Runnable /\ Fault
              /\ \/ tasks' \in {tasks} \cup runs /\ post' = Retries
                 \/ UNCHANGED tasks /\ post' = Fails
           \/ Stoppable /\ NoFault /\ tasks' \in {tasks} \cup runs /\ post' = Fails
    /\ UNCHANGED <<pre, losses>>

\* Faulty: the result of the import is not looked at.
ImportNextAnyResult(t) ==
    CASE t.status \in {"Analysiert", "WirdImportiert"} -> post
      [] t.status = "Importiert" -> [Goto("cleanup") EXCEPT !.imported = TRUE]
      [] OTHER -> Fails

\* Faulty: a canceled task is polled on.
ImportNextPatient(t) ==
    CASE t.status \in {"Analysiert", "WirdImportiert", "Abgebrochen"} -> post
      [] t.status = "Importiert" /\ t.import = "Erfolgreich" ->
            [Goto("cleanup") EXCEPT !.imported = TRUE]
      [] OTHER -> Fails

\* The workflow after a status request showed the task t.
ImportNext(t) ==
    CASE t.status \in {"Analysiert", "WirdImportiert"} -> post
      [] t.status = "Importiert" /\ t.import = "Erfolgreich" ->
            [Goto("cleanup") EXCEPT !.imported = TRUE]
      [] OTHER -> Fails

PollImport ==
    /\ post.pc = "import"
    /\ LET seen == Advanced(MyTask) IN
       \/ /\ Runnable /\ NoFault
          /\ tasks' = Becomes(seen)
          /\ post' = ImportNext(seen)
       \/ /\ Runnable /\ Fault
          /\ \/ tasks' \in {tasks, Becomes(seen)} /\ post' = Retries
             \/ UNCHANGED tasks /\ post' = Fails
       \/ Stoppable /\ NoFault /\ UNCHANGED tasks /\ post' = Fails
    /\ UNCHANGED <<pre, losses>>

\* The deferred clean-up runs in the session's context, so its error is what
\* tells Execute that the session was stopped; another error of it is returned.
Cleanup ==
    /\ post.pc = "cleanup"
    /\ \/ Runnable /\ post' = [Goto("ended") EXCEPT !.returned = post.outcome]
       \/ Runnable /\ post' = [Goto("ended") EXCEPT !.returned = "error"]
       \/ /\ Stoppable
          /\ post' = IF post.root = "open" THEN Goto("retry")
                     ELSE [Goto("ended") EXCEPT !.returned = "nothing"]
    /\ UNCHANGED <<tasks, pre, faults, losses>>

RetrySession ==
    /\ post.pc = "retry"
    /\ post' = IF post.attempt < MaxSessions
               THEN [Goto("session") EXCEPT !.attempt = @ + 1]
               ELSE [Goto("ended") EXCEPT !.returned = "error"]
    /\ UNCHANGED <<tasks, pre, faults, losses>>

(***************************************************************************)
(* The environment.                                                        *)
(***************************************************************************)
LoseWorker ==
    /\ losses < MaxLosses /\ losses' = losses + 1
    /\ post.pc \in {"path", "mets", "run", "import", "cleanup"}
    /\ post.lost = "open"
    /\ post' = [post EXCEPT !.lost = "closing"]
    /\ UNCHANGED <<tasks, pre, faults>>

\* A person cancels a task in APIS, which the workflows never do.
CancelTask(t) ==
    /\ Cancelable(tasks[t]) /\ tasks[t].status # "Abgebrochen"
    /\ tasks' = [tasks EXCEPT ![t] = Canceled(tasks[t])]
    /\ UNCHANGED <<pre, post, faults, losses>>

CancelWorkflow ==
    /\ \/ /\ pre.pc # "ended" /\ ~pre.canceled
          /\ pre' = [pre EXCEPT !.canceled = TRUE]
          /\ UNCHANGED post
       \/ /\ post.pc \notin {"idle", "ended"} /\ post.root = "open"
          /\ post' = [post EXCEPT !.root = "closing"]
          /\ UNCHANGED pre
    /\ UNCHANGED <<tasks, faults, losses>>

PreStep  == SubmitMetadata \/ PollAnalysis \/ AskForDecision \/ Package \/ PreCanceled
PostStep == CreateSession \/ DownloadMETS \/ CreateImportRun \/ PollImport
               \/ Cleanup \/ RetrySession

Next ==
    \/ PreStep \/ Decide \/ Stored \/ PostStep
    \/ LoseWorker \/ CancelWorkflow
    \/ \E t \in Tasks : CancelTask(t)

\* The workers run; a person need not answer, nor Enduro store the AIP.
Fairness == WF_vars(PreStep) /\ WF_vars(PostStep)

(***************************************************************************)
(* Properties.                                                             *)
(***************************************************************************)

\* An ingest that reports success has been imported with the behaviour the
\* decision asks for, and APIS says so: whatever was retried or canceled, success
\* is never read off another phase or another task.
SuccessIsImported ==
    post.returned = "success" =>
        /\ MyTask.status = "Importiert" /\ MyTask.import = "Erfolgreich"
        /\ MyTask.run = ImportBehaviour

\* Nothing is imported over conflicts nobody decided on, overwritten without the
\* decision to overwrite, or imported from a submission other than the recorded
\* one: attempts that left extra tasks in APIS stay without effect.
ConflictsAreDecided ==
    \A t \in Tasks : tasks[t].run # "none" =>
        /\ t = pre.task /\ pre.outcome = "success" /\ pre.pc = "ended"
        /\ tasks[t].analysis = "Konflikte" => pre.decision \in {"overwrite", "append"}
        /\ tasks[t].run = "OverwriteAndAppend" => pre.decision = "overwrite"

\* A task that was imported or canceled stays so: no poll, retried run or late
\* cancellation moves it again.
TaskEndsOnce ==
    [][\A t \in Tasks :
          tasks[t].status \in {"Importiert", "Abgebrochen"} => tasks'[t] = tasks[t]]_vars

\* Preprocessing ends or waits for a person, also when the task is canceled in
\* APIS while it is polled.
PreprocessingSettles == <>[](pre.pc \in {"ended", "decide"})

\* Post-storage ends once it has started, also when its task is canceled in APIS.
PoststorageEnds == post.pc = "session" ~> post.pc = "ended"

(***************************************************************************)
(* What comments and messages say and the code does not do.                *)
(***************************************************************************)

\* "We want to retry the session": a repeated session can make good a lost one.
RetriedSessionCounts ==
    post.pc = "ended" /\ post.imported /\ post.returned \in Outcomes
        => post.returned = "success"

Spec     == Init /\ [][Next]_vars
FairSpec == Spec /\ Fairness
==============================================================================
