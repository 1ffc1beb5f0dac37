-------------------------- MODULE ApisIngest_proofs --------------------------
(***************************************************************************)
(* Proofs about ApisIngest.  They hold for every set of task IDs and every *)
(* number of attempts, sessions, faults and worker losses.                 *)
(***************************************************************************)
EXTENDS ApisIngest, TLAPS

(***************************************************************************)
(* What the endpoints do with one task.                                    *)
(***************************************************************************)

\* A poll counter is reset before it could run over, and an import has a run.
Ordered(t) ==
    /\ t.status \in {"Neu", "WirdImportiert"} => t.polls <= 1
    /\ t.status \in {"WirdImportiert", "Importiert"} => t.run # "none"

\* A created task is a well-formed one without a run.
LEMMA CreatedIsTask ==
    ASSUME NEW analysis \in AnalysisResults
    PROVE  /\ Created(analysis) \in Task
           /\ Ordered(Created(analysis))
           /\ Created(analysis).run = "none"
<1>1. Unknown \in Task
  BY DEF Unknown, Task, TaskStatus, AnalysisResults, ImportResults
<1>2. Created(analysis) \in Task
  BY <1>1 DEF Created, Task, TaskStatus
<1>3. Created(analysis).run = "none" /\ Created(analysis).polls = 0
      /\ Created(analysis).status = "Neu"
  BY DEF Created, Unknown
<1> QED
  BY <1>2, <1>3 DEF Ordered

\* A status request keeps the analysis and the run, and does not move a task that
\* was imported or canceled.
LEMMA AdvancedKeeps ==
    ASSUME NEW t \in Task, Ordered(t)
    PROVE  /\ Advanced(t) \in Task
           /\ Ordered(Advanced(t))
           /\ Advanced(t).analysis = t.analysis
           /\ Advanced(t).run = t.run
           /\ t.status \in {"Importiert", "Abgebrochen"} => Advanced(t) = t
<1>1. CASE t.status = "Neu"
  <2>1. t.polls + 1 \in 0..2
    BY <1>1 DEF Task, Ordered
  <2>2. t.polls = 0 => t.polls + 1 <= 1
    OBVIOUS
  <2>3. Advanced(t) = [t EXCEPT !.polls = t.polls + 1,
                                !.status = IF t.polls = 0 THEN t.status ELSE "InAnalyse"]
    BY <1>1 DEF Advanced
  <2> QED
    BY <1>1, <2>1, <2>2, <2>3 DEF Ordered, Task, TaskStatus
<1>2. CASE t.status = "InAnalyse"
  <2>1. Advanced(t) = [t EXCEPT !.status = "Analysiert"]
    BY <1>2 DEF Advanced
  <2> QED
    BY <1>2, <2>1 DEF Ordered, Task, TaskStatus
<1>3. CASE t.status = "WirdImportiert"
  <2>1. t.polls + 1 \in 0..2
    BY <1>3 DEF Task, Ordered
  <2>2. t.polls = 0 => t.polls + 1 <= 1
    OBVIOUS
  <2>3. Advanced(t) = [t EXCEPT !.polls = t.polls + 1,
                                !.status = IF t.polls = 0 THEN t.status ELSE "Importiert"]
    BY <1>3 DEF Advanced
  <2>4. Advanced(t) \in Task
    BY <1>3, <2>1, <2>3 DEF Task, TaskStatus
  <2>5. /\ Advanced(t).run = t.run /\ Advanced(t).analysis = t.analysis
        /\ Advanced(t).polls = t.polls + 1
        /\ Advanced(t).status = IF t.polls = 0 THEN t.status ELSE "Importiert"
    BY <2>3 DEF Task
  <2> QED
    BY <1>3, <2>2, <2>4, <2>5 DEF Ordered
<1>4. CASE t.status \notin {"Neu", "InAnalyse", "WirdImportiert"}
  <2>1. Advanced(t) = t
    BY <1>4 DEF Advanced
  <2> QED
    BY <2>1
<1> QED
  BY <1>1, <1>2, <1>3, <1>4

\* A cancellation keeps the analysis and the run.
LEMMA CanceledKeeps ==
    ASSUME NEW t \in Task
    PROVE  /\ Canceled(t) \in Task
           /\ Ordered(Canceled(t))
           /\ Canceled(t).analysis = t.analysis
           /\ Canceled(t).run = t.run
BY DEF Canceled, Ordered, Task, TaskStatus

\* An import run keeps the analysis and carries the behaviour asked for.
LEMMA WithRunKeeps ==
    ASSUME NEW t \in Task, NEW behaviour \in Behaviours, NEW import \in ImportResults
    PROVE  /\ WithRun(t, behaviour, import) \in Task
           /\ Ordered(WithRun(t, behaviour, import))
           /\ WithRun(t, behaviour, import).analysis = t.analysis
           /\ WithRun(t, behaviour, import).run = behaviour
<1> DEFINE u == [t EXCEPT !.run = behaviour, !.status = "WirdImportiert"]
<1>1. u \in Task /\ u.analysis = t.analysis /\ u.run = behaviour
      /\ u.status = "WirdImportiert" /\ behaviour # "none"
  BY DEF Task, TaskStatus, Behaviours
<1> DEFINE v == [u EXCEPT !.polls = 0]
<1>2. WithRun(t, behaviour, import) = [v EXCEPT !.import = import]
  BY DEF WithRun
<1> HIDE DEF u
<1>3. v \in Task /\ v.analysis = t.analysis /\ v.run = behaviour /\ v.polls = 0
  BY <1>1 DEF Task
<1> HIDE DEF v
<1>4. /\ WithRun(t, behaviour, import) \in Task
      /\ WithRun(t, behaviour, import).run = behaviour
      /\ WithRun(t, behaviour, import).polls = 0
      /\ WithRun(t, behaviour, import).analysis = t.analysis
  BY <1>2, <1>3 DEF Task
<1> QED
  BY <1>1, <1>4 DEF Ordered

(***************************************************************************)
(* The inductive invariant.                                                *)
(***************************************************************************)

\* A task is known once it was submitted, and conflicts are decided before the
\* ingest is packaged.
TaskIsDecided ==
    /\ pre.pc \in {"analysis", "ask", "decide", "package"} => pre.task \in Tasks
    /\ pre.pc = "ended" /\ pre.outcome = "success" => pre.task \in Tasks
    /\ pre.pc = "package" \/ (pre.pc = "ended" /\ pre.outcome = "success") =>
          (tasks[pre.task].analysis = "Konflikte" => pre.decision \in {"overwrite", "append"})

PoststorageFollows ==
    post.pc # "idle" => pre.pc = "ended" /\ pre.outcome = "success"

\* An import run is the one the decision asks for.
RunFollowsDecision ==
    \A t \in Tasks : tasks[t].run # "none" =>
        /\ t = pre.task /\ post.pc # "idle"
        /\ tasks[t].run = ImportBehaviour

MyTaskImported ==
    /\ MyTask.status = "Importiert" /\ MyTask.import = "Erfolgreich"
    /\ MyTask.run = ImportBehaviour

SuccessIsSeen ==
    /\ post.pc = "cleanup" /\ post.outcome = "success" => MyTaskImported
    /\ post.returned = "success" => post.pc = "ended" /\ MyTaskImported

TypeInv   == TypeOK /\ \A t \in Tasks : Ordered(tasks[t])
IngestInv == TypeInv /\ TaskIsDecided /\ PoststorageFollows /\ RunFollowsDecision
                     /\ SuccessIsSeen

(***************************************************************************)
(* What the helpers make of the workflows.                                 *)
(***************************************************************************)
LEMMA PreAfter ==
    ASSUME TypeOK
    PROVE  /\ \A pc \in {"submit", "analysis", "ask", "decide", "package", "ended"} :
                 /\ PreGoto(pc) \in Preprocessing
                 /\ PreGoto(pc).pc = pc
                 /\ PreGoto(pc).task = pre.task
                 /\ PreGoto(pc).decision = pre.decision
           /\ \A outcome \in Outcomes :
                 /\ PreEnds(outcome) \in Preprocessing
                 /\ PreEnds(outcome).pc = "ended"
                 /\ PreEnds(outcome).outcome = outcome
                 /\ PreEnds(outcome).task = pre.task
                 /\ PreEnds(outcome).decision = pre.decision
<1>1. pre \in Preprocessing /\ 1 \in 1..MaxTries
  BY IngestAssumption DEF TypeOK
<1>2. ASSUME NEW pc \in {"submit", "analysis", "ask", "decide", "package", "ended"}
      PROVE  /\ PreGoto(pc) \in Preprocessing
             /\ PreGoto(pc).pc = pc
             /\ PreGoto(pc).task = pre.task
             /\ PreGoto(pc).decision = pre.decision
  BY <1>1 DEF PreGoto, Preprocessing
<1>3. ASSUME NEW outcome \in Outcomes
      PROVE  /\ PreEnds(outcome) \in Preprocessing
             /\ PreEnds(outcome).pc = "ended"
             /\ PreEnds(outcome).outcome = outcome
             /\ PreEnds(outcome).task = pre.task
             /\ PreEnds(outcome).decision = pre.decision
  <2>1. /\ PreGoto("ended") \in Preprocessing
        /\ PreGoto("ended").pc = "ended"
        /\ PreGoto("ended").task = pre.task
        /\ PreGoto("ended").decision = pre.decision
    BY <1>2
  <2> QED
    BY <2>1 DEF PreEnds, Preprocessing
<1> QED
  BY <1>2, <1>3

\* A failed attempt is repeated or ends the workflow with a system error.
LEMMA PreRetriesAfter ==
    ASSUME TypeOK
    PROVE  /\ PreRetries \in Preprocessing
           /\ PreRetries.task = pre.task /\ PreRetries.decision = pre.decision
           /\ \/ PreRetries.pc = pre.pc /\ PreRetries.outcome = pre.outcome
              \/ PreRetries.pc = "ended" /\ PreRetries.outcome = "system error"
<1>1. CASE pre.tries < MaxTries /\ ~pre.canceled
  <2>1. pre \in Preprocessing /\ pre.tries + 1 \in 1..MaxTries
    BY <1>1, IngestAssumption DEF TypeOK, Preprocessing
  <2>2. PreRetries = [pre EXCEPT !.tries = pre.tries + 1]
    BY <1>1 DEF PreRetries
  <2> QED
    BY <2>1, <2>2 DEF Preprocessing
<1>2. CASE ~(pre.tries < MaxTries /\ ~pre.canceled)
  <2>1. PreRetries = PreEnds("system error") /\ "system error" \in Outcomes
    BY <1>2 DEF PreRetries, Outcomes
  <2> QED
    BY <2>1, PreAfter
<1> QED
  BY <1>1, <1>2

\* A step ahead keeps the result.
LEMMA PostAfter ==
    ASSUME TypeOK
    PROVE  /\ \A pc \in PostPC :
                 /\ Goto(pc) \in Poststorage
                 /\ Goto(pc).pc = pc
                 /\ Goto(pc).outcome = post.outcome
                 /\ Goto(pc).returned = post.returned
           /\ Fails \in Poststorage
           /\ Fails.pc = "cleanup" /\ Fails.outcome = "system error"
           /\ Fails.returned = post.returned
<1>1. post \in Poststorage /\ 1 \in 1..MaxTries
  BY IngestAssumption DEF TypeOK
<1>2. Passed(post.root) \in Context /\ Passed(post.lost) \in Context
  BY DEF Passed, Context
<1>3. ASSUME NEW pc \in PostPC
      PROVE  /\ Goto(pc) \in Poststorage
             /\ Goto(pc).pc = pc
             /\ Goto(pc).outcome = post.outcome
             /\ Goto(pc).returned = post.returned
  <2> DEFINE s == [post EXCEPT !.pc = pc, !.tries = 1]
  <2>1. /\ s \in Poststorage /\ s.pc = pc /\ s.outcome = post.outcome
        /\ s.returned = post.returned /\ s.root = post.root /\ s.lost = post.lost
    BY <1>1 DEF Poststorage
  <2>2. Goto(pc) = [s EXCEPT !.root = Passed(post.root), !.lost = Passed(post.lost)]
    BY DEF Goto, Passed
  <2> HIDE DEF s
  <2> QED
    BY <1>2, <2>1, <2>2 DEF Poststorage
<1>4. /\ Goto("cleanup") \in Poststorage /\ Goto("cleanup").pc = "cleanup"
      /\ Goto("cleanup").returned = post.returned
  BY <1>3 DEF PostPC
<1>5. Fails \in Poststorage /\ Fails.pc = "cleanup" /\ Fails.outcome = "system error"
      /\ Fails.returned = post.returned
  BY <1>1, <1>4 DEF Fails, Poststorage, Outcomes
<1> QED
  BY <1>3, <1>5

\* A failed attempt is repeated or recorded as a system error.
LEMMA RetriesAfter ==
    ASSUME TypeOK
    PROVE  /\ Retries \in Poststorage
           /\ Retries.returned = post.returned
           /\ \/ Retries.pc = post.pc /\ Retries.outcome = post.outcome
              \/ Retries.pc = "cleanup" /\ Retries.outcome = "system error"
<1>1. CASE post.tries < MaxTries /\ ~Stoppable
  <2>1. post \in Poststorage
    BY DEF TypeOK
  <2>2. post.tries \in 1..MaxTries
    BY <2>1 DEF Poststorage
  <2>3. post.tries + 1 \in 1..MaxTries
    BY <1>1, <2>2, IngestAssumption
  <2>4. Retries = [post EXCEPT !.tries = post.tries + 1]
    BY <1>1 DEF Retries
  <2> QED
    BY <2>1, <2>3, <2>4 DEF Poststorage
<1>2. CASE ~(post.tries < MaxTries /\ ~Stoppable)
  BY <1>2, PostAfter DEF Retries
<1> QED
  BY <1>1, <1>2

(***************************************************************************)
(* Type correctness.                                                       *)
(***************************************************************************)

\* What a status request shows sends the workflows to one of their steps.
LEMMA AnalysisNextAfter ==
    ASSUME TypeOK, NEW t \in Task, pre.pc = "analysis"
    PROVE  /\ AnalysisNext(t) \in Preprocessing
           /\ AnalysisNext(t).task = pre.task
           /\ AnalysisNext(t).decision = pre.decision
           /\ \/ AnalysisNext(t).pc \in {"analysis", "ask"}
              \/ AnalysisNext(t).pc = "package" /\ t.analysis # "Konflikte"
              \/ AnalysisNext(t).pc = "ended" /\ AnalysisNext(t).outcome = "system error"
<1>1. pre \in Preprocessing /\ "system error" \in Outcomes
  BY DEF TypeOK, Outcomes
<1>2. AnalysisNext(t) \in {pre, PreGoto("package"), PreGoto("ask"), PreEnds("system error")}
  BY DEF AnalysisNext
<1>3. AnalysisNext(t) = PreGoto("package") => t.analysis # "Konflikte"
  <2>1. PreGoto("package").pc = "package" /\ PreGoto("ask").pc = "ask"
        /\ PreEnds("system error").pc = "ended"
    BY <1>1, PreAfter
  <2> QED
    BY <2>1 DEF AnalysisNext
<1> QED
  BY <1>1, <1>2, <1>3, PreAfter, ZenonT(30)

\* After a look at a finished import run the workflow stays, or goes to its clean-up
\* with a success only for an import that APIS reports successful.
LEMMA ImportNextAfter ==
    ASSUME TypeOK, NEW t \in Task, post.pc = "import"
    PROVE  /\ ImportNext(t) \in Poststorage
           /\ ImportNext(t).returned = post.returned
           /\ \/ ImportNext(t).pc = "import"
              \/ /\ ImportNext(t).pc = "cleanup"
                 /\ \/ t.status = "Importiert" /\ t.import = "Erfolgreich"
                    \/ ImportNext(t).outcome = "system error"
<1>1. post \in Poststorage
  BY DEF TypeOK
<1> DEFINE s == [Goto("cleanup") EXCEPT !.imported = TRUE]
<1>2. Goto("cleanup") \in Poststorage /\ Goto("cleanup").pc = "cleanup"
      /\ Goto("cleanup").returned = post.returned
  BY PostAfter DEF PostPC
<1>3. s \in Poststorage /\ s.pc = "cleanup" /\ s.returned = post.returned
  BY <1>2 DEF Poststorage
<1>4. \/ ImportNext(t) = post
      \/ ImportNext(t) = s /\ t.status = "Importiert" /\ t.import = "Erfolgreich"
      \/ ImportNext(t) = Fails
  BY DEF ImportNext
<1> HIDE DEF s
<1> QED
  BY <1>1, <1>3, <1>4, PostAfter

\* A new value of one task keeps the tasks well-formed.
LEMMA OneTaskChanged ==
    ASSUME TypeInv, NEW id \in Tasks, NEW u \in Task, Ordered(u)
    PROVE  /\ [tasks EXCEPT ![id] = u] \in [Tasks -> Task]
           /\ \A t \in Tasks : Ordered([tasks EXCEPT ![id] = u][t])
BY DEF TypeInv, TypeOK

\* What an attempt to create an import run can leave in APIS.
LEMMA RunsAfter ==
    ASSUME TypeInv, pre.task \in Tasks,
           NEW new \in {Becomes(WithRun(MyTask, ImportBehaviour, import)) :
                           import \in ImportResults}
    PROVE  /\ new \in [Tasks -> Task]
           /\ \A t \in Tasks : Ordered(new[t])
           /\ \A t \in Tasks \ {pre.task} : new[t] = tasks[t]
           /\ new[pre.task].run = ImportBehaviour
           /\ new[pre.task].analysis = MyTask.analysis
<1>1. MyTask \in Task /\ ImportBehaviour \in Behaviours
  BY DEF TypeInv, TypeOK, MyTask, ImportBehaviour, Behaviours
<1>2. PICK import \in ImportResults :
        new = Becomes(WithRun(MyTask, ImportBehaviour, import))
  OBVIOUS
<1> DEFINE u == WithRun(MyTask, ImportBehaviour, import)
<1>3. u \in Task /\ Ordered(u) /\ u.run = ImportBehaviour /\ u.analysis = MyTask.analysis
  BY <1>1, WithRunKeeps
<1>4. new = [tasks EXCEPT ![pre.task] = u]
  BY <1>2 DEF Becomes
<1> HIDE DEF u
<1>5. new \in [Tasks -> Task] /\ \A t \in Tasks : Ordered(new[t])
  BY <1>3, <1>4, OneTaskChanged
<1> QED
  BY <1>3, <1>4, <1>5 DEF TypeInv, TypeOK

\* A poll shows the task as it is afterwards.
LEMMA SeenIsTask ==
    ASSUME TypeInv, NEW id \in Tasks
    PROVE  /\ Advanced(tasks[id]) \in Task /\ Ordered(Advanced(tasks[id]))
           /\ [tasks EXCEPT ![id] = Advanced(tasks[id])] \in [Tasks -> Task]
           /\ \A t \in Tasks : Ordered([tasks EXCEPT ![id] = Advanced(tasks[id])][t])
<1>1. tasks[id] \in Task /\ Ordered(tasks[id])
  BY DEF TypeInv, TypeOK
<1> QED
  BY <1>1, AdvancedKeeps, OneTaskChanged

\* A fault stays within its bound.
LEMMA FaultsInBound ==
    ASSUME TypeOK, Fault \/ NoFault
    PROVE  faults' \in 0..MaxFaults
BY IngestAssumption DEF TypeOK, Fault, NoFault

\* Where the workflows are when they use the task.
LEMMA TaskInUse ==
    ASSUME IngestInv
    PROVE  /\ pre.pc \in {"analysis", "ask", "decide", "package"} => pre.task \in Tasks
           /\ post.pc # "idle" => pre.task \in Tasks /\ pre.pc = "ended"
                                    /\ pre.outcome = "success"
BY DEF IngestInv, TaskIsDecided, PoststorageFollows

\* Every step keeps the types and the order of what a task has seen.
LEMMA TypeInvStep ==
    ASSUME IngestInv, [Next]_vars
    PROVE  TypeInv'
<1> USE DEF Outcomes
<1>1. TypeInv /\ TypeOK
  BY DEF IngestInv, TypeInv
<1>2. /\ tasks \in [Tasks -> Task] /\ pre \in Preprocessing /\ post \in Poststorage
      /\ faults \in 0..MaxFaults /\ losses \in 0..MaxLosses
      /\ \A t \in Tasks : Ordered(tasks[t])
  BY <1>1 DEF TypeInv, TypeOK
<1>3. ASSUME tasks' \in [Tasks -> Task], \A t \in Tasks : Ordered(tasks'[t]),
             pre' \in Preprocessing, post' \in Poststorage,
             faults' \in 0..MaxFaults, losses' \in 0..MaxLosses
      PROVE  TypeInv'
  BY <1>3 DEF TypeInv, TypeOK
<1>4. CASE SubmitMetadata
  <2>1. pre' \in Preprocessing
    <3>1. ASSUME NEW t \in Tasks, pre' = [PreGoto("analysis") EXCEPT !.task = t]
          PROVE  pre' \in Preprocessing
      <4>1. PreGoto("analysis") \in Preprocessing
        BY <1>1, PreAfter
      <4> QED
        BY <3>1, <4>1 DEF Preprocessing
    <3> QED
      BY <1>1, <1>4, <3>1, PreAfter, PreRetriesAfter DEF SubmitMetadata
  <2>2. tasks' \in [Tasks -> Task] /\ \A t \in Tasks : Ordered(tasks'[t])
    BY <1>1, <1>2, <1>4, CreatedIsTask, OneTaskChanged DEF SubmitMetadata
  <2> QED
    BY <1>1, <1>2, <1>3, <1>4, <2>1, <2>2, FaultsInBound DEF SubmitMetadata
<1>5. CASE PollAnalysis
  <2>1. pre.task \in Tasks
    BY <1>5, TaskInUse DEF PollAnalysis
  <2>2. tasks' \in [Tasks -> Task] /\ \A t \in Tasks : Ordered(tasks'[t])
    BY <1>1, <1>2, <1>5, <2>1, SeenIsTask DEF PollAnalysis
  <2>3. pre' \in Preprocessing
    <3>1. Advanced(tasks[pre.task]) \in Task /\ pre.pc = "analysis"
      BY <1>1, <1>5, <2>1, SeenIsTask DEF PollAnalysis
    <3>2. AnalysisNext(Advanced(tasks[pre.task])) \in Preprocessing
      BY <1>1, <3>1, AnalysisNextAfter
    <3>3. PreRetries \in Preprocessing /\ PreEnds("system error") \in Preprocessing
      BY <1>1, PreAfter, PreRetriesAfter
    <3> QED
      BY <1>5, <3>2, <3>3 DEF PollAnalysis
  <2> QED
    BY <1>1, <1>2, <1>3, <1>5, <2>2, <2>3, FaultsInBound DEF PollAnalysis
<1>6. CASE AskForDecision
  BY <1>1, <1>2, <1>3, <1>6, PreAfter, FaultsInBound DEF AskForDecision
<1>7. CASE Decide
  <2>1. pre' \in Preprocessing
    <3>1. PICK decision \in Decisions \ {""}, p \in Preprocessing :
            pre' = [p EXCEPT !.decision = decision]
      BY <1>1, <1>7, PreAfter DEF Decide
    <3> QED
      BY <3>1 DEF Preprocessing
  <2> QED
    BY <1>1, <1>2, <1>3, <1>7, <2>1 DEF Decide
<1>8. CASE Package \/ PreCanceled
  BY <1>1, <1>2, <1>3, <1>8, PreAfter DEF Package, PreCanceled
<1>9. CASE Stored \/ DownloadMETS
  BY <1>1, <1>2, <1>3, <1>9, PostAfter DEF Stored, DownloadMETS, PostPC
<1>10. CASE CreateSession
  <2>1. Goto("path") \in Poststorage /\ Goto("ended") \in Poststorage
    BY <1>1, PostAfter DEF PostPC
  <2>2. post' \in Poststorage
    BY <1>10, <2>1, ZenonT(30) DEF CreateSession, Poststorage, Context
  <2> QED
    BY <1>2, <1>3, <1>10, <2>2 DEF CreateSession
<1>11. CASE CreateImportRun
  <2>1. pre.task \in Tasks
    BY <1>11, TaskInUse DEF CreateImportRun
  <2>2. tasks' \in [Tasks -> Task] /\ \A t \in Tasks : Ordered(tasks'[t])
    BY <1>1, <1>2, <1>11, <2>1, RunsAfter DEF CreateImportRun
  <2>3. post' \in Poststorage
    BY <1>1, <1>11, PostAfter, RetriesAfter DEF CreateImportRun, PostPC
  <2> QED
    BY <1>1, <1>2, <1>3, <1>11, <2>2, <2>3, FaultsInBound DEF CreateImportRun
<1>12. CASE PollImport
  <2>1. pre.task \in Tasks
    BY <1>12, TaskInUse DEF PollImport
  <2>2. tasks' \in [Tasks -> Task] /\ \A t \in Tasks : Ordered(tasks'[t])
    BY <1>1, <1>2, <1>12, <2>1, SeenIsTask DEF PollImport, Becomes, MyTask
  <2>3. post' \in Poststorage
    <3>1. Advanced(MyTask) \in Task /\ post.pc = "import"
      BY <1>1, <1>12, <2>1, SeenIsTask DEF PollImport, MyTask
    <3>2. ImportNext(Advanced(MyTask)) \in Poststorage
      BY <1>1, <3>1, ImportNextAfter
    <3>3. Retries \in Poststorage /\ Fails \in Poststorage
      BY <1>1, PostAfter, RetriesAfter
    <3> QED
      BY <1>12, <3>2, <3>3 DEF PollImport
  <2> QED
    BY <1>1, <1>2, <1>3, <1>12, <2>2, <2>3, FaultsInBound DEF PollImport
<1>13. CASE Cleanup
  <2>1. Goto("ended") \in Poststorage /\ Goto("retry") \in Poststorage
    BY <1>1, PostAfter DEF PostPC
  <2>2. post' \in Poststorage
    BY <1>2, <1>13, <2>1, ZenonT(30) DEF Cleanup, Poststorage
  <2> QED
    BY <1>2, <1>3, <1>13, <2>2 DEF Cleanup
<1>14. CASE RetrySession
  <2>1. Goto("session") \in Poststorage /\ Goto("ended") \in Poststorage
    BY <1>1, PostAfter DEF PostPC
  <2>2. Goto("session").attempt = post.attempt
    BY <1>2 DEF Goto, Poststorage
  <2>3. post.attempt \in 1..MaxSessions
    BY <1>2 DEF Poststorage
  <2>4. post.attempt < MaxSessions => post.attempt + 1 \in 1..MaxSessions
    BY <2>3, IngestAssumption
  <2>5. post' \in Poststorage
    BY <1>14, <2>1, <2>4, <2>2 DEF RetrySession, Poststorage
  <2> QED
    BY <1>2, <1>3, <1>14, <2>5 DEF RetrySession
<1>15. CASE LoseWorker
  <2>1. post' \in Poststorage
    BY <1>2, <1>15 DEF LoseWorker, Poststorage, Context
  <2>2. losses' \in 0..MaxLosses
    BY <1>2, <1>15, IngestAssumption DEF LoseWorker
  <2> QED
    BY <1>2, <1>3, <1>15, <2>1, <2>2 DEF LoseWorker
<1>16. CASE \E t \in Tasks : CancelTask(t)
  <2>1. PICK t \in Tasks : CancelTask(t)
    BY <1>16
  <2>2. tasks[t] \in Task
    BY <1>2
  <2>3. tasks' \in [Tasks -> Task] /\ \A id \in Tasks : Ordered(tasks'[id])
    BY <1>1, <2>1, <2>2, CanceledKeeps, OneTaskChanged DEF CancelTask
  <2> QED
    BY <1>2, <1>3, <2>1, <2>3 DEF CancelTask
<1>17. CASE CancelWorkflow
  <2>1. pre' \in Preprocessing /\ post' \in Poststorage
    BY <1>2, <1>17 DEF CancelWorkflow, Preprocessing, Poststorage, Context
  <2> QED
    BY <1>2, <1>3, <1>17, <2>1 DEF CancelWorkflow
<1>18. CASE UNCHANGED vars
  BY <1>2, <1>3, <1>18 DEF vars
<1> QED
  BY <1>4, <1>5, <1>6, <1>7, <1>8, <1>9, <1>10, <1>11, <1>12, <1>13, <1>14, <1>15,
     <1>16, <1>17, <1>18 DEF Next, PreStep, PostStep

(***************************************************************************)
(* What a step does to a task, and to the two workflows.                   *)
(***************************************************************************)

\* A task keeps its analysis and its run; only post-storage gives its own task a
\* run, once; an imported or canceled task does not change at all.
LEMMA TaskSteps ==
    ASSUME IngestInv, [Next]_vars, NEW t \in Tasks
    PROVE  /\ pre.pc # "submit" => tasks'[t].analysis = tasks[t].analysis
           /\ \/ tasks'[t].run = tasks[t].run
              \/ /\ t = pre.task /\ post.pc = "run" /\ tasks[t].run = "none"
                 /\ tasks'[t].run = ImportBehaviour
           /\ tasks[t].status \in {"Importiert", "Abgebrochen"} => tasks'[t] = tasks[t]
<1>1. TypeInv /\ tasks \in [Tasks -> Task] /\ tasks[t] \in Task /\ Ordered(tasks[t])
  BY DEF IngestInv, TypeInv, TypeOK
<1>2. CASE tasks'[t] = tasks[t]
  BY <1>2
<1>3. CASE SubmitMetadata
  <2>1. \/ tasks'[t] = tasks[t]
        \/ /\ pre.pc = "submit" /\ tasks[t] = Unknown
           /\ \E analysis \in AnalysisResults : tasks'[t] = Created(analysis)
    BY <1>1, <1>3 DEF SubmitMetadata
  <2>2. Unknown.run = "none" /\ Unknown.status = "none"
    BY DEF Unknown
  <2> QED
    BY <2>1, <2>2, CreatedIsTask
<1>4. CASE tasks'[t] = Advanced(tasks[t])
  BY <1>1, <1>4, AdvancedKeeps
<1>5. CASE Cancelable(tasks[t]) /\ tasks[t].status # "Abgebrochen"
           /\ tasks'[t] = Canceled(tasks[t])
  BY <1>1, <1>5, CanceledKeeps DEF Cancelable
<1>6. CASE PollAnalysis
  <2>1. \/ tasks' = tasks
        \/ tasks' = [tasks EXCEPT ![pre.task] = Advanced(tasks[pre.task])]
    BY <1>6 DEF PollAnalysis
  <2>2. tasks'[t] = tasks[t] \/ tasks'[t] = Advanced(tasks[t])
    BY <1>1, <2>1
  <2> QED
    BY <1>2, <1>4, <2>2
<1>7. CASE PollImport
  <2>1. \/ tasks' = tasks
        \/ tasks' = [tasks EXCEPT ![pre.task] = Advanced(tasks[pre.task])]
    BY <1>7 DEF PollImport, Becomes, MyTask
  <2>2. tasks'[t] = tasks[t] \/ tasks'[t] = Advanced(tasks[t])
    BY <1>1, <2>1
  <2> QED
    BY <1>2, <1>4, <2>2
<1>8. CASE CreateImportRun
  <2>1. pre.task \in Tasks /\ post.pc = "run"
    BY <1>8, TaskInUse DEF CreateImportRun
  <2>2. \/ tasks' = tasks
        \/ /\ RunAccepted(MyTask)
           /\ tasks' \in {Becomes(WithRun(MyTask, ImportBehaviour, import)) :
                            import \in ImportResults}
    BY <1>8 DEF CreateImportRun
  <2>3. CASE RunAccepted(MyTask)
             /\ tasks' \in {Becomes(WithRun(MyTask, ImportBehaviour, import)) :
                             import \in ImportResults}
    BY <1>1, <2>1, <2>3, RunsAfter DEF RunAccepted, MyTask
  <2> QED
    BY <2>2, <2>3
<1>9. CASE \E id \in Tasks : CancelTask(id)
  BY <1>1, <1>2, <1>5, <1>9 DEF CancelTask
<1>10. CASE UNCHANGED tasks
  BY <1>10
<1> QED
  BY <1>3, <1>6, <1>7, <1>8, <1>9, <1>10
     DEF Next, PreStep, PostStep, AskForDecision, Decide, Package, PreCanceled, Stored,
         CreateSession, DownloadMETS, Cleanup, RetrySession, LoseWorker, CancelWorkflow, vars

\* Post-storage follows preprocessing and leaves what it recorded alone.
LEMMA WorkflowSteps ==
    ASSUME IngestInv, [Next]_vars
    PROVE  /\ pre.pc = "ended" => pre' = pre
           /\ post.pc = "idle" => post' = post \/ Stored
           /\ post.pc # "idle" => post'.pc # "idle"
           /\ post.pc = "ended" => post' = post
<1>1. TypeOK /\ post \in Poststorage /\ pre \in Preprocessing
  BY DEF IngestInv, TypeInv, TypeOK
<1>2. \A pc \in PostPC : Goto(pc).pc = pc /\ Goto(pc) \in Poststorage
  BY <1>1, PostAfter
<1>3. Fails.pc = "cleanup" /\ Retries.pc \in {post.pc, "cleanup"}
  BY <1>1, PostAfter, RetriesAfter
<1>4. CASE PreStep \/ Decide
  BY <1>4 DEF PreStep, SubmitMetadata, PollAnalysis, AskForDecision, Decide, Package,
              PreCanceled
<1>5. CASE Stored
  BY <1>1, <1>2, <1>5 DEF Stored, PostPC
<1>6. CASE CreateSession
  BY <1>2, <1>6 DEF CreateSession, Poststorage, PostPC
<1>7. CASE DownloadMETS
  BY <1>2, <1>3, <1>7 DEF DownloadMETS, PostPC
<1>8. CASE CreateImportRun
  BY <1>2, <1>3, <1>8 DEF CreateImportRun, PostPC
<1>9. CASE PollImport
  <2>1. Advanced(MyTask) \in Task /\ post.pc = "import"
    BY <1>9, TaskInUse, SeenIsTask DEF PollImport, IngestInv, MyTask
  <2>2. ImportNext(Advanced(MyTask)).pc \in {"import", "cleanup"}
    BY <1>1, <2>1, ImportNextAfter
  <2> QED
    BY <1>3, <1>9, <2>1, <2>2 DEF PollImport
<1>10. CASE Cleanup
  <2>1. Goto("ended") \in Poststorage /\ Goto("ended").pc = "ended"
        /\ Goto("retry").pc = "retry"
    BY <1>2 DEF PostPC
  <2>2. \A r : [Goto("ended") EXCEPT !.returned = r].pc = "ended"
    BY <2>1 DEF Poststorage
  <2>3. post'.pc \in {"ended", "retry"} /\ pre' = pre /\ post.pc = "cleanup"
    BY <1>10, <2>1, <2>2 DEF Cleanup
  <2> QED
    BY <2>3
<1>11. CASE RetrySession
  BY <1>2, <1>11 DEF RetrySession, Poststorage, PostPC
<1>12. CASE LoseWorker \/ CancelWorkflow \/ \E t \in Tasks : CancelTask(t)
  BY <1>1, <1>12 DEF LoseWorker, CancelWorkflow, CancelTask, Poststorage
<1>13. CASE UNCHANGED vars
  BY <1>13 DEF vars
<1> QED
  BY <1>4, <1>5, <1>6, <1>7, <1>8, <1>9, <1>10, <1>11, <1>12, <1>13
     DEF Next, PostStep

(***************************************************************************)
(* The invariant is inductive.                                             *)
(***************************************************************************)
LEMMA TaskIsDecidedStep ==
    ASSUME IngestInv, [Next]_vars
    PROVE  TaskIsDecided'
<1>1. TypeOK /\ TypeInv /\ TaskIsDecided /\ pre \in Preprocessing
  BY DEF IngestInv, TypeInv, TypeOK
<1>2. \A t \in Tasks : pre.pc # "submit" => tasks'[t].analysis = tasks[t].analysis
  BY TaskSteps
<1>3. CASE pre' = pre
  BY <1>1, <1>2, <1>3 DEF TaskIsDecided
<1>4. CASE pre' = [pre EXCEPT !.canceled = TRUE]
  <2>1. /\ pre'.pc = pre.pc /\ pre'.task = pre.task /\ pre'.outcome = pre.outcome
        /\ pre'.decision = pre.decision
    BY <1>1, <1>4 DEF Preprocessing
  <2> QED
    BY <1>1, <1>2, <2>1 DEF TaskIsDecided
<1>5. CASE pre'.pc = "ended" /\ pre'.outcome = "system error"
  BY <1>5 DEF TaskIsDecided
<1>6. CASE SubmitMetadata
  <2>1. \/ \E t \in Tasks : pre' = [PreGoto("analysis") EXCEPT !.task = t]
        \/ pre' = PreRetries
        \/ pre' \in {PreEnds("content error"), PreEnds("system error")}
    BY <1>6 DEF SubmitMetadata
  <2>2. ASSUME NEW t \in Tasks, pre' = [PreGoto("analysis") EXCEPT !.task = t]
        PROVE  pre'.pc = "analysis" /\ pre'.task \in Tasks
    <3>1. PreGoto("analysis") \in Preprocessing /\ PreGoto("analysis").pc = "analysis"
      BY <1>1, PreAfter
    <3> QED
      BY <2>2, <3>1 DEF Preprocessing
  <2>3. pre' \in {PreEnds("content error"), PreEnds("system error")}
          => pre'.pc = "ended" /\ pre'.outcome # "success"
    BY <1>1, PreAfter DEF Outcomes
  <2>4. ASSUME pre' = PreRetries
        PROVE  pre'.pc = "submit" \/ (pre'.pc = "ended" /\ pre'.outcome = "system error")
    <3>1. pre.pc = "submit"
      BY <1>6 DEF SubmitMetadata
    <3> QED
      BY <1>1, <2>4, <3>1, PreRetriesAfter
  <2> QED
    BY <2>1, <2>2, <2>3, <2>4 DEF TaskIsDecided
<1>7. CASE PollAnalysis
  <2> DEFINE seen == Advanced(tasks[pre.task])
  <2>1. pre.task \in Tasks /\ pre.pc = "analysis"
    BY <1>7, TaskInUse DEF PollAnalysis
  <2>2. seen \in Task
    BY <1>1, <2>1, SeenIsTask
  <2>3. \/ tasks' = [tasks EXCEPT ![pre.task] = seen] /\ pre' = AnalysisNext(seen)
        \/ pre' = PreRetries
        \/ pre' = PreEnds("system error")
    BY <1>7 DEF PollAnalysis
  <2>4. CASE tasks' = [tasks EXCEPT ![pre.task] = seen] /\ pre' = AnalysisNext(seen)
    <3>1. tasks'[pre.task] = seen
      BY <1>1, <2>1, <2>4 DEF TypeOK
    <3>2. /\ pre'.task = pre.task
          /\ \/ pre'.pc \in {"analysis", "ask"}
             \/ pre'.pc = "package" /\ seen.analysis # "Konflikte"
             \/ pre'.pc = "ended" /\ pre'.outcome = "system error"
      BY <1>1, <2>1, <2>2, <2>4, AnalysisNextAfter
    <3> QED
      BY <2>1, <3>1, <3>2 DEF TaskIsDecided
  <2>5. CASE pre' = PreRetries
    BY <1>1, <2>1, <2>5, PreRetriesAfter DEF TaskIsDecided
  <2>6. CASE pre' = PreEnds("system error")
    BY <1>1, <1>5, <2>6, PreAfter DEF Outcomes
  <2> QED
    BY <2>3, <2>4, <2>5, <2>6
<1>8. CASE AskForDecision
  <2>1. pre' \in {PreGoto("decide"), PreEnds("system error")} /\ pre.pc = "ask"
    BY <1>8 DEF AskForDecision
  <2>2. \/ pre'.pc = "decide" /\ pre'.task = pre.task
        \/ pre'.pc = "ended" /\ pre'.outcome = "system error"
    BY <1>1, <2>1, PreAfter DEF Outcomes
  <2> QED
    BY <1>1, <2>1, <2>2 DEF TaskIsDecided
<1>9. CASE Decide
  <2>1. PICK decision \in Decisions \ {""} :
          pre' = [CASE decision \in {"overwrite", "append"} -> PreGoto("package")
                    [] decision = "cancel" -> PreEnds("content error")
                    [] OTHER -> PreEnds("system error") EXCEPT !.decision = decision]
    BY <1>9 DEF Decide
  <2>2. pre.pc = "decide" /\ pre.task \in Tasks
    BY <1>1, <1>9 DEF Decide, TaskIsDecided
  <2>3. CASE decision \in {"overwrite", "append"}
    <3>1. PreGoto("package") \in Preprocessing /\ PreGoto("package").pc = "package"
          /\ PreGoto("package").task = pre.task
      BY <1>1, PreAfter
    <3>2. pre' = [PreGoto("package") EXCEPT !.decision = decision]
      BY <2>1, <2>3
    <3>3. pre'.pc = "package" /\ pre'.task = pre.task /\ pre'.decision = decision
      BY <3>1, <3>2 DEF Preprocessing
    <3> QED
      BY <2>2, <2>3, <3>3 DEF TaskIsDecided
  <2>4. CASE decision \notin {"overwrite", "append"}
    <3>1. PICK outcome \in {"content error", "system error"} :
            pre' = [PreEnds(outcome) EXCEPT !.decision = decision]
      BY <2>1, <2>4
    <3>2. PreEnds(outcome) \in Preprocessing /\ PreEnds(outcome).pc = "ended"
          /\ PreEnds(outcome).outcome = outcome
      BY <1>1, <3>1, PreAfter DEF Outcomes
    <3>3. pre'.pc = "ended" /\ pre'.outcome # "success"
      BY <3>1, <3>2 DEF Preprocessing
    <3> QED
      BY <3>3 DEF TaskIsDecided
  <2> QED
    BY <2>3, <2>4
<1>10. CASE Package \/ PreCanceled
  <2>1. CASE pre' = PreEnds("system error")
    BY <1>1, <1>5, <2>1, PreAfter DEF Outcomes
  <2>2. CASE Package /\ pre' = PreEnds("success")
    <3>1. pre'.pc = "ended" /\ pre'.task = pre.task /\ pre'.decision = pre.decision
          /\ pre.pc = "package"
      BY <1>1, <2>2, PreAfter DEF Outcomes, Package
    <3> QED
      BY <1>1, <1>2, <3>1 DEF TaskIsDecided
  <2> QED
    BY <1>10, <2>1, <2>2 DEF Package, PreCanceled
<1> QED
  BY <1>3, <1>4, <1>6, <1>7, <1>8, <1>9, <1>10
     DEF Next, PreStep, PostStep, Stored, CreateSession, DownloadMETS, CreateImportRun,
         PollImport, Cleanup, RetrySession, LoseWorker, CancelWorkflow, CancelTask, vars

\* No step starts post-storage before preprocessing succeeded, or undoes that.
LEMMA PoststorageFollowsStep ==
    ASSUME IngestInv, [Next]_vars
    PROVE  PoststorageFollows'
<1>1. CASE post.pc # "idle"
  BY <1>1, WorkflowSteps DEF IngestInv, PoststorageFollows
<1>2. CASE post.pc = "idle" /\ post' = post
  BY <1>2 DEF PoststorageFollows
<1>3. CASE Stored
  BY <1>3 DEF Stored, PoststorageFollows
<1> QED
  BY <1>1, <1>2, <1>3, WorkflowSteps

\* No step starts a run of another task or with another behaviour than decided.
LEMMA RunFollowsDecisionStep ==
    ASSUME IngestInv, [Next]_vars
    PROVE  RunFollowsDecision'
<1>1. SUFFICES ASSUME NEW t \in Tasks, tasks'[t].run # "none"
               PROVE  t = pre.task /\ post.pc # "idle" /\ tasks'[t].run = ImportBehaviour
  <2>1. post.pc # "idle" => pre' = pre /\ post'.pc # "idle"
    BY WorkflowSteps, TaskInUse
  <2> QED
    BY <1>1, <2>1 DEF RunFollowsDecision, ImportBehaviour
<1> QED
  BY <1>1, TaskSteps DEF IngestInv, RunFollowsDecision

\* No step claims a success that APIS did not report.
LEMMA SuccessIsSeenStep ==
    ASSUME IngestInv, [Next]_vars
    PROVE  SuccessIsSeen'
<1>1. /\ TypeOK /\ TypeInv /\ SuccessIsSeen /\ post \in Poststorage
      /\ tasks \in [Tasks -> Task]
  BY DEF IngestInv, TypeInv, TypeOK
<1>2. post.pc # "idle" => pre' = pre /\ pre.task \in Tasks
  BY WorkflowSteps, TaskInUse
<1>kept. ASSUME post.pc # "idle", MyTaskImported PROVE MyTaskImported'
  <2>1. pre' = pre /\ tasks'[pre.task] = tasks[pre.task]
    BY <1>2, <1>kept, TaskSteps DEF MyTaskImported, MyTask
  <2> QED
    BY <1>kept, <2>1 DEF MyTaskImported, MyTask, ImportBehaviour
<1>3. \A pc \in PostPC : /\ Goto(pc) \in Poststorage /\ Goto(pc).pc = pc
                         /\ Goto(pc).outcome = post.outcome
                         /\ Goto(pc).returned = post.returned
  BY <1>1, PostAfter
<1>4. /\ Fails.outcome = "system error" /\ Fails.returned = post.returned
      /\ Retries.returned = post.returned
      /\ Retries.pc = post.pc \/ Retries.outcome = "system error"
  BY <1>1, PostAfter, RetriesAfter
<1>5. ASSUME post.pc # "idle", post.pc # "ended", post'.returned = post.returned,
             post'.pc # "cleanup" \/ post'.outcome = "system error"
      PROVE  SuccessIsSeen'
  BY <1>1, <1>5 DEF SuccessIsSeen
<1>6. ASSUME post'.pc = post.pc, post'.outcome = post.outcome,
             post'.returned = post.returned
      PROVE  SuccessIsSeen'
  <2>1. post.pc = "idle" => post.returned # "success"
    BY <1>1 DEF SuccessIsSeen
  <2> QED
    BY <1>1, <1>kept, <1>6, <2>1 DEF SuccessIsSeen
<1>7. CASE Stored
  <2>1. post'.pc = "session" /\ post'.returned = post.returned /\ post.pc = "idle"
    BY <1>3, <1>7 DEF Stored, PostPC
  <2> QED
    BY <1>1, <2>1 DEF SuccessIsSeen
<1>8. CASE CreateSession
  <2>1. post.pc = "session" /\ post'.returned \in {post.returned, "error"}
        /\ post'.pc # "cleanup"
    <3>1. Goto("path") \in Poststorage /\ Goto("path").pc = "path"
          /\ Goto("path").returned = post.returned
      BY <1>3 DEF PostPC
    <3>2. Goto("ended") \in Poststorage /\ Goto("ended").pc = "ended"
      BY <1>3 DEF PostPC
    <3> QED
      BY <1>8, <3>1, <3>2 DEF CreateSession, Poststorage
  <2> QED
    BY <1>1, <2>1 DEF SuccessIsSeen
<1>9. CASE DownloadMETS
  <2>1. post'.returned = post.returned /\ post.pc \in {"path", "mets"}
        /\ (post'.pc # "cleanup" \/ post'.outcome = "system error")
    BY <1>3, <1>4, <1>9 DEF DownloadMETS, PostPC
  <2> QED
    BY <1>5, <2>1
<1>10. CASE CreateImportRun
  <2>1. post'.returned = post.returned /\ post.pc = "run"
        /\ (post'.pc # "cleanup" \/ post'.outcome = "system error")
    BY <1>3, <1>4, <1>10 DEF CreateImportRun, PostPC
  <2> QED
    BY <1>5, <2>1
<1>11. CASE PollImport
  <2> DEFINE seen == Advanced(MyTask)
  <2>1. post.pc = "import" /\ pre.task \in Tasks /\ pre' = pre
    <3>1. post.pc = "import"
      BY <1>11 DEF PollImport
    <3> QED
      BY <1>2, <3>1
  <2>2. seen \in Task /\ Ordered(seen)
    BY <1>1, <2>1, SeenIsTask DEF MyTask
  <2>3. CASE tasks' = Becomes(seen) /\ post' = ImportNext(seen)
    <3>1. post'.returned = post.returned
          /\ \/ post'.pc = "import"
             \/ post'.pc = "cleanup" /\ post'.outcome = "system error"
             \/ seen.status = "Importiert" /\ seen.import = "Erfolgreich"
      BY <1>1, <2>1, <2>2, <2>3, ImportNextAfter
    <3>2. CASE seen.status = "Importiert" /\ seen.import = "Erfolgreich"
      <4>1. tasks'[pre.task] = seen
        BY <1>1, <2>1, <2>3 DEF Becomes
      <4>2. seen.run # "none" /\ RunFollowsDecision'
        BY <2>2, <3>2, RunFollowsDecisionStep DEF Ordered
      <4>3. MyTaskImported'
        BY <2>1, <3>2, <4>1, <4>2 DEF MyTaskImported, MyTask, RunFollowsDecision
      <4> QED
        BY <1>1, <2>1, <3>1, <4>3 DEF SuccessIsSeen
    <3> QED
      BY <1>5, <2>1, <3>1, <3>2
  <2>4. CASE post' \in {Retries, Fails}
    BY <1>4, <1>5, <2>1, <2>4
  <2> QED
    BY <1>11, <2>3, <2>4 DEF PollImport
<1>12. CASE Cleanup
  <2>1. Goto("ended") \in Poststorage /\ Goto("ended").pc = "ended"
        /\ Goto("retry").pc = "retry" /\ Goto("retry").returned = post.returned
    BY <1>3 DEF PostPC
  <2>2. \A r : [Goto("ended") EXCEPT !.returned = r].pc = "ended"
             /\ [Goto("ended") EXCEPT !.returned = r].returned = r
    BY <2>1 DEF Poststorage
  <2>3. \/ post'.pc = "ended" /\ post'.returned = post.outcome
        \/ post'.pc = "ended" /\ post'.returned \in {"error", "nothing"}
        \/ post'.pc = "retry" /\ post'.returned = post.returned
    <3>1. \/ \E r \in {post.outcome, "error", "nothing"} :
                post' = [Goto("ended") EXCEPT !.returned = r]
          \/ post' = Goto("retry")
      BY <1>12 DEF Cleanup
    <3> QED
      BY <2>1, <2>2, <3>1
  <2>4. post.pc = "cleanup"
    BY <1>12 DEF Cleanup
  <2> QED
    BY <1>1, <1>kept, <2>3, <2>4 DEF SuccessIsSeen
<1>13. CASE RetrySession
  <2>1. post.pc = "retry" /\ post'.returned \in {post.returned, "error"}
        /\ post'.pc # "cleanup"
    <3>1. Goto("session") \in Poststorage /\ Goto("session").pc = "session"
          /\ Goto("session").returned = post.returned
      BY <1>3 DEF PostPC
    <3>2. Goto("ended") \in Poststorage /\ Goto("ended").pc = "ended"
      BY <1>3 DEF PostPC
    <3> QED
      BY <1>13, <3>1, <3>2 DEF RetrySession, Poststorage
  <2> QED
    BY <1>1, <2>1 DEF SuccessIsSeen
<1>14. CASE LoseWorker \/ CancelWorkflow
  BY <1>1, <1>6, <1>14 DEF LoseWorker, CancelWorkflow, Poststorage
<1>15. CASE UNCHANGED post
  BY <1>6, <1>15
<1> QED
  BY <1>7, <1>8, <1>9, <1>10, <1>11, <1>12, <1>13, <1>14, <1>15
     DEF Next, PreStep, PostStep, SubmitMetadata, PollAnalysis, AskForDecision, Decide,
         Package, PreCanceled, CancelTask, vars

\* The invariant holds at the start.
LEMMA InitialState == Init => IngestInv
<1> SUFFICES ASSUME Init PROVE IngestInv
  OBVIOUS
<1>1. Unknown \in Task /\ Ordered(Unknown) /\ Unknown.run = "none"
  BY DEF Unknown, Ordered, Task, TaskStatus, AnalysisResults, ImportResults
<1>2. tasks \in [Tasks -> Task] /\ \A t \in Tasks : Ordered(tasks[t])
  BY <1>1 DEF Init
<1>3. 1 \in 1..MaxTries /\ 1 \in 1..MaxSessions /\ 0 \in 0..MaxFaults
      /\ 0 \in 0..MaxLosses
  BY IngestAssumption
<1>4. pre \in Preprocessing /\ pre.pc = "submit"
  BY <1>3 DEF Init, Preprocessing, Decisions, Outcomes
<1>5. post \in Poststorage /\ post.pc = "idle" /\ post.returned = ""
  BY <1>3 DEF Init, Poststorage, PostPC, Context, Outcomes
<1>6. faults \in 0..MaxFaults /\ losses \in 0..MaxLosses
  BY <1>3 DEF Init
<1>7. TypeInv
  BY <1>2, <1>4, <1>5, <1>6 DEF TypeInv, TypeOK
<1>8. TaskIsDecided /\ PoststorageFollows /\ SuccessIsSeen
  BY <1>4, <1>5 DEF TaskIsDecided, PoststorageFollows, SuccessIsSeen
<1>9. RunFollowsDecision
  BY <1>1 DEF Init, RunFollowsDecision
<1> QED
  BY <1>7, <1>8, <1>9 DEF IngestInv

(***************************************************************************)
(* Theorems.                                                               *)
(***************************************************************************)

\* The conjunction of what is known of tasks, decisions and runs is invariant.
THEOREM Invariant == Spec => []IngestInv
<1>1. ASSUME IngestInv, [Next]_vars PROVE IngestInv'
  BY <1>1, TypeInvStep, TaskIsDecidedStep, PoststorageFollowsStep,
     RunFollowsDecisionStep, SuccessIsSeenStep DEF IngestInv
<1> QED
  BY InitialState, <1>1, PTL DEF Spec

\* The tasks, the two workflows and the bounds keep their types.
THEOREM TypeCorrect == Spec => []TypeOK
<1>1. IngestInv => TypeOK
  BY DEF IngestInv, TypeInv
<1> QED
  BY Invariant, <1>1, PTL

\* Nothing is imported over undecided conflicts, overwritten without the decision
\* to, or imported from another task than the recorded one.
THEOREM SpecConflictsAreDecided == Spec => []ConflictsAreDecided
<1>1. ASSUME IngestInv PROVE ConflictsAreDecided
  <2>1. SUFFICES ASSUME NEW t \in Tasks, tasks[t].run # "none"
                 PROVE  /\ t = pre.task /\ pre.outcome = "success" /\ pre.pc = "ended"
                        /\ tasks[t].analysis = "Konflikte"
                              => pre.decision \in {"overwrite", "append"}
                        /\ tasks[t].run = "OverwriteAndAppend"
                              => pre.decision = "overwrite"
    BY DEF ConflictsAreDecided
  <2>2. t = pre.task /\ post.pc # "idle" /\ tasks[t].run = ImportBehaviour
    BY <1>1, <2>1 DEF IngestInv, RunFollowsDecision
  <2>3. pre.outcome = "success" /\ pre.pc = "ended"
    BY <1>1, <2>2 DEF IngestInv, PoststorageFollows
  <2>4. tasks[t].analysis = "Konflikte" => pre.decision \in {"overwrite", "append"}
    BY <1>1, <2>2, <2>3 DEF IngestInv, TaskIsDecided
  <2>5. tasks[t].run = "OverwriteAndAppend" => pre.decision = "overwrite"
    BY <2>2 DEF ImportBehaviour
  <2> QED
    BY <2>2, <2>3, <2>4, <2>5
<1> QED
  BY Invariant, <1>1, PTL

\* An ingest that reports success is imported in APIS as its decision asks.
THEOREM SpecSuccessIsImported == Spec => []SuccessIsImported
<1>1. ASSUME IngestInv PROVE SuccessIsImported
  BY <1>1 DEF IngestInv, SuccessIsSeen, MyTaskImported, SuccessIsImported
<1> QED
  BY Invariant, <1>1, PTL

\* A task that was imported or canceled never changes again.
THEOREM SpecTaskEndsOnce == Spec => TaskEndsOnce
<1>1. ASSUME IngestInv, [Next]_vars
      PROVE  [\A t \in Tasks : tasks[t].status \in {"Importiert", "Abgebrochen"}
                                  => tasks'[t] = tasks[t]]_vars
  BY <1>1, TaskSteps
<1> QED
  BY Invariant, <1>1, PTL DEF Spec, TaskEndsOnce

(***************************************************************************)
(* The way to the end.  A step of a workflow is worth more than all the    *)
(* attempts and polls of a later one, and a task has few polls before it.  *)
(***************************************************************************)

\* The polls that can still show something new of a task.
Ahead(t) ==
    CASE t.status = "Neu" -> IF t.polls = 0 THEN 6 ELSE 5
      [] t.status = "InAnalyse" -> 4
      [] t.status = "Analysiert" -> 3
      [] t.status = "WirdImportiert" -> IF t.polls = 0 THEN 2 ELSE 1
      [] OTHER -> 0

PreStages  == [submit |-> 5, analysis |-> 4, ask |-> 3, decide |-> 2, package |-> 1, ended |-> 0]
PostStages == [idle |-> 8, session |-> 7, path |-> 6, mets |-> 5, run |-> 4, import |-> 3,
               cleanup |-> 2, retry |-> 1, ended |-> 0]

PrePolls(p, ts)      == IF p.pc = "analysis" THEN Ahead(ts[p.task]) ELSE 0
PostPolls(q, id, ts) == IF q.pc = "import" THEN Ahead(ts[id]) ELSE 0

\* The sessions and steps of a workflow, and the attempts and polls of its step.
PreSteps(p, ts) ==
    (MaxTries + 7) * PreStages[p.pc] + ((MaxTries - p.tries) + PrePolls(p, ts))

SessionSteps(q) == 9 * (MaxSessions - q.attempt) + PostStages[q.pc]

PostSteps(q, id, ts) ==
    (MaxTries + 7) * SessionSteps(q) + ((MaxTries - q.tries) + PostPolls(q, id, ts))

PreLeft  == PreSteps(pre, tasks)
PostLeft == PostSteps(post, pre.task, tasks)

\* What post-storage polls has an import run, unless somebody canceled it.
RunIsPolled ==
    post.pc = "import" => MyTask.status \in {"WirdImportiert", "Importiert", "Abgebrochen"}

\* A status request or a cancellation takes a task on, and never back.
LEMMA AheadFalls ==
    ASSUME NEW t \in Task, Ordered(t)
    PROVE  /\ Ahead(t) \in 0..6
           /\ Ahead(Advanced(t)) \in 0..6 /\ Ahead(Advanced(t)) <= Ahead(t)
           /\ t.status \in {"Neu", "InAnalyse", "WirdImportiert"}
                 => Ahead(Advanced(t)) < Ahead(t)
           /\ Ahead(Canceled(t)) = 0
<1>1. ASSUME NEW u \in Task PROVE Ahead(u) \in 0..6
  BY DEF Ahead
<1>2. Advanced(t) \in Task /\ Canceled(t) \in Task
  BY AdvancedKeeps, CanceledKeeps
<1>3. Ahead(Canceled(t)) = 0
  <2>1. Canceled(t).status = "Abgebrochen"
    BY DEF Canceled, Task
  <2> QED
    BY <2>1 DEF Ahead
<1>4. CASE t.status = "Neu"
  <2>1. t.polls \in {0, 1}
    BY <1>4 DEF Task, Ordered
  <2>2. Advanced(t) = [t EXCEPT !.polls = t.polls + 1,
                                !.status = IF t.polls = 0 THEN t.status ELSE "InAnalyse"]
    BY <1>4 DEF Advanced
  <2>3. /\ Advanced(t).polls = t.polls + 1
        /\ Advanced(t).status = IF t.polls = 0 THEN "Neu" ELSE "InAnalyse"
    BY <1>4, <2>2 DEF Task
  <2>4. Ahead(t) = IF t.polls = 0 THEN 6 ELSE 5
    BY <1>4 DEF Ahead
  <2>5. Ahead(Advanced(t)) = IF t.polls = 0 THEN 5 ELSE 4
    <3>1. CASE t.polls = 0
      <4>1. Advanced(t).polls = 1 /\ Advanced(t).status = "Neu"
        BY <2>3, <3>1
      <4> QED
        BY <3>1, <4>1 DEF Ahead
    <3>2. CASE t.polls # 0
      <4>1. Advanced(t).status = "InAnalyse"
        BY <2>3, <3>2
      <4> QED
        BY <3>2, <4>1 DEF Ahead
    <3> QED
      BY <3>1, <3>2
  <2> QED
    BY <1>1, <1>2, <1>3, <1>4, <2>4, <2>5
<1>5. CASE t.status = "InAnalyse"
  <2>1. Advanced(t).status = "Analysiert"
    BY <1>5 DEF Advanced, Task
  <2> QED
    BY <1>5, <2>1, <1>3 DEF Ahead
<1>6. CASE t.status = "WirdImportiert"
  <2>1. t.polls \in {0, 1}
    BY <1>6 DEF Task, Ordered
  <2>2. Advanced(t) = [t EXCEPT !.polls = t.polls + 1,
                                !.status = IF t.polls = 0 THEN t.status ELSE "Importiert"]
    BY <1>6 DEF Advanced
  <2>3. /\ Advanced(t).polls = t.polls + 1
        /\ Advanced(t).status = IF t.polls = 0 THEN "WirdImportiert" ELSE "Importiert"
    BY <1>6, <2>2 DEF Task
  <2>4. Ahead(t) = IF t.polls = 0 THEN 2 ELSE 1
    BY <1>6 DEF Ahead
  <2>5. Ahead(Advanced(t)) = IF t.polls = 0 THEN 1 ELSE 0
    <3>1. CASE t.polls = 0
      <4>1. Advanced(t).polls = 1 /\ Advanced(t).status = "WirdImportiert"
        BY <2>3, <3>1
      <4> QED
        BY <3>1, <4>1 DEF Ahead
    <3>2. CASE t.polls # 0
      <4>1. Advanced(t).status = "Importiert"
        BY <2>3, <3>2
      <4> QED
        BY <3>2, <4>1 DEF Ahead
    <3> QED
      BY <3>1, <3>2
  <2> QED
    BY <1>1, <1>2, <1>3, <1>6, <2>4, <2>5
<1>7. CASE t.status \notin {"Neu", "InAnalyse", "WirdImportiert"}
  <2>1. Advanced(t) = t
    BY <1>7 DEF Advanced
  <2> QED
    BY <1>1, <1>7, <2>1, <1>3
<1> QED
  BY <1>1, <1>2, <1>4, <1>5, <1>6, <1>7, <1>3

\* A step fewer outweighs whatever attempts and polls come with it.
LEMMA StepOutweighs ==
    ASSUME NEW a \in Nat, NEW b \in Nat, b < a,
           NEW x \in 0..(MaxTries + 6), NEW y \in 0..(MaxTries + 6)
    PROVE  (MaxTries + 7) * b + y < (MaxTries + 7) * a + x
<1> DEFINE m == MaxTries + 7
           d == a - (b + 1)
<1>1. m \in Nat /\ d \in Nat /\ a = b + (1 + d) /\ y < m /\ x >= 0
  BY IngestAssumption
<1> HIDE DEF m, d
<1>2. m * a = m * b + m * (1 + d)
  BY <1>1
<1>3. m * (1 + d) = m + m * d /\ m * d \in Nat /\ m * b \in Nat
  BY <1>1
<1>4. m * b + y < m * a + x
  BY <1>1, <1>2, <1>3
<1> QED
  BY <1>4 DEF m

\* The numbers.
LEMMA Numbers ==
    ASSUME NEW p \in Preprocessing, NEW q \in Poststorage, NEW ts \in [Tasks -> Task],
           \A t \in Tasks : Ordered(ts[t]),
           p.pc = "analysis" \/ q.pc = "import" => p.task \in Tasks
    PROVE  /\ PreStages[p.pc] \in Nat /\ SessionSteps(q) \in Nat
           /\ PrePolls(p, ts) \in 0..6 /\ PostPolls(q, p.task, ts) \in 0..6
           /\ p.tries \in 1..MaxTries /\ q.tries \in 1..MaxTries /\ MaxTries \in Nat
           /\ (MaxTries - p.tries) + PrePolls(p, ts) \in 0..(MaxTries + 6)
           /\ (MaxTries - q.tries) + PostPolls(q, p.task, ts) \in 0..(MaxTries + 6)
           /\ PreSteps(p, ts) \in Nat /\ PostSteps(q, p.task, ts) \in Nat
<1>1. MaxTries \in Nat /\ MaxSessions \in Nat
  BY IngestAssumption
<1>2. /\ p.tries \in 1..MaxTries /\ q.tries \in 1..MaxTries
      /\ q.attempt \in 1..MaxSessions
      /\ p.pc \in {"submit", "analysis", "ask", "decide", "package", "ended"}
      /\ q.pc \in PostPC
  BY DEF Preprocessing, Poststorage
<1>3. PreStages[p.pc] \in Nat
  BY <1>2 DEF PreStages
<1>4. SessionSteps(q) \in Nat
  <2>1. PostStages[q.pc] \in Nat
    BY <1>2 DEF PostStages, PostPC
  <2>2. MaxSessions - q.attempt \in Nat
    BY <1>1, <1>2
  <2> QED
    BY <2>1, <2>2 DEF SessionSteps
<1>5. PrePolls(p, ts) \in 0..6 /\ PostPolls(q, p.task, ts) \in 0..6
  BY AheadFalls DEF PrePolls, PostPolls
<1>6. /\ (MaxTries - p.tries) + PrePolls(p, ts) \in 0..(MaxTries + 6)
      /\ (MaxTries - q.tries) + PostPolls(q, p.task, ts) \in 0..(MaxTries + 6)
  BY <1>1, <1>2, <1>5
<1>7. \A m, k, r \in Nat : m * k + r \in Nat
  OBVIOUS
<1> QED
  BY <1>1, <1>2, <1>3, <1>4, <1>5, <1>6, <1>7 DEF PreSteps, PostSteps

\* A workflow that goes on, and one that repeats an attempt or sees a task move.
LEMMA PreLess ==
    ASSUME IngestInv, IngestInv'
    PROVE  /\ PreStages[pre'.pc] < PreStages[pre.pc] => PreLeft' < PreLeft
           /\ pre'.pc = pre.pc =>
                 LET more == (pre.tries - pre'.tries)
                                + (PrePolls(pre', tasks') - PrePolls(pre, tasks))
                 IN  /\ more < 0 => PreLeft' < PreLeft
                     /\ more <= 0 => PreLeft' <= PreLeft
<1>1. /\ pre \in Preprocessing /\ post \in Poststorage /\ tasks \in [Tasks -> Task]
      /\ \A t \in Tasks : Ordered(tasks[t])
      /\ pre.pc = "analysis" \/ post.pc = "import" => pre.task \in Tasks
  BY TaskInUse DEF IngestInv, TypeInv, TypeOK
<1>2. /\ pre' \in Preprocessing /\ post' \in Poststorage /\ tasks' \in [Tasks -> Task]
      /\ \A t \in Tasks : Ordered(tasks'[t])
      /\ pre'.pc = "analysis" => pre'.task \in Tasks
      /\ post'.pc = "import" => pre'.task \in Tasks
  <2>1. TypeInv' /\ TaskIsDecided' /\ PoststorageFollows'
    BY DEF IngestInv
  <2> QED
    BY <2>1 DEF TypeInv, TypeOK, TaskIsDecided, PoststorageFollows
<1> DEFINE m == MaxTries + 7
           a == PreStages[pre.pc]
           b == PreStages[pre'.pc]
           x == (MaxTries - pre.tries) + PrePolls(pre, tasks)
           y == (MaxTries - pre'.tries) + PrePolls(pre', tasks')
<1>3. /\ a \in Nat /\ x \in 0..(MaxTries + 6) /\ pre.tries \in 1..MaxTries
      /\ PrePolls(pre, tasks) \in 0..6 /\ MaxTries \in Nat
  BY <1>1, Numbers
<1>4. /\ b \in Nat /\ y \in 0..(MaxTries + 6) /\ pre'.tries \in 1..MaxTries
      /\ PrePolls(pre', tasks') \in 0..6
  BY <1>2, Numbers
<1>5. PreLeft = m * a + x /\ PreLeft' = m * b + y
  BY DEF PreLeft, PreSteps
<1>6. b < a => PreLeft' < PreLeft
  <2> HIDE DEF a, b, x, y
  <2> QED
    BY <1>3, <1>4, <1>5, StepOutweighs
<1>7. /\ pre'.pc = pre.pc /\ y < x => PreLeft' < PreLeft
      /\ pre'.pc = pre.pc /\ y <= x => PreLeft' <= PreLeft
  <2>1. m * a \in Int /\ (pre'.pc = pre.pc => a = b) /\ x \in Int /\ y \in Int
    BY <1>3, <1>4
  <2> HIDE DEF m, a, b, x, y
  <2> QED
    BY <1>5, <2>1
<1> DEFINE more == (pre.tries - pre'.tries)
                     + (PrePolls(pre', tasks') - PrePolls(pre, tasks))
<1>8. (more < 0 => y < x) /\ (more <= 0 => y <= x)
  BY <1>3, <1>4
<1> QED
  BY <1>6, <1>7, <1>8

\* The same of post-storage, whose sessions have steps.
LEMMA PostLess ==
    ASSUME IngestInv, IngestInv'
    PROVE  /\ SessionSteps(post') < SessionSteps(post) => PostLeft' < PostLeft
           /\ SessionSteps(post') = SessionSteps(post) =>
                 LET more == (post.tries - post'.tries)
                                + (PostPolls(post', pre'.task, tasks')
                                      - PostPolls(post, pre.task, tasks))
                 IN  /\ more < 0 => PostLeft' < PostLeft
                     /\ more <= 0 => PostLeft' <= PostLeft
<1>1. /\ pre \in Preprocessing /\ post \in Poststorage /\ tasks \in [Tasks -> Task]
      /\ \A t \in Tasks : Ordered(tasks[t])
      /\ pre.pc = "analysis" \/ post.pc = "import" => pre.task \in Tasks
  BY TaskInUse DEF IngestInv, TypeInv, TypeOK
<1>2. /\ pre' \in Preprocessing /\ post' \in Poststorage /\ tasks' \in [Tasks -> Task]
      /\ \A t \in Tasks : Ordered(tasks'[t])
      /\ pre'.pc = "analysis" => pre'.task \in Tasks
      /\ post'.pc = "import" => pre'.task \in Tasks
  <2>1. TypeInv' /\ TaskIsDecided' /\ PoststorageFollows'
    BY DEF IngestInv
  <2> QED
    BY <2>1 DEF TypeInv, TypeOK, TaskIsDecided, PoststorageFollows
<1> DEFINE m == MaxTries + 7
           a == SessionSteps(post)
           b == SessionSteps(post')
           x == (MaxTries - post.tries) + PostPolls(post, pre.task, tasks)
           y == (MaxTries - post'.tries) + PostPolls(post', pre'.task, tasks')
<1>3. /\ a \in Nat /\ x \in 0..(MaxTries + 6) /\ post.tries \in 1..MaxTries
      /\ PostPolls(post, pre.task, tasks) \in 0..6 /\ MaxTries \in Nat
  BY <1>1, Numbers
<1>4. /\ b \in Nat /\ y \in 0..(MaxTries + 6) /\ post'.tries \in 1..MaxTries
      /\ PostPolls(post', pre'.task, tasks') \in 0..6
  BY <1>2, Numbers
<1>5. PostLeft = m * a + x /\ PostLeft' = m * b + y
  BY DEF PostLeft, PostSteps
<1>6. b < a => PostLeft' < PostLeft
  <2> HIDE DEF a, b, x, y
  <2> QED
    BY <1>3, <1>4, <1>5, StepOutweighs
<1>7. /\ a = b /\ y < x => PostLeft' < PostLeft
      /\ a = b /\ y <= x => PostLeft' <= PostLeft
  <2>1. m * a \in Int /\ x \in Int /\ y \in Int
    BY <1>3, <1>4
  <2> HIDE DEF m, a, b, x, y
  <2> QED
    BY <1>5, <2>1
<1> DEFINE more == (post.tries - post'.tries)
                     + (PostPolls(post', pre'.task, tasks') - PostPolls(post, pre.task, tasks))
<1>8. (more < 0 => y < x) /\ (more <= 0 => y <= x)
  BY <1>3, <1>4
<1> QED
  BY <1>6, <1>7, <1>8

\* What is left is a number.
LEMMA LeftIsNumber ==
    /\ IngestInv => PreLeft \in Nat /\ PostLeft \in Nat
    /\ IngestInv' => PreLeft' \in Nat /\ PostLeft' \in Nat
<1>1. ASSUME IngestInv PROVE PreLeft \in Nat /\ PostLeft \in Nat
  <2>1. TypeInv /\ TaskIsDecided /\ PoststorageFollows
    BY <1>1 DEF IngestInv
  <2>2. /\ pre \in Preprocessing /\ post \in Poststorage /\ tasks \in [Tasks -> Task]
        /\ \A t \in Tasks : Ordered(tasks[t])
        /\ pre.pc = "analysis" \/ post.pc = "import" => pre.task \in Tasks
    BY <2>1 DEF TypeInv, TypeOK, TaskIsDecided, PoststorageFollows
  <2> QED
    BY <2>2, Numbers DEF PreLeft, PostLeft
<1>2. ASSUME IngestInv' PROVE PreLeft' \in Nat /\ PostLeft' \in Nat
  <2>1. TypeInv' /\ TaskIsDecided' /\ PoststorageFollows'
    BY <1>2 DEF IngestInv
  <2>2. /\ pre' \in Preprocessing /\ post' \in Poststorage /\ tasks' \in [Tasks -> Task]
        /\ \A t \in Tasks : Ordered(tasks'[t])
        /\ pre'.pc = "analysis" \/ post'.pc = "import" => pre'.task \in Tasks
    BY <2>1 DEF TypeInv, TypeOK, TaskIsDecided, PoststorageFollows
  <2> QED
    BY <2>2, Numbers DEF PreLeft, PostLeft
<1> QED
  BY <1>1, <1>2

\* A poll that shows nothing final has shown something new.
LEMMA PollShowsMore ==
    ASSUME NEW t \in Task, Ordered(t)
    PROVE  /\ Advanced(t).status \in {"Neu", "InAnalyse"} => Ahead(Advanced(t)) < Ahead(t)
           /\ t.status = "WirdImportiert" => Ahead(Advanced(t)) < Ahead(t)
<1>1. t.status \notin {"Neu", "InAnalyse", "WirdImportiert"} => Advanced(t) = t
  BY DEF Advanced
<1> QED
  BY <1>1, AheadFalls

\* How the attempts of preprocessing are counted.
LEMMA PreTries ==
    ASSUME TypeOK
    PROVE  /\ pre.tries \in 1..MaxTries
           /\ \A pc \in {"submit", "analysis", "ask", "decide", "package", "ended"} :
                 PreGoto(pc).pc = pc
           /\ \A outcome \in Outcomes : PreEnds(outcome).pc = "ended"
           /\ \/ PreRetries.pc = "ended"
              \/ /\ PreRetries.pc = pre.pc /\ PreRetries.task = pre.task
                 /\ PreRetries.tries = pre.tries + 1
<1>1. pre \in Preprocessing
  BY DEF TypeOK
<1>2. CASE pre.tries < MaxTries /\ ~pre.canceled
  <2>1. PreRetries = [pre EXCEPT !.tries = pre.tries + 1]
    BY <1>2 DEF PreRetries
  <2> QED
    BY <1>1, <2>1, PreAfter DEF Preprocessing
<1>3. CASE ~(pre.tries < MaxTries /\ ~pre.canceled)
  <2>1. PreRetries = PreEnds("system error") /\ "system error" \in Outcomes
    BY <1>3 DEF PreRetries, Outcomes
  <2> QED
    BY <1>1, <2>1, PreAfter DEF Preprocessing
<1> QED
  BY <1>2, <1>3

\* A step of preprocessing, or the person's answer, leaves it fewer.
LEMMA PreGoesOn ==
    ASSUME IngestInv, IngestInv', PreStep \/ Decide
    PROVE  PreLeft' < PreLeft
<1>1. TypeOK /\ TypeInv /\ pre \in Preprocessing /\ pre.tries \in 1..MaxTries
      /\ tasks \in [Tasks -> Task] /\ \A t \in Tasks : Ordered(tasks[t])
  BY PreTries DEF IngestInv, TypeInv, TypeOK
<1>2. /\ PreStages["submit"] = 5 /\ PreStages["analysis"] = 4 /\ PreStages["ask"] = 3
      /\ PreStages["decide"] = 2 /\ PreStages["package"] = 1 /\ PreStages["ended"] = 0
  BY DEF PreStages
<1>3. ASSUME pre'.pc = "ended", pre.pc \in {"submit", "analysis", "ask", "decide", "package"}
      PROVE  PreLeft' < PreLeft
  BY <1>2, <1>3, PreLess
<1>4. ASSUME pre.pc \in {"submit", "analysis"}, pre' = PreRetries,
             PrePolls(pre', tasks') \in Int, PrePolls(pre, tasks) \in Int,
             pre'.pc = pre.pc => PrePolls(pre', tasks') <= PrePolls(pre, tasks)
      PROVE  PreLeft' < PreLeft
  <2>1. CASE pre'.pc = "ended"
    BY <1>3, <1>4, <2>1
  <2>2. CASE pre'.pc = pre.pc /\ pre'.tries = pre.tries + 1
    <3>1. (pre.tries - pre'.tries) + (PrePolls(pre', tasks') - PrePolls(pre, tasks)) < 0
      BY <1>1, <1>4, <2>2
    <3> QED
      BY <2>2, <3>1, PreLess
  <2> QED
    BY <1>1, <1>4, <2>1, <2>2, PreTries
<1>5. CASE SubmitMetadata
  <2>1. pre.pc = "submit"
    BY <1>5 DEF SubmitMetadata
  <2>2. CASE \E t \in Tasks : pre' = [PreGoto("analysis") EXCEPT !.task = t]
    <3>1. PreGoto("analysis") \in Preprocessing /\ PreGoto("analysis").pc = "analysis"
      BY <1>1, PreAfter
    <3>2. pre'.pc = "analysis"
      BY <2>2, <3>1 DEF Preprocessing
    <3> QED
      BY <1>2, <2>1, <3>2, PreLess
  <2>3. CASE pre' = PreRetries
    <3>1. PrePolls(pre, tasks) = 0 /\ (pre'.pc # "analysis" => PrePolls(pre', tasks') = 0)
      BY <2>1 DEF PrePolls
    <3>2. pre'.pc \in {"submit", "ended"}
      BY <1>1, <2>1, <2>3, PreTries
    <3> QED
      BY <1>4, <2>1, <2>3, <3>1, <3>2
  <2>4. CASE pre' \in {PreEnds("content error"), PreEnds("system error")}
    BY <1>1, <1>3, <2>1, <2>4, PreAfter DEF Outcomes
  <2> QED
    BY <1>5, <2>2, <2>3, <2>4 DEF SubmitMetadata
<1>6. CASE PollAnalysis
  <2> DEFINE seen == Advanced(tasks[pre.task])
  <2>1. pre.pc = "analysis" /\ pre.task \in Tasks
    BY <1>6, TaskInUse DEF PollAnalysis
  <2>2. /\ tasks[pre.task] \in Task /\ Ordered(tasks[pre.task]) /\ seen \in Task
        /\ PrePolls(pre, tasks) = Ahead(tasks[pre.task])
        /\ [tasks EXCEPT ![pre.task] = seen][pre.task] = seen
        /\ Ahead(seen) \in 0..6 /\ Ahead(seen) <= Ahead(tasks[pre.task])
        /\ Ahead(tasks[pre.task]) \in 0..6
    BY <1>1, <2>1, SeenIsTask, AheadFalls DEF PrePolls
  <2>3. CASE tasks' = [tasks EXCEPT ![pre.task] = seen] /\ pre' = AnalysisNext(seen)
    <3> HIDE DEF seen
    <3>1. CASE pre' = pre /\ seen.status \in {"Neu", "InAnalyse"}
      <4>1. Ahead(seen) < Ahead(tasks[pre.task])
        BY <2>2, <3>1, PollShowsMore DEF seen
      <4>2. PrePolls(pre', tasks') = Ahead(seen)
        BY <2>1, <2>2, <2>3, <3>1 DEF PrePolls
      <4>3. (pre.tries - pre'.tries) + (PrePolls(pre', tasks') - PrePolls(pre, tasks)) < 0
        BY <1>1, <2>2, <3>1, <4>1, <4>2
      <4> QED
        BY <3>1, <4>3, PreLess
    <3>2. CASE pre' \in {PreGoto("package"), PreGoto("ask"), PreEnds("system error")}
      <4>1. pre'.pc \in {"package", "ask", "ended"}
        BY <1>1, <3>2, PreAfter DEF Outcomes
      <4> QED
        BY <1>2, <2>1, <4>1, PreLess
    <3> QED
      BY <2>3, <3>1, <3>2 DEF AnalysisNext
  <2>4. CASE tasks' \in {tasks, [tasks EXCEPT ![pre.task] = seen]} /\ pre' = PreRetries
    <3> HIDE DEF seen
    <3>1. CASE pre'.pc = "ended"
      BY <1>3, <2>1, <3>1
    <3>2. CASE pre'.pc = pre.pc /\ pre'.task = pre.task
      <4>1. PrePolls(pre', tasks') \in {Ahead(seen), Ahead(tasks[pre.task])}
        BY <2>1, <2>2, <2>4, <3>2 DEF PrePolls
      <4> QED
        BY <1>4, <2>1, <2>2, <2>4, <4>1
    <3> QED
      BY <1>1, <2>4, <3>1, <3>2, PreTries
  <2>5. CASE pre' = PreEnds("system error")
    BY <1>1, <1>3, <2>1, <2>5, PreAfter DEF Outcomes
  <2> QED
    BY <1>6, <2>3, <2>4, <2>5 DEF PollAnalysis
<1>7. CASE AskForDecision
  <2>1. pre.pc = "ask" /\ pre'.pc \in {"decide", "ended"}
    BY <1>1, <1>7, PreAfter DEF AskForDecision, Outcomes
  <2> QED
    BY <1>2, <2>1, PreLess
<1>8. CASE Decide
  <2>1. pre.pc = "decide" /\ pre'.pc \in {"package", "ended"}
    <3>1. PICK decision \in Decisions \ {""},
               to \in {PreGoto("package"), PreEnds("content error"), PreEnds("system error")} :
             pre' = [to EXCEPT !.decision = decision]
      BY <1>8 DEF Decide
    <3>2. to \in Preprocessing /\ to.pc \in {"package", "ended"}
      BY <1>1, PreAfter DEF Outcomes
    <3> QED
      BY <1>8, <3>1, <3>2 DEF Decide, Preprocessing
  <2> QED
    BY <1>2, <2>1, PreLess
<1>9. CASE Package
  BY <1>1, <1>3, <1>9, PreAfter DEF Package, Outcomes
<1>10. CASE PreCanceled
  BY <1>1, <1>3, <1>10, PreAfter DEF PreCanceled, Outcomes
<1> QED
  BY <1>5, <1>6, <1>7, <1>8, <1>9, <1>10 DEF PreStep

\* How the attempts and sessions of post-storage are counted.
LEMMA PostTries ==
    ASSUME TypeOK
    PROVE  /\ post.tries \in 1..MaxTries /\ post.attempt \in 1..MaxSessions
           /\ \A pc \in PostPC : Goto(pc).pc = pc /\ Goto(pc).attempt = post.attempt
           /\ Fails.pc = "cleanup" /\ Fails.attempt = post.attempt
           /\ \/ Retries.pc = "cleanup" /\ Retries.attempt = post.attempt
              \/ /\ Retries.pc = post.pc /\ Retries.attempt = post.attempt
                 /\ Retries.tries = post.tries + 1
<1>1. post \in Poststorage
  BY DEF TypeOK
<1>2. ASSUME NEW pc \in PostPC PROVE Goto(pc).attempt = post.attempt
  BY <1>1 DEF Goto, Poststorage
<1>3. Fails.attempt = post.attempt
  <2>1. Goto("cleanup") \in Poststorage /\ Goto("cleanup").attempt = post.attempt
    BY <1>2, PostAfter DEF PostPC
  <2> QED
    BY <2>1 DEF Fails, Poststorage
<1>4. CASE post.tries < MaxTries /\ ~Stoppable
  <2>1. Retries = [post EXCEPT !.tries = post.tries + 1]
    BY <1>4 DEF Retries
  <2>2. Retries.pc = post.pc /\ Retries.attempt = post.attempt /\ Retries.tries = post.tries + 1
    BY <1>1, <2>1 DEF Poststorage
  <2> QED
    BY <1>1, <1>2, <1>3, <2>2, PostAfter DEF Poststorage
<1>5. CASE ~(post.tries < MaxTries /\ ~Stoppable)
  <2>1. Retries = Fails
    BY <1>5 DEF Retries
  <2> QED
    BY <1>1, <1>2, <1>3, <2>1, PostAfter DEF Poststorage
<1> QED
  BY <1>4, <1>5

\* A later step of the same session.
LEMMA PostNearer ==
    ASSUME IngestInv, IngestInv', post'.attempt = post.attempt,
           PostStages[post'.pc] < PostStages[post.pc]
    PROVE  PostLeft' < PostLeft
<1>1. post \in Poststorage /\ post' \in Poststorage
  <2>1. TypeInv /\ TypeInv'
    BY DEF IngestInv
  <2> QED
    BY <2>1 DEF TypeInv, TypeOK
<1>2. MaxSessions \in Nat /\ post.attempt \in Int
  <2>1. post.attempt \in 1..MaxSessions
    BY <1>1 DEF Poststorage
  <2> QED
    BY <2>1, IngestAssumption
<1>3. PostStages[post.pc] \in Nat /\ PostStages[post'.pc] \in Nat
  <2>1. post.pc \in PostPC /\ post'.pc \in PostPC
    BY <1>1 DEF Poststorage
  <2>2. \A pc \in PostPC : PostStages[pc] \in Nat
    BY DEF PostPC, PostStages
  <2> QED
    BY <2>1, <2>2
<1>4. SessionSteps(post') < SessionSteps(post)
  BY <1>2, <1>3 DEF SessionSteps
<1> QED
  BY <1>4, PostLess

\* Another attempt or poll of the same step.
LEMMA PostAgain ==
    ASSUME IngestInv, IngestInv', post'.attempt = post.attempt, post'.pc = post.pc,
           (post.tries - post'.tries)
              + (PostPolls(post', pre'.task, tasks') - PostPolls(post, pre.task, tasks)) < 0
    PROVE  PostLeft' < PostLeft
<1>1. SessionSteps(post') = SessionSteps(post)
  BY DEF SessionSteps
<1> QED
  BY <1>1, PostLess

\* A session has its steps.
LEMMA SessionGoesOn ==
    ASSUME IngestInv, IngestInv', CreateSession \/ DownloadMETS \/ Cleanup \/ RetrySession
    PROVE  PostLeft' < PostLeft
<1>1. TypeOK /\ post \in Poststorage /\ post.attempt \in 1..MaxSessions
  BY PostTries DEF IngestInv, TypeInv, TypeOK
<1>2. /\ PostStages["idle"] = 8 /\ PostStages["session"] = 7 /\ PostStages["path"] = 6
      /\ PostStages["mets"] = 5 /\ PostStages["run"] = 4 /\ PostStages["import"] = 3
      /\ PostStages["cleanup"] = 2 /\ PostStages["retry"] = 1 /\ PostStages["ended"] = 0
  BY DEF PostStages
<1>3. \A pc \in PostPC : Goto(pc) \in Poststorage /\ Goto(pc).pc = pc
                           /\ Goto(pc).attempt = post.attempt
  BY <1>1, PostAfter, PostTries
<1>4. ASSUME NEW r, post' = [Goto("ended") EXCEPT !.returned = r]
      PROVE  post'.pc = "ended" /\ post'.attempt = post.attempt
  <2>1. Goto("ended") \in Poststorage /\ Goto("ended").pc = "ended"
        /\ Goto("ended").attempt = post.attempt
    BY <1>3 DEF PostPC
  <2> QED
    BY <1>4, <2>1 DEF Poststorage
<1>5. CASE CreateSession
  <2>1. CASE post' = [Goto("path") EXCEPT !.lost = "open", !.imported = FALSE]
    <3>1. Goto("path") \in Poststorage /\ Goto("path").pc = "path"
          /\ Goto("path").attempt = post.attempt
      BY <1>3 DEF PostPC
    <3>2. post'.pc = "path" /\ post'.attempt = post.attempt
      BY <2>1, <3>1 DEF Poststorage
    <3> QED
      BY <1>2, <1>5, <3>2, PostNearer DEF CreateSession
  <2> QED
    BY <1>2, <1>4, <1>5, <2>1, PostNearer DEF CreateSession
<1>6. CASE DownloadMETS
  <2>1. post'.attempt = post.attempt
        /\ (post'.pc = "cleanup" \/ post'.pc = IF post.pc = "path" THEN "mets" ELSE "run")
    BY <1>1, <1>3, <1>6, PostTries DEF DownloadMETS, PostPC
  <2> QED
    BY <1>2, <1>6, <2>1, PostNearer DEF DownloadMETS
<1>7. CASE Cleanup
  <2>1. post'.attempt = post.attempt /\ post'.pc \in {"retry", "ended"}
    BY <1>3, <1>4, <1>7 DEF Cleanup, PostPC
  <2> QED
    BY <1>2, <1>7, <2>1, PostNearer DEF Cleanup
<1>8. CASE RetrySession /\ post' = [Goto("session") EXCEPT !.attempt = @ + 1]
  <2>1. Goto("session") \in Poststorage /\ Goto("session").pc = "session"
        /\ Goto("session").attempt = post.attempt
    BY <1>3 DEF PostPC
  <2>2. post.pc = "retry" /\ post'.pc = "session" /\ post'.attempt = post.attempt + 1
    BY <1>8, <2>1 DEF RetrySession, Poststorage
  <2>3. SessionSteps(post') < SessionSteps(post)
    BY <1>1, <1>2, <2>2, IngestAssumption DEF SessionSteps
  <2> QED
    BY <2>3, PostLess
<1>9. CASE RetrySession /\ post' = [Goto("ended") EXCEPT !.returned = "error"]
  BY <1>2, <1>4, <1>9, PostNearer DEF RetrySession
<1> QED
  BY <1>5, <1>6, <1>7, <1>8, <1>9 DEF RetrySession

\* The import run is asked for, and polled.
LEMMA ImportGoesOn ==
    ASSUME IngestInv, IngestInv', RunIsPolled, CreateImportRun \/ PollImport
    PROVE  PostLeft' < PostLeft
<1>1. /\ TypeOK /\ TypeInv /\ post \in Poststorage /\ post.tries \in 1..MaxTries
      /\ tasks \in [Tasks -> Task] /\ \A t \in Tasks : Ordered(tasks[t])
  BY PostTries DEF IngestInv, TypeInv, TypeOK
<1>2. PostStages["run"] = 4 /\ PostStages["import"] = 3 /\ PostStages["cleanup"] = 2
  BY DEF PostStages
<1>3. post.pc \in {"run", "import"} /\ pre' = pre /\ pre.task \in Tasks
  BY TaskInUse DEF CreateImportRun, PollImport
<1>4. ASSUME post'.pc = "cleanup", post'.attempt = post.attempt
      PROVE  PostLeft' < PostLeft
  BY <1>2, <1>3, <1>4, PostNearer
<1>5. ASSUME post' = Retries,
             PostPolls(post', pre'.task, tasks') \in Int, PostPolls(post, pre.task, tasks) \in Int,
             post'.pc = post.pc =>
                PostPolls(post', pre'.task, tasks') <= PostPolls(post, pre.task, tasks)
      PROVE  PostLeft' < PostLeft
  <2>1. CASE post'.pc = "cleanup" /\ post'.attempt = post.attempt
    BY <1>4, <2>1
  <2>2. CASE post'.pc = post.pc /\ post'.attempt = post.attempt /\ post'.tries = post.tries + 1
    <3>1. (post.tries - post'.tries)
             + (PostPolls(post', pre'.task, tasks') - PostPolls(post, pre.task, tasks)) < 0
      BY <1>1, <1>5, <2>2
    <3> QED
      BY <2>2, <3>1, PostAgain
  <2> QED
    BY <1>1, <1>5, <2>1, <2>2, PostTries
<1>6. ASSUME post' = Fails PROVE PostLeft' < PostLeft
  BY <1>1, <1>4, <1>6, PostTries
<1>7. CASE CreateImportRun
  <2>1. post.pc = "run"
    BY <1>7 DEF CreateImportRun
  <2>2. CASE post' = Goto("import")
    <3>1. post'.pc = "import" /\ post'.attempt = post.attempt
      BY <1>1, <2>2, PostTries DEF PostPC
    <3> QED
      BY <1>2, <2>1, <3>1, PostNearer
  <2>3. CASE post' = Retries
    <3>1. PostPolls(post, pre.task, tasks) = 0
          /\ (post'.pc # "import" => PostPolls(post', pre'.task, tasks') = 0)
      BY <2>1 DEF PostPolls
    <3>2. post'.pc \in {"run", "cleanup"}
      BY <1>1, <2>1, <2>3, PostTries
    <3> QED
      BY <1>5, <2>3, <3>1, <3>2
  <2> QED
    BY <1>6, <1>7, <2>2, <2>3 DEF CreateImportRun
<1>8. CASE PollImport
  <2> DEFINE seen == Advanced(tasks[pre.task])
  <2>1. post.pc = "import"
    BY <1>8 DEF PollImport
  <2>2. /\ tasks[pre.task] \in Task /\ Ordered(tasks[pre.task]) /\ seen \in Task
        /\ PostPolls(post, pre.task, tasks) = Ahead(tasks[pre.task])
        /\ [tasks EXCEPT ![pre.task] = seen][pre.task] = seen
        /\ Ahead(seen) \in 0..6 /\ Ahead(seen) <= Ahead(tasks[pre.task])
        /\ Ahead(tasks[pre.task]) \in 0..6
    BY <1>1, <1>3, <2>1, SeenIsTask, AheadFalls DEF PostPolls
  <2>3. CASE tasks' = [tasks EXCEPT ![pre.task] = seen] /\ post' = ImportNext(seen)
    <3>1. CASE post' = post /\ seen.status \in {"Analysiert", "WirdImportiert"}
      <4>1. tasks[pre.task].status = "WirdImportiert"
        <5>1. tasks[pre.task].status \in {"WirdImportiert", "Importiert", "Abgebrochen"}
          BY <2>1 DEF RunIsPolled, MyTask
        <5>2. tasks[pre.task].status \in {"Importiert", "Abgebrochen"}
                 => seen = tasks[pre.task]
          BY <2>2, AdvancedKeeps
        <5> QED
          BY <3>1, <5>1, <5>2
      <4>2. Ahead(seen) < Ahead(tasks[pre.task])
        BY <2>2, <4>1, PollShowsMore
      <4> HIDE DEF seen
      <4>3. PostPolls(post', pre'.task, tasks') = Ahead(seen)
        BY <1>3, <2>1, <2>2, <2>3, <3>1 DEF PostPolls
      <4>4. (post.tries - post'.tries)
               + (PostPolls(post', pre'.task, tasks') - PostPolls(post, pre.task, tasks)) < 0
        BY <1>1, <2>2, <3>1, <4>2, <4>3
      <4> QED
        BY <3>1, <4>4, PostAgain
    <3> HIDE DEF seen
    <3>2. CASE post' = [Goto("cleanup") EXCEPT !.imported = TRUE]
      <4>1. Goto("cleanup") \in Poststorage /\ Goto("cleanup").pc = "cleanup"
            /\ Goto("cleanup").attempt = post.attempt
        BY <1>1, PostAfter, PostTries DEF PostPC
      <4>2. post'.pc = "cleanup" /\ post'.attempt = post.attempt
        BY <3>2, <4>1 DEF Poststorage
      <4> QED
        BY <1>4, <4>2
    <3> QED
      BY <1>6, <2>3, <3>1, <3>2 DEF ImportNext
  <2>4. CASE tasks' \in {tasks, [tasks EXCEPT ![pre.task] = seen]} /\ post' = Retries
    <3> HIDE DEF seen
    <3>1. CASE post'.pc = "cleanup"
      BY <1>1, <1>4, <2>1, <2>4, <3>1, PostTries
    <3>2. CASE post'.pc = post.pc
      <4>1. PostPolls(post', pre'.task, tasks') \in {Ahead(seen), Ahead(tasks[pre.task])}
        BY <1>3, <2>1, <2>2, <2>4, <3>2 DEF PostPolls
      <4> QED
        BY <1>5, <2>2, <2>4, <4>1
    <3> QED
      BY <1>1, <2>4, <3>1, <3>2, PostTries
  <2> QED
    BY <1>6, <1>8, <2>3, <2>4 DEF PollImport, MyTask, Becomes
<1> QED
  BY <1>7, <1>8

\* What is polled has a run: a poll moves its task on.
LEMMA RunIsPolledStep ==
    ASSUME IngestInv, IngestInv', RunIsPolled, [Next]_vars
    PROVE  RunIsPolled'
<1>1. /\ TypeOK /\ TypeInv /\ tasks \in [Tasks -> Task]
      /\ post \in Poststorage /\ post' \in Poststorage
      /\ \A t \in Tasks : Ordered(tasks[t])
  <2>1. TypeInv /\ TypeInv'
    BY DEF IngestInv
  <2> QED
    BY <2>1 DEF TypeInv, TypeOK
<1>2. SUFFICES ASSUME post'.pc = "import"
               PROVE  tasks'[pre.task].status \in {"WirdImportiert", "Importiert", "Abgebrochen"}
                      /\ pre'.task = pre.task
  BY DEF RunIsPolled, MyTask
<1>3. CASE post.pc = "import"
  <2>1. pre' = pre /\ pre.task \in Tasks /\ pre.pc = "ended"
    BY <1>3, TaskInUse, WorkflowSteps
  <2>2. tasks[pre.task].status \in {"WirdImportiert", "Importiert", "Abgebrochen"}
    BY <1>3 DEF RunIsPolled, MyTask
  <2>3. tasks[pre.task].status \in {"Importiert", "Abgebrochen"} => tasks'[pre.task] = tasks[pre.task]
    BY <2>1, TaskSteps
  <2>4. CASE tasks[pre.task].status = "WirdImportiert"
    <3>1. \/ tasks'[pre.task] \in {tasks[pre.task], Advanced(tasks[pre.task])}
          \/ tasks'[pre.task] = Canceled(tasks[pre.task])
      BY <1>1, <1>3, <2>1
         DEF Next, PreStep, SubmitMetadata, PollAnalysis, AskForDecision, Package, PreCanceled,
             Decide, Stored, PostStep, CreateSession, DownloadMETS, CreateImportRun, PollImport,
             Cleanup, RetrySession, LoseWorker, CancelWorkflow, CancelTask, vars, MyTask, Becomes
    <3>2. tasks[pre.task] \in Task
      BY <1>1, <2>1
    <3>3. Advanced(tasks[pre.task]).status \in {"WirdImportiert", "Importiert"}
      BY <2>4, <3>2 DEF Advanced, Task
    <3>4. Canceled(tasks[pre.task]).status = "Abgebrochen"
      BY <3>2 DEF Canceled, Task
    <3> QED
      BY <2>1, <2>4, <3>1, <3>3, <3>4
  <2> QED
    BY <2>1, <2>2, <2>3, <2>4
<1>4. CASE post.pc # "import"
  <2>1. CreateImportRun /\ post' = Goto("import")
    <3>1. \A pc \in PostPC : Goto(pc).pc = pc /\ Goto(pc) \in Poststorage
      BY <1>1, PostAfter
    <3>2. Fails.pc = "cleanup" /\ Retries.pc \in {"cleanup", post.pc}
      BY <1>1, PostTries
    <3>3. ~Stored /\ ~DownloadMETS
      BY <1>2, <3>1, <3>2 DEF Stored, DownloadMETS, PostPC
    <3>4. ~CreateSession
      BY <1>2, <3>1, ZenonT(30) DEF CreateSession, Poststorage, PostPC
    <3>5. ~Cleanup
      <4>1. Goto("ended") \in Poststorage /\ Goto("ended").pc = "ended" /\ Goto("retry").pc = "retry"
        BY <3>1 DEF PostPC
      <4>2. \A r : [Goto("ended") EXCEPT !.returned = r].pc = "ended"
        BY <4>1 DEF Poststorage
      <4> QED
        BY <1>2, <4>1, <4>2 DEF Cleanup
    <3>6. ~RetrySession
      <4>1. /\ Goto("session") \in Poststorage /\ Goto("session").pc = "session"
            /\ Goto("ended") \in Poststorage /\ Goto("ended").pc = "ended"
        BY <3>1 DEF PostPC
      <4>2. /\ \A n : [Goto("session") EXCEPT !.attempt = n].pc = "session"
            /\ \A r : [Goto("ended") EXCEPT !.returned = r].pc = "ended"
        BY <4>1 DEF Poststorage
      <4> QED
        BY <1>2, <4>2 DEF RetrySession
    <3>7. ~PollImport
      BY <1>4 DEF PollImport
    <3>8. ~LoseWorker /\ ~CancelWorkflow
      <4>1. ASSUME LoseWorker \/ CancelWorkflow PROVE post'.pc = post.pc
        BY <1>1, <4>1 DEF LoseWorker, CancelWorkflow, Poststorage
      <4> QED
        BY <1>2, <1>4, <4>1
    <3>9. post' # post
      BY <1>2, <1>4
    <3>10. CreateImportRun
      BY <3>3, <3>4, <3>5, <3>6, <3>7, <3>8, <3>9
         DEF Next, PreStep, SubmitMetadata, PollAnalysis, AskForDecision, Package, PreCanceled,
             Decide, PostStep, CancelTask, vars
    <3> QED
      BY <1>2, <1>4, <3>2, <3>10 DEF CreateImportRun
  <2>2. pre' = pre /\ pre.task \in Tasks /\ tasks[pre.task] \in Task
    BY <1>1, <2>1, TaskInUse DEF CreateImportRun
  <2>3. Goto("import") # Fails /\ Goto("import") # Retries
    <3>1. Goto("import").pc = "import" /\ Fails.pc = "cleanup" /\ Retries.pc \in {"cleanup", post.pc}
      BY <1>1, PostTries DEF PostPC
    <3> QED
      BY <1>4, <3>1
  <2>4. PICK import \in ImportResults : tasks' = Becomes(WithRun(MyTask, ImportBehaviour, import))
    BY <2>1, <2>3 DEF CreateImportRun
  <2>5. tasks'[pre.task] = WithRun(MyTask, ImportBehaviour, import)
    BY <1>1, <2>2, <2>4 DEF Becomes
  <2>6. WithRun(MyTask, ImportBehaviour, import).status = "WirdImportiert"
    BY <2>2 DEF WithRun, MyTask, Task
  <2> QED
    BY <2>2, <2>5, <2>6
<1> QED
  BY <1>3, <1>4

\* What is done elsewhere, a cancellation of the task included, adds no steps.
LEMMA OthersAddNothing ==
    ASSUME IngestInv, IngestInv', [Next]_vars
    PROVE  /\ ~(PreStep \/ Decide) => PreLeft' <= PreLeft
           /\ ~(PostStep \/ Stored) => PostLeft' <= PostLeft
<1>1. /\ TypeOK /\ TypeInv /\ tasks \in [Tasks -> Task] /\ \A t \in Tasks : Ordered(tasks[t])
      /\ pre \in Preprocessing /\ post \in Poststorage
      /\ pre.tries \in Int /\ post.tries \in Int
  <2>1. TypeInv /\ TypeOK
    BY DEF IngestInv, TypeInv
  <2>2. pre.tries \in 1..MaxTries /\ post.tries \in 1..MaxTries
    BY <2>1, PreTries, PostTries
  <2> QED
    BY <2>1, <2>2 DEF TypeInv, TypeOK
<1>2. PreLeft \in Nat /\ PostLeft \in Nat
  BY LeftIsNumber
<1>3. CASE UNCHANGED vars
  <2>1. PreLeft' = PreLeft /\ PostLeft' = PostLeft
    BY <1>3 DEF PreLeft, PostLeft, vars
  <2> QED
    BY <1>2, <2>1
<1>4. CASE PreStep \/ Decide
  <2>1. post' = post /\ pre.pc # "ended"
    BY <1>4 DEF PreStep, SubmitMetadata, PollAnalysis, AskForDecision, Package, PreCanceled, Decide
  <2>2. post.pc = "idle"
    BY <2>1, TaskInUse
  <2>3. PostLeft' = PostLeft
    BY <2>1, <2>2 DEF PostLeft, PostSteps, PostPolls
  <2> QED
    BY <1>2, <1>4, <2>3
<1>5. CASE PostStep \/ Stored
  <2>1. pre' = pre /\ pre.pc = "ended"
    BY <1>5, TaskInUse DEF PostStep, CreateSession, DownloadMETS, CreateImportRun, PollImport,
                           Cleanup, RetrySession, Stored
  <2>2. PreLeft' = PreLeft
    BY <2>1 DEF PreLeft, PreSteps, PrePolls
  <2> QED
    BY <1>2, <1>5, <2>2
<1>6. CASE LoseWorker \/ CancelWorkflow
  <2>1. /\ tasks' = tasks /\ pre'.pc = pre.pc /\ pre'.tries = pre.tries /\ pre'.task = pre.task
        /\ post'.pc = post.pc /\ post'.tries = post.tries /\ post'.attempt = post.attempt
    BY <1>1, <1>6 DEF LoseWorker, CancelWorkflow, Preprocessing, Poststorage
  <2>2. PreLeft' = PreLeft
    BY <2>1 DEF PreLeft, PreSteps, PrePolls
  <2>3. PostLeft' = PostLeft
    BY <2>1 DEF PostLeft, PostSteps, PostPolls, SessionSteps
  <2> QED
    BY <1>2, <2>2, <2>3
<1>7. CASE \E t \in Tasks : CancelTask(t)
  <2>1. pre' = pre /\ post' = post
    BY <1>7 DEF CancelTask
  <2>2. ASSUME NEW t \in Tasks
        PROVE  /\ Ahead(tasks[t]) \in 0..6 /\ Ahead(tasks'[t]) \in 0..6
               /\ Ahead(tasks'[t]) <= Ahead(tasks[t])
    <3>1. tasks'[t] \in {tasks[t], Canceled(tasks[t])}
      BY <1>1, <1>7 DEF CancelTask
    <3> QED
      BY <1>1, <3>1, AheadFalls
  <2>3. PrePolls(pre', tasks') - PrePolls(pre, tasks) <= 0
    BY <2>1, <2>2, TaskInUse DEF PrePolls
  <2>4. PostPolls(post', pre'.task, tasks') - PostPolls(post, pre.task, tasks) <= 0
    BY <2>1, <2>2, TaskInUse DEF PostPolls
  <2>5. PreLeft' <= PreLeft
    <3>1. PrePolls(pre', tasks') \in Int /\ PrePolls(pre, tasks) \in Int
      BY <2>1, <2>2, TaskInUse DEF PrePolls
    <3>2. (pre.tries - pre'.tries) + (PrePolls(pre', tasks') - PrePolls(pre, tasks)) <= 0
      BY <1>1, <2>1, <2>3, <3>1
    <3> QED
      BY <2>1, <3>2, PreLess
  <2>6. PostLeft' <= PostLeft
    <3>1. PostPolls(post', pre'.task, tasks') \in Int /\ PostPolls(post, pre.task, tasks) \in Int
      BY <2>1, <2>2, TaskInUse DEF PostPolls
    <3>2. (post.tries - post'.tries)
             + (PostPolls(post', pre'.task, tasks') - PostPolls(post, pre.task, tasks)) <= 0
      BY <1>1, <2>1, <2>4, <3>1
    <3>3. SessionSteps(post') = SessionSteps(post)
      BY <2>1
    <3> QED
      BY <3>2, <3>3, PostLess
  <2> QED
    BY <2>5, <2>6
<1> QED
  BY <1>3, <1>4, <1>5, <1>6, <1>7 DEF Next

\* Every step of a workflow, polls, repeated attempts and sessions included, leaves it fewer
\* steps, and nothing else that happens (lost workers, cancellations, the other workflow) gives it
\* more.  That a poll counts rests on RunIsPolled: what is polled is on its way.
THEOREM SpecIngestEndsSoon ==
    Spec => /\ [](PreLeft \in Nat /\ PostLeft \in Nat)
            /\ []RunIsPolled
            /\ [][IF PreStep \/ Decide THEN PreLeft' < PreLeft ELSE PreLeft' <= PreLeft]_vars
            /\ [][IF PostStep \/ Stored THEN PostLeft' < PostLeft ELSE PostLeft' <= PostLeft]_vars
<1>1. IngestInv => PreLeft \in Nat /\ PostLeft \in Nat
  BY LeftIsNumber
<1>2. Init => RunIsPolled
  <2> SUFFICES ASSUME Init PROVE RunIsPolled
    OBVIOUS
  <2>1. 1 \in 1..MaxTries /\ 1 \in 1..MaxSessions
    BY IngestAssumption
  <2>2. post \in Poststorage /\ post.pc = "idle"
    BY <2>1 DEF Init, Poststorage, PostPC, Context, Outcomes
  <2> QED
    BY <2>2 DEF RunIsPolled
<1>3. ASSUME IngestInv, IngestInv', RunIsPolled, [Next]_vars PROVE RunIsPolled'
  BY <1>3, RunIsPolledStep
<1>4. ASSUME IngestInv, IngestInv', [Next]_vars
      PROVE  [IF PreStep \/ Decide THEN PreLeft' < PreLeft ELSE PreLeft' <= PreLeft]_vars
  BY <1>4, PreGoesOn, OthersAddNothing
<1>5. ASSUME IngestInv, IngestInv', RunIsPolled, [Next]_vars
      PROVE  [IF PostStep \/ Stored THEN PostLeft' < PostLeft ELSE PostLeft' <= PostLeft]_vars
  <2>1. CASE Stored
    <3>1. TypeOK
      BY <1>5 DEF IngestInv, TypeInv
    <3>2. post.pc = "idle" /\ post'.pc = "session" /\ post'.attempt = post.attempt
      BY <2>1, <3>1, PostTries DEF Stored, PostPC
    <3>3. PostStages["session"] < PostStages["idle"]
      BY DEF PostStages
    <3> QED
      BY <1>5, <2>1, <3>2, <3>3, PostNearer
  <2>2. CASE PostStep
    BY <1>5, <2>2, SessionGoesOn, ImportGoesOn DEF PostStep
  <2> QED
    BY <1>5, <2>1, <2>2, OthersAddNothing
<1>6. Spec => []RunIsPolled
  BY Invariant, <1>2, <1>3, PTL DEF Spec
<1> QED
  BY Invariant, <1>1, <1>4, <1>5, <1>6, PTL DEF Spec
==============================================================================
