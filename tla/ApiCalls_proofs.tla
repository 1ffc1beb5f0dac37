---------------------------- MODULE ApiCalls_proofs ----------------------------
(***************************************************************************)
(* Proofs about ApiCalls, for every set of executions, tasks and exports   *)
(* and any number of attempts.                                             *)
(***************************************************************************)
EXTENDS ApiCalls, FiniteSetTheorems, TLAPS

(***************************************************************************)
(* The mock: no request takes back a result that was shown.                *)
(***************************************************************************)

TaskInv(t) ==
    /\ t \in Mock!TaskState
    /\ t.importDone => t.task.status = "Importiert"
    /\ t.task.status \in {"Neu", "WirdImportiert"} => t.task.polls <= 1

Fresh(t) == t.task.status = "none" /\ ~t.analysisDone /\ ~t.importDone

HandlerInv(h) ==
    /\ h \in Mock!Handler
    /\ \A i \in TaskIds : TaskInv(h.tasks[i]) /\ (i > h.nextTask => Fresh(h.tasks[i]))

Keeps(t, u) ==
    /\ t.analysisDone => u.analysisDone /\ u.task.analysis = t.task.analysis
    /\ t.importDone => u.importDone /\ u.task.import = t.task.import

Grows(h, k) == \A i \in TaskIds : Keeps(h.tasks[i], k.tasks[i])

\* A status request keeps the configured results, and ends an import once.
LEMMA Advanced ==
    ASSUME NEW k \in Mock!Task, k.status \in {"Neu", "WirdImportiert"} => k.polls <= 1
    PROVE  /\ Mock!Advanced(k) \in Mock!Task
           /\ Mock!Advanced(k).status \in {"Neu", "WirdImportiert"} => Mock!Advanced(k).polls <= 1
           /\ Mock!Advanced(k).analysis = k.analysis
           /\ Mock!Advanced(k).import = k.import
           /\ k.status = "WirdImportiert" /\ k.polls > 0 => Mock!Advanced(k).status = "Importiert"
           /\ k.status = "Importiert" => Mock!Advanced(k).status = "Importiert"
<1>1. CASE k.status = "Neu"
  <2>1. k.polls \in {0, 1} /\ k.polls + 1 \in 0..2
    BY <1>1 DEF Mock!Task
  <2>2. k.polls = 0 => k.polls + 1 <= 1
    OBVIOUS
  <2>3. Mock!Advanced(k) = [k EXCEPT !.polls = k.polls + 1,
                                     !.status = IF k.polls = 0 THEN k.status ELSE "InAnalyse"]
    BY <1>1 DEF Mock!Advanced
  <2> QED
    BY <1>1, <2>1, <2>2, <2>3 DEF Mock!Task, Mock!TaskStatus
<1>2. CASE k.status = "InAnalyse"
  <2>1. Mock!Advanced(k) = [k EXCEPT !.status = "Analysiert"]
    BY <1>2 DEF Mock!Advanced
  <2> QED
    BY <1>2, <2>1 DEF Mock!Task, Mock!TaskStatus
<1>3. CASE k.status = "WirdImportiert"
  <2>1. k.polls \in {0, 1} /\ k.polls + 1 \in 0..2
    BY <1>3 DEF Mock!Task
  <2>2. k.polls = 0 => k.polls + 1 <= 1
    OBVIOUS
  <2>3. Mock!Advanced(k) = [k EXCEPT !.polls = k.polls + 1,
                                     !.status = IF k.polls = 0 THEN k.status ELSE "Importiert"]
    BY <1>3 DEF Mock!Advanced
  <2>4. Mock!Advanced(k) \in Mock!Task
    BY <1>3, <2>1, <2>3 DEF Mock!Task, Mock!TaskStatus
  <2>5. /\ Mock!Advanced(k).analysis = k.analysis /\ Mock!Advanced(k).import = k.import
        /\ Mock!Advanced(k).polls = k.polls + 1
        /\ Mock!Advanced(k).status = IF k.polls = 0 THEN k.status ELSE "Importiert"
    BY <2>3 DEF Mock!Task
  <2> QED
    BY <1>3, <2>1, <2>2, <2>4, <2>5
<1>4. CASE k.status \notin {"Neu", "InAnalyse", "WirdImportiert"}
  <2>1. Mock!Advanced(k) = k
    BY <1>4 DEF Mock!Advanced
  <2> QED
    BY <1>4, <2>1
<1> QED
  BY <1>1, <1>2, <1>3, <1>4

\* A task goes on and keeps what it has shown.
LEMMA AdvanceTask ==
    ASSUME NEW t, TaskInv(t)
    PROVE  TaskInv(Mock!advanceTask(t)) /\ Keeps(t, Mock!advanceTask(t))
<1> DEFINE k == t.task
           a == Mock!Advanced(k)
<1>1. k \in Mock!Task /\ t \in Mock!TaskState
  BY DEF TaskInv, Mock!TaskState
<1>2. /\ a \in Mock!Task /\ a.analysis = k.analysis /\ a.import = k.import
      /\ a.status \in {"Neu", "WirdImportiert"} => a.polls <= 1
      /\ k.status = "WirdImportiert" /\ k.polls > 0 => a.status = "Importiert"
      /\ k.status = "Importiert" => a.status = "Importiert"
  BY <1>1, Advanced DEF TaskInv
<1> HIDE DEF a
<1>3. Mock!advanceTask(t) =
        [t EXCEPT !.task = a,
                  !.analysisDone = IF k.status = "InAnalyse" THEN TRUE ELSE t.analysisDone,
                  !.importDone = IF k.status = "WirdImportiert" /\ k.polls > 0
                                 THEN TRUE ELSE t.importDone]
  BY DEF Mock!advanceTask, a
<1>4. QED
  BY <1>1, <1>2, <1>3 DEF TaskInv, Keeps, Mock!TaskState

\* What every endpoint does with the handler.
Good(h, r) == HandlerInv(r.handler) /\ Grows(h, r.handler)

\* A request that changes nothing.
LEMMA Unchanged ==
    ASSUME NEW h, HandlerInv(h), NEW r, r.handler = h
    PROVE  Good(h, r)
BY DEF Good, Grows, Keeps

\* A request that changes one task.
LEMMA OneTask ==
    ASSUME NEW h, HandlerInv(h), NEW id, Mock!Exists(h, id),
           NEW t, TaskInv(t), Keeps(h.tasks[id], t),
           NEW r, r.handler \in Mock!Handler, r.handler.nextTask = h.nextTask,
           r.handler.tasks = [h.tasks EXCEPT ![id] = t]
    PROVE  Good(h, r)
<1> DEFINE k == r.handler
           ts == [h.tasks EXCEPT ![id] = t]
<1>1. /\ h.tasks \in [TaskIds -> Mock!TaskState] /\ h.nextTask \in Nat
      /\ id \in TaskIds /\ ~(id > h.nextTask)
  BY IdsAssumption DEF HandlerInv, Mock!Handler, Mock!Exists, Fresh
<1>2. ts \in [TaskIds -> Mock!TaskState] /\ ts[id] = t
      /\ \A i \in TaskIds : i # id => ts[i] = h.tasks[i]
  BY <1>1 DEF TaskInv
<1>3. k.tasks = ts /\ k.nextTask = h.nextTask /\ k \in Mock!Handler
  OBVIOUS
<1> HIDE DEF ts, k
<1>4. \A i \in TaskIds : TaskInv(k.tasks[i]) /\ (i > k.nextTask => Fresh(k.tasks[i]))
  BY <1>1, <1>2, <1>3, IdsAssumption DEF HandlerInv
<1>5. \A i \in TaskIds : Keeps(h.tasks[i], k.tasks[i])
  BY <1>2, <1>3 DEF Keeps
<1> QED
  BY <1>3, <1>4, <1>5 DEF Good, HandlerInv, Grows, k

\* A task is created in a place that had shown nothing.
LEMMA Post ==
    ASSUME NEW h, HandlerInv(h)
    PROVE  Good(h, Mock!ImporttasksPost(h))
<1> DEFINE id == h.nextTask + 1
           t == [Mock!NoTask EXCEPT !.task = Mock!Created(h.analysis)]
           k == [h EXCEPT !.nextTask = id, !.tasks[id] = t]
<1>1. /\ h.tasks \in [TaskIds -> Mock!TaskState] /\ h.nextTask \in Nat /\ h.nextRun \in Nat
      /\ h = [tasks |-> h.tasks, nextTask |-> h.nextTask, nextRun |-> h.nextRun,
              analysis |-> h.analysis, import |-> h.import]
      /\ h.analysis \in Mock!AnalysisResults /\ h.import \in Mock!ImportResults
  BY DEF HandlerInv, Mock!Handler
<1>2. TaskInv(t)
  <2>1. Mock!Created(h.analysis) \in Mock!Task /\ Mock!Created(h.analysis).polls = 0
        /\ Mock!Created(h.analysis).status = "Neu"
    <3>1. Mock!Unknown \in Mock!Task /\ Mock!Unknown.polls = 0
      BY DEF Mock!Unknown, Mock!Task, Mock!TaskStatus, Mock!AnalysisResults, Mock!ImportResults
    <3> QED
      BY <1>1, <3>1 DEF Mock!Created, Mock!Task, Mock!TaskStatus
  <2>2. /\ t.task = Mock!Created(h.analysis) /\ ~t.analysisDone /\ ~t.importDone
        /\ t \in Mock!TaskState
    <3>1. Mock!NoTask \in Mock!TaskState /\ ~Mock!NoTask.analysisDone /\ ~Mock!NoTask.importDone
      BY DEF Mock!NoTask, Mock!NoId, Mock!Unknown, Mock!TaskState, Mock!Task, Mock!TaskStatus,
             Mock!AnalysisResults, Mock!ImportResults
    <3> QED
      BY <2>1, <3>1 DEF Mock!TaskState
  <2> HIDE DEF t
  <2>3. QED
    BY <2>1, <2>2 DEF TaskInv, Mock!TaskState
<1>3. Mock!ImporttasksPost(h).handler = k
  BY DEF Mock!ImporttasksPost, Mock!Done
<1> HIDE DEF t
<1> DEFINE ts == [h.tasks EXCEPT ![id] = t]
<1>4. /\ ts \in [TaskIds -> Mock!TaskState]
      /\ \A i \in TaskIds : ts[i] = IF i = id THEN t ELSE h.tasks[i]
  BY <1>1, <1>2 DEF TaskInv
<1> DEFINE j == [h EXCEPT !.nextTask = id]
<1>5. j \in Mock!Handler /\ j.tasks = h.tasks /\ j.nextTask = id
      /\ k = [j EXCEPT !.tasks[id] = t]
  BY <1>1 DEF HandlerInv, Mock!Handler
<1> HIDE DEF j
<1>6. k \in Mock!Handler /\ k.tasks = ts /\ k.nextTask = h.nextTask + 1
  BY <1>1, <1>4, <1>5 DEF Mock!Handler
<1> HIDE DEF ts, k
<1>7. \A i \in TaskIds : TaskInv(k.tasks[i]) /\ (i > k.nextTask => Fresh(k.tasks[i]))
  BY <1>1, <1>2, <1>4, <1>6, IdsAssumption DEF HandlerInv
<1>8. ASSUME NEW i \in TaskIds PROVE Keeps(h.tasks[i], k.tasks[i])
  <2>1. i = id => Fresh(h.tasks[i])
    BY <1>1 DEF HandlerInv
  <2>2. QED
    BY <2>1, <1>4, <1>6 DEF Keeps, Fresh
<1> QED
  BY <1>3, <1>6, <1>7, <1>8 DEF Good, HandlerInv, Grows

\* A cancellation comes before the import has ended.
LEMMA Cancel ==
    ASSUME NEW h, HandlerInv(h), NEW id
    PROVE  Good(h, Mock!IDCancelPost(h, id))
<1>1. CASE ~Mock!Exists(h, id) \/ ~Mock!Cancelable(h.tasks[id].task)
  <2>1. Mock!IDCancelPost(h, id).handler = h
    BY <1>1 DEF Mock!IDCancelPost, Mock!Done
  <2> QED
    BY <2>1, Unchanged
<1>2. CASE Mock!Exists(h, id) /\ Mock!Cancelable(h.tasks[id].task)
  <2> DEFINE t == h.tasks[id]
             u == [t EXCEPT !.task = Mock!Canceled(@)]
  <2>1. id \in TaskIds /\ TaskInv(t) /\ t.task \in Mock!Task /\ h.nextRun \in Nat
        /\ h.tasks \in [TaskIds -> Mock!TaskState]
    BY <1>2 DEF HandlerInv, TaskInv, Mock!Exists, Mock!TaskState, Mock!Handler
  <2>2. /\ Mock!Canceled(t.task) \in Mock!Task
        /\ Mock!Canceled(t.task).analysis = t.task.analysis
        /\ Mock!Canceled(t.task).status = "Abgebrochen"
    BY <2>1 DEF Mock!Canceled, Mock!Task, Mock!TaskStatus
  <2>3. ~t.importDone
    BY <1>2, <2>1 DEF Mock!Cancelable, TaskInv
  <2>4. TaskInv(u) /\ Keeps(t, u)
    BY <2>1, <2>2, <2>3 DEF TaskInv, Keeps, Mock!TaskState
  <2>5. Mock!IDCancelPost(h, id).handler = [h EXCEPT !.tasks[id].task = Mock!Canceled(@)]
    BY <1>2 DEF Mock!IDCancelPost, Mock!Done
  <2> DEFINE r == Mock!IDCancelPost(h, id)
  <2>6. r.handler \in Mock!Handler /\ r.handler.nextTask = h.nextTask
        /\ r.handler.tasks = [h.tasks EXCEPT ![id] = u]
    BY <2>1, <2>4, <2>5 DEF HandlerInv, TaskInv, Mock!Handler
  <2> HIDE DEF u, r
  <2> QED
    BY <1>2, <2>4, <2>6, OneTask DEF r
<1> QED
  BY <1>1, <1>2

\* A run starts when the analysis is done and no import was.
LEMMA StartRun ==
    ASSUME NEW h, HandlerInv(h), NEW id, NEW b \in Mock!Behaviours \cup {"none"}
    PROVE  Good(h, Mock!IDImportrunsPost(h, id, b))
<1>1. CASE ~Mock!Exists(h, id) \/ ~Mock!RunAccepted(h.tasks[id].task)
  <2>1. Mock!IDImportrunsPost(h, id, b).handler = h
    BY <1>1 DEF Mock!IDImportrunsPost, Mock!Done
  <2> QED
    BY <2>1, Unchanged
<1>2. CASE Mock!Exists(h, id) /\ Mock!RunAccepted(h.tasks[id].task)
  <2> DEFINE t == h.tasks[id]
             run == h.nextRun + 1
             w == Mock!WithRun(t.task, b, h.import)
             u == [t EXCEPT !.runID = run, !.task = w]
  <2>1. id \in TaskIds /\ TaskInv(t) /\ t.task \in Mock!Task /\ run \in Nat
        /\ t \in Mock!TaskState /\ h.import \in Mock!ImportResults
        /\ h.tasks \in [TaskIds -> Mock!TaskState]
    BY <1>2 DEF HandlerInv, TaskInv, Mock!Exists, Mock!TaskState, Mock!Handler
  <2>2. w \in Mock!Task /\ w.analysis = t.task.analysis /\ w.polls = 0
        /\ w.status = "WirdImportiert"
    <3> DEFINE v == [t.task EXCEPT !.run = b, !.status = "WirdImportiert"]
               x == [v EXCEPT !.polls = 0]
    <3>1. v \in Mock!Task /\ v.analysis = t.task.analysis /\ v.status = "WirdImportiert"
      BY <2>1 DEF Mock!Task, Mock!TaskStatus
    <3>2. w = [x EXCEPT !.import = h.import]
      BY DEF Mock!WithRun
    <3> HIDE DEF v
    <3>3. x \in Mock!Task /\ x.analysis = t.task.analysis /\ x.status = "WirdImportiert"
          /\ x.polls = 0
      BY <3>1 DEF Mock!Task
    <3> HIDE DEF x
    <3> QED
      BY <2>1, <3>2, <3>3 DEF Mock!Task
  <2>3. ~t.importDone
    BY <1>2, <2>1 DEF Mock!RunAccepted, TaskInv
  <2> HIDE DEF w
  <2>4. TaskInv(u) /\ Keeps(t, u)
    <3>1. u \in Mock!TaskState /\ u.task = w /\ u.analysisDone = t.analysisDone
          /\ u.importDone = t.importDone
      BY <2>1, <2>2 DEF Mock!TaskState
    <3> QED
      BY <2>2, <2>3, <3>1 DEF TaskInv, Keeps
  <2>5. Mock!IDImportrunsPost(h, id, b).handler
          = [h EXCEPT !.nextRun = run, !.tasks[id].runID = run,
                      !.tasks[id].task = Mock!WithRun(@, b, h.import)]
    BY <1>2 DEF Mock!IDImportrunsPost, Mock!Done
  <2> DEFINE r == Mock!IDImportrunsPost(h, id, b)
  <2>6. r.handler \in Mock!Handler /\ r.handler.nextTask = h.nextTask
        /\ r.handler.tasks = [h.tasks EXCEPT ![id] = u]
    <3> DEFINE v == [t EXCEPT !.runID = run]
               i == [h EXCEPT !.nextRun = run]
               j == [i EXCEPT !.tasks[id] = v]
    <3>1. i \in Mock!Handler /\ i.nextTask = h.nextTask /\ i.tasks = h.tasks
          /\ i.import = h.import
      BY <2>1 DEF HandlerInv, Mock!Handler
    <3>2. v \in Mock!TaskState /\ v.task = t.task /\ u = [v EXCEPT !.task = w]
      BY <2>1 DEF Mock!TaskState
    <3>3. j = [i EXCEPT !.tasks[id].runID = run]
      BY <3>1 DEF Mock!Handler
    <3>4. r.handler = [j EXCEPT !.tasks[id].task = Mock!WithRun(@, b, h.import)]
      <4>1. r.handler = [[i EXCEPT !.tasks[id].runID = run]
                           EXCEPT !.tasks[id].task = Mock!WithRun(@, b, h.import)]
        BY <2>1, <2>5 DEF HandlerInv, Mock!Handler
      <4> HIDE DEF i, v, j, r
      <4> QED
        BY <3>3, <4>1
    <3> HIDE DEF i, v, u, t
    <3>5. j \in Mock!Handler /\ j.nextTask = h.nextTask /\ j.tasks = [h.tasks EXCEPT ![id] = v]
      BY <2>1, <3>1, <3>2 DEF Mock!Handler
    <3> HIDE DEF j
    <3>6. r.handler = [j EXCEPT !.tasks[id] = u]
      BY <2>1, <3>2, <3>4, <3>5 DEF w, t
    <3> QED
      BY <2>1, <2>4, <3>5, <3>6 DEF Mock!Handler, TaskInv
  <2> HIDE DEF u, r
  <2> QED
    BY <1>2, <2>4, <2>6, OneTask DEF r
<1> QED
  BY <1>1, <1>2

\* Only a task that exists goes on when it is asked for.
LEMMA Status ==
    ASSUME NEW h, HandlerInv(h), NEW id
    PROVE  Good(h, Mock!IDStatusGet(h, id))
<1>1. CASE ~Mock!Exists(h, id)
  <2>1. Mock!IDStatusGet(h, id).handler = h
    BY <1>1 DEF Mock!IDStatusGet, Mock!Done
  <2> QED
    BY <2>1, Unchanged
<1>2. CASE Mock!Exists(h, id)
  <2> DEFINE t == h.tasks[id]
             u == Mock!advanceTask(t)
  <2>1. id \in TaskIds /\ TaskInv(t) /\ h.nextRun \in Nat
        /\ h.tasks \in [TaskIds -> Mock!TaskState]
    BY <1>2 DEF HandlerInv, Mock!Exists, Mock!Handler
  <2>2. TaskInv(u) /\ Keeps(t, u)
    BY <2>1, AdvanceTask
  <2>4. Mock!IDStatusGet(h, id).handler = [h EXCEPT !.tasks[id] = u]
    BY <1>2 DEF Mock!IDStatusGet, Mock!Done
  <2> DEFINE r == Mock!IDStatusGet(h, id)
  <2>5. r.handler \in Mock!Handler /\ r.handler.nextTask = h.nextTask
        /\ r.handler.tasks = [h.tasks EXCEPT ![id] = u]
    BY <2>1, <2>2, <2>4 DEF HandlerInv, TaskInv, Mock!Handler
  <2> HIDE DEF u, r
  <2> QED
    BY <1>2, <2>2, <2>5, OneTask DEF r
<1> QED
  BY <1>1, <1>2

(***************************************************************************)
(* From the request of an execution to its endpoint and back.              *)
(***************************************************************************)

\* The router takes the requests of the client to their handlers.
LEMMA Routes ==
    ASSUME NEW h, NEW s
    PROVE  LET q == RequestOf(s)
               w == s.work
               r == Mock!ServeHTTP(h, q)
           IN /\ s.op = "createTask" => r = Mock!handleImporttasksPost(h, q)
              /\ s.op = "createRun"  => r = Mock!handleImportrunsPost(h, q, w.id)
              /\ s.op \in {"pollTask", "pollRun"} => r = Mock!handleStatusGet(h, q, w.id)
              /\ s.op = "cancel"     => r = Mock!handleCancelPost(h, q, w.id)
              /\ s.op = "runStatus"  => r = Mock!handleRunStatusGet(h, q, w.id, w.run)
              /\ s.op = "health"     => r = Mock!handleHealthzGet(h, q)
<1> DEFINE q == RequestOf(s)
           w == s.work
           r == Mock!ServeHTTP(h, q)
<1>1. ASSUME s.op = "createTask" PROVE r = Mock!handleImporttasksPost(h, q)
  <2>1. q.path = <<"api", "importtasks">> /\ q.method = "POST"
    BY <1>1 DEF RequestOf, Client!sendImporttasksPost, Client!Request
  <2> HIDE DEF q
  <2> QED
    BY <2>1 DEF Mock!ServeHTTP, Mock!Only
<1>2. ASSUME s.op = "createRun" PROVE r = Mock!handleImportrunsPost(h, q, w.id)
  <2>1. q.path = <<"api", "importtasks", w.id, "importruns">> /\ q.method = "POST"
    BY <1>2 DEF RequestOf, Client!sendImportrunsPost, Client!Request, Client!OfTask
  <2> HIDE DEF q
  <2>2. r = Mock!ServeTask(h, q, q.path, w.id)
    BY <2>1 DEF Mock!ServeHTTP
  <2> QED
    BY <2>1, <2>2 DEF Mock!ServeTask, Mock!Only
<1>3. ASSUME s.op \in {"pollTask", "pollRun"} PROVE r = Mock!handleStatusGet(h, q, w.id)
  <2>1. q.path = <<"api", "importtasks", w.id, "status">> /\ q.method = "GET"
    BY <1>3 DEF RequestOf, Client!sendStatusGet, Client!Request, Client!OfTask
  <2> HIDE DEF q
  <2>2. r = Mock!ServeTask(h, q, q.path, w.id)
    BY <2>1 DEF Mock!ServeHTTP
  <2> QED
    BY <2>1, <2>2 DEF Mock!ServeTask, Mock!Only
<1>4. ASSUME s.op = "cancel" PROVE r = Mock!handleCancelPost(h, q, w.id)
  <2>1. q.path = <<"api", "importtasks", w.id, "cancel">> /\ q.method = "POST"
    BY <1>4 DEF RequestOf, Client!sendCancelPost, Client!Request, Client!OfTask
  <2> HIDE DEF q
  <2>2. r = Mock!ServeTask(h, q, q.path, w.id)
    BY <2>1 DEF Mock!ServeHTTP
  <2> QED
    BY <2>1, <2>2 DEF Mock!ServeTask, Mock!Only
<1>5. ASSUME s.op = "runStatus" PROVE r = Mock!handleRunStatusGet(h, q, w.id, w.run)
  <2>1. q.path = <<"api", "importtasks", w.id, "importruns", w.run, "status">>
        /\ q.method = "GET"
    BY <1>5 DEF RequestOf, Client!sendRunStatusGet, Client!Request, Client!OfRun
  <2> HIDE DEF q
  <2>2. r = Mock!ServeTask(h, q, q.path, w.id)
    BY <2>1 DEF Mock!ServeHTTP
  <2> QED
    BY <2>1, <2>2 DEF Mock!ServeTask, Mock!Only
<1>6. ASSUME s.op = "health" PROVE r = Mock!handleHealthzGet(h, q)
  <2>1. q.path = <<"api", "healthz">> /\ q.method = "GET"
    BY <1>6 DEF RequestOf, Client!sendHealthzGet, Client!Request
  <2> HIDE DEF q
  <2> QED
    BY <2>1 DEF Mock!ServeHTTP, Mock!Only
<1> QED
  BY <1>1, <1>2, <1>3, <1>4, <1>5, <1>6

\* A handler refuses, or answers with what its endpoint has done.
LEMMA ReplyIsGood ==
    ASSUME NEW h, HandlerInv(h), NEW answer
    PROVE  Good(h, Mock!Reply(h, answer))
BY Unchanged DEF Mock!Reply

\* What the endpoints do, the handlers do, or nothing.
LEMMA Handlers ==
    ASSUME NEW h, HandlerInv(h), NEW q, NEW id, NEW run
    PROVE  /\ Good(h, Mock!handleImporttasksPost(h, q))
           /\ Mock!Get(q.form, "importBehaviour", "none") \in Mock!Behaviours
                  => Good(h, Mock!handleImportrunsPost(h, q, id))
           /\ Good(h, Mock!handleStatusGet(h, q, id))
           /\ Good(h, Mock!handleCancelPost(h, q, id))
           /\ Good(h, Mock!handleRunStatusGet(h, q, id, run))
           /\ Good(h, Mock!handleHealthzGet(h, q))
<1> USE ReplyIsGood
<1>1. \A d, a : Good(h, d) => Good(h, Mock!Reply(d.handler, a))
  BY DEF Good, Mock!Reply
<1>2. Good(h, Mock!handleImporttasksPost(h, q))
  BY <1>1, Post DEF Mock!handleImporttasksPost, Mock!Staged
<1>3. ASSUME Mock!Get(q.form, "importBehaviour", "none") \in Mock!Behaviours
      PROVE  Good(h, Mock!handleImportrunsPost(h, q, id))
  <2> DEFINE b == IF Mock!NoBody(q) THEN "none"
                  ELSE Mock!Get(q.form, "importBehaviour", "none")
  <2>1. b \in Mock!Behaviours \cup {"none"}
    BY <1>3
  <2> HIDE DEF b
  <2>2. Good(h, Mock!IDImportrunsPost(h, id, b))
    BY <2>1, StartRun
  <2> QED
    BY <1>1, <2>2 DEF Mock!handleImportrunsPost, Mock!Staged, b
<1>4. Good(h, Mock!handleStatusGet(h, q, id))
  BY <1>1, Status DEF Mock!handleStatusGet, Mock!Staged
<1>5. Good(h, Mock!handleCancelPost(h, q, id))
  BY <1>1, Cancel DEF Mock!handleCancelPost, Mock!Staged
<1>6. Good(h, Mock!handleRunStatusGet(h, q, id, run))
  <2>1. Mock!IDRunStatusGet(h, id, run).handler = h
    BY DEF Mock!IDRunStatusGet, Mock!Done
  <2> QED
    BY <1>1, <2>1, Unchanged DEF Mock!handleRunStatusGet, Mock!Staged
<1>7. Good(h, Mock!handleHealthzGet(h, q))
  <2>1. Mock!HealthzGet(h).handler = h
    BY DEF Mock!HealthzGet, Mock!Done
  <2> QED
    BY <1>1, <2>1, Unchanged DEF Mock!handleHealthzGet, Mock!Staged
<1> QED
  BY <1>2, <1>3, <1>4, <1>5, <1>6, <1>7

\* Whatever an execution asks the mock, nothing that was shown is taken back.
LEMMA ServeIsGood ==
    ASSUME NEW h, HandlerInv(h), NEW s, s.op \in ApisOps, s.work \in Work
    PROVE  Good(h, Mock!ServeHTTP(h, RequestOf(s)))
<1> DEFINE q == RequestOf(s)
<1>1. s.op = "createRun" => Mock!Get(q.form, "importBehaviour", "none") \in Mock!Behaviours
  <2> SUFFICES ASSUME s.op = "createRun"
               PROVE  Mock!Get(q.form, "importBehaviour", "none") \in Mock!Behaviours
    OBVIOUS
  <2>1. q.form = Client!ImportrunsPostReq(s.work.behaviour, User)
    BY DEF RequestOf, Client!sendImportrunsPost, Client!Request
  <2>2. "importBehaviour" \in DOMAIN q.form
        /\ q.form["importBehaviour"] = Client!Text(s.work.behaviour)
    BY <2>1 DEF Client!ImportrunsPostReq
  <2>3. Client!Text(s.work.behaviour).kind = "string"
        /\ Client!Text(s.work.behaviour).is = s.work.behaviour
    BY DEF Client!Text, Client!Value
  <2> HIDE DEF q
  <2>4. Mock!Get(q.form, "importBehaviour", "none") = s.work.behaviour
    BY <2>2, <2>3 DEF Mock!Get, Mock!Has
  <2> QED
    BY <2>4 DEF Work
<1> HIDE DEF q
<1>2. PICK r : r = Mock!ServeHTTP(h, q)
  OBVIOUS
<1>3. /\ s.op = "createTask" => r = Mock!handleImporttasksPost(h, q)
      /\ s.op = "createRun"  => r = Mock!handleImportrunsPost(h, q, s.work.id)
      /\ s.op \in {"pollTask", "pollRun"} => r = Mock!handleStatusGet(h, q, s.work.id)
      /\ s.op = "cancel"     => r = Mock!handleCancelPost(h, q, s.work.id)
      /\ s.op = "runStatus"  => r = Mock!handleRunStatusGet(h, q, s.work.id, s.work.run)
      /\ s.op = "health"     => r = Mock!handleHealthzGet(h, q)
  BY <1>2, Routes DEF q
<1>4. Good(h, r)
  BY <1>1, <1>3, Handlers DEF ApisOps
<1> QED
  BY <1>2, <1>4 DEF q

(***************************************************************************)
(* What the answers of the mock say.                                       *)
(***************************************************************************)

\* The framework refuses a request before it gets to its endpoint.
Refused(h, r) == \E code \in {400, 401, 415} : r = Mock!Reply(h, Mock!Framework(code))

\* An answer of the framework is a refusal.
LEMMA Refusals ==
    ASSUME NEW h, NEW r, Refused(h, r)
    PROVE  r.answer.code \in {400, 401, 415}
<1>1. PICK code \in {400, 401, 415} : r = Mock!Reply(h, Mock!Framework(code))
  BY DEF Refused
<1>2. Mock!Framework(code).code = code
  BY DEF Mock!Framework, Mock!Answer
<1>3. r.answer = Mock!Framework(code)
  BY <1>1 DEF Mock!Reply
<1> QED
  BY <1>2, <1>3

\* Any other answer is what the endpoint returned.
LEMMA Encoding ==
    ASSUME NEW res, res.code # 204, NEW problems
    PROVE  /\ Mock!Encoded(res, problems).code = res.code
           /\ Mock!Encoded(res, problems).value.is = res.body
BY DEF Mock!Encoded, Mock!Answer, Mock!Object, Mock!Value

\* A created task is answered with its ID.
LEMMA TaskAnswer ==
    ASSUME NEW h, HandlerInv(h), NEW q, NEW r, r = Mock!handleImporttasksPost(h, q),
           r.answer.code = 201
    PROVE  LET b == r.answer.value.is IN
           /\ "importTaskId" \in DOMAIN b
           /\ b["importTaskId"].is = r.handler.nextTask
           /\ r.handler.nextTask # h.nextTask
<1> DEFINE d == Mock!ImporttasksPost(h)
<1>1. r = Mock!Reply(d.handler, Mock!encodeImporttasksPost(d.res))
  <2>1. r = Mock!Reply(d.handler, Mock!encodeImporttasksPost(d.res)) \/ Refused(h, r)
    BY DEF Mock!handleImporttasksPost, Mock!Staged, Mock!decodeImporttasksPostRequest, Mock!Body,
           Refused
  <2> QED
    BY <2>1, Refusals
<1>2. /\ d.res = Mock!Res(201, Mock!CreateImportTaskResponse(h.nextTask + 1))
      /\ d.handler.nextTask = h.nextTask + 1 /\ h.nextTask \in Nat
  BY DEF Mock!ImporttasksPost, Mock!Done, HandlerInv, Mock!Handler
<1> HIDE DEF d
<1>3. r.answer.value.is = Mock!CreateImportTaskResponse(h.nextTask + 1)
      /\ r.handler.nextTask = h.nextTask + 1
  BY <1>1, <1>2, Encoding DEF Mock!Reply, Mock!encodeImporttasksPost, Mock!Res
<1> QED
  BY <1>2, <1>3 DEF Mock!CreateImportTaskResponse, Mock!Text, Mock!Value

\* A created run is answered with its ID.
LEMMA RunAnswer ==
    ASSUME NEW h, HandlerInv(h), NEW q, NEW id, NEW r, r = Mock!handleImportrunsPost(h, q, id),
           r.answer.code = 201
    PROVE  LET b == r.answer.value.is IN
           /\ "importRunId" \in DOMAIN b
           /\ b["importRunId"].is = r.handler.nextRun
           /\ r.handler.nextRun # h.nextRun
<1> DEFINE b == IF Mock!NoBody(q) THEN "none" ELSE Mock!Get(q.form, "importBehaviour", "none")
           d == Mock!IDImportrunsPost(h, id, b)
<1>1. r = Mock!Reply(d.handler, Mock!encodeImportrunsPost(d.res))
  <2>1. r = Mock!Reply(d.handler, Mock!encodeImportrunsPost(d.res)) \/ Refused(h, r)
    BY DEF Mock!handleImportrunsPost, Mock!Staged, Mock!decodeImportrunsPostRequest, Mock!Body,
           Refused
  <2> QED
    BY <2>1, Refusals
<1> HIDE DEF b
<1>2. \/ d.res.code \in {400, 404}
      \/ /\ d.res = Mock!Res(201, Mock!CreateImportRunResponse(h.nextRun + 1))
         /\ d.handler.nextRun = h.nextRun + 1
  <2>1. CASE ~Mock!Exists(h, id) \/ ~Mock!RunAccepted(h.tasks[id].task)
    <3>1. d \in {Mock!Done(h, Mock!problem(404)), Mock!Done(h, Mock!problem(400))}
      BY <2>1 DEF Mock!IDImportrunsPost
    <3> HIDE DEF d
    <3> QED
      <4>1. d.res \in {Mock!problem(404), Mock!problem(400)}
        BY <3>1 DEF Mock!Done
      <4>2. \A code : Mock!problem(code).code = code
        BY DEF Mock!problem, Mock!Res
      <4> QED
        BY <4>1, <4>2
  <2>2. CASE Mock!Exists(h, id) /\ Mock!RunAccepted(h.tasks[id].task)
    <3> DEFINE i == [h EXCEPT !.nextRun = h.nextRun + 1]
               j == [i EXCEPT !.tasks[id].runID = h.nextRun + 1]
               k == [j EXCEPT !.tasks[id].task = Mock!WithRun(@, b, h.import)]
    <3>1. d = Mock!Done(k, Mock!Res(201, Mock!CreateImportRunResponse(h.nextRun + 1)))
      BY <2>2 DEF Mock!IDImportrunsPost, HandlerInv, Mock!Handler
    <3>2. i.nextRun = h.nextRun + 1 /\ i \in Mock!Handler
      BY DEF HandlerInv, Mock!Handler
    <3>3. k.nextRun = h.nextRun + 1
      BY <3>2 DEF Mock!Handler
    <3> HIDE DEF k, d
    <3> QED
      BY <3>1, <3>3 DEF Mock!Done
  <2> QED
    BY <2>1, <2>2
<1>3. h.nextRun \in Nat
  BY DEF HandlerInv, Mock!Handler
<1> HIDE DEF d
<1>4. r.answer.value.is = Mock!CreateImportRunResponse(h.nextRun + 1)
      /\ r.handler.nextRun = h.nextRun + 1
  <2>1. d.res.code # 204 /\ r.answer = Mock!Encoded(d.res, Mock!ImportrunsPostProblems)
        /\ r.handler = d.handler
    BY <1>1, <1>2 DEF Mock!Reply, Mock!encodeImportrunsPost, Mock!Res
  <2>2. d.res.code = 201 /\ r.answer.value.is = d.res.body
    BY <2>1, Encoding
  <2> QED
    BY <1>2, <2>1, <2>2 DEF Mock!Res
<1> QED
  BY <1>3, <1>4 DEF Mock!CreateImportRunResponse, Mock!Text, Mock!Value

\* A status that is answered shows the results of the task that are done.
LEMMA StatusAnswer ==
    ASSUME NEW h, HandlerInv(h), NEW q, NEW id, NEW r, r = Mock!handleStatusGet(h, q, id),
           r.answer.code = 200
    PROVE  LET b == r.answer.value.is
               t == r.handler.tasks[id]
           IN /\ id \in TaskIds
              /\ "status" \in DOMAIN b
              /\ "analysisResult" \in DOMAIN b =>
                     t.analysisDone /\ b["analysisResult"].is = t.task.analysis
              /\ "importResult" \in DOMAIN b =>
                     t.importDone /\ b["importResult"].is = t.task.import
<1> DEFINE d == Mock!IDStatusGet(h, id)
           t == Mock!advanceTask(h.tasks[id])
           analysis == IF t.analysisDone THEN t.task.analysis ELSE "unset"
           import == IF t.importDone THEN t.task.import ELSE "unset"
           f == [status |-> Mock!Text(t.task.status), analysisResult |-> Mock!Opt(analysis),
                 importResult |-> Mock!Opt(import)]
<1>1. r = Mock!Reply(d.handler, Mock!encodeStatusGet(d.res))
  <2>1. r = Mock!Reply(d.handler, Mock!encodeStatusGet(d.res)) \/ Refused(h, r)
    BY DEF Mock!handleStatusGet, Mock!Staged, Mock!NoRequestBody, Refused
  <2> QED
    BY <2>1, Refusals
<1>2. \/ d.res.code = 404
      \/ /\ d.res = Mock!Res(200, Mock!Fields(f))
         /\ d.handler = [h EXCEPT !.tasks[id] = t]
         /\ id \in TaskIds
  <2>1. CASE ~Mock!Exists(h, id)
    <3>1. d = Mock!Done(h, Mock!problem(404))
      BY <2>1 DEF Mock!IDStatusGet
    <3> HIDE DEF d
    <3> QED
      BY <3>1 DEF Mock!Done, Mock!problem, Mock!Res
  <2>2. CASE Mock!Exists(h, id)
    <3>1. id \in TaskIds
      BY <2>2 DEF Mock!Exists
    <3>2. d = Mock!Done([h EXCEPT !.tasks[id] = t], Mock!Res(200, Mock!taskStatusResponse(t)))
      BY <2>2, Zenon DEF Mock!IDStatusGet
    <3>3. Mock!taskStatusResponse(t) = Mock!Fields(f)
      BY Zenon DEF Mock!taskStatusResponse, Mock!ImportTaskStatusResponse
    <3> HIDE DEF d, t, f
    <3> QED
      BY <3>1, <3>2, <3>3 DEF Mock!Done
  <2> QED
    BY <2>1, <2>2
<1> HIDE DEF d, t
<1>3. /\ r.answer.value.is = Mock!Fields(f) /\ id \in TaskIds
      /\ r.handler = [h EXCEPT !.tasks[id] = t]
  <2>1. d.res.code # 204 /\ r.answer = Mock!Encoded(d.res, Mock!StatusGetProblems)
        /\ r.handler = d.handler
    BY <1>1, <1>2 DEF Mock!Reply, Mock!encodeStatusGet, Mock!Res
  <2>2. d.res.code = 200 /\ r.answer.value.is = d.res.body
    BY <2>1, Encoding
  <2> QED
    BY <1>2, <2>1, <2>2 DEF Mock!Res
<1>4. r.handler.tasks[id] = t
  BY <1>3 DEF HandlerInv, Mock!Handler
<1>5. /\ f["status"].kind = "string" /\ "status" \in DOMAIN f
      /\ f["analysisResult"] = Mock!Opt(analysis)
      /\ f["importResult"] = Mock!Opt(import)
  BY DEF Mock!Text, Mock!Value
<1>6. /\ Mock!Opt(analysis).kind # "unset" =>
             t.analysisDone /\ Mock!Opt(analysis).is = t.task.analysis
      /\ Mock!Opt(import).kind # "unset" =>
             t.importDone /\ Mock!Opt(import).is = t.task.import
  BY DEF Mock!Opt, Mock!Text, Mock!Unset, Mock!Value
<1> HIDE DEF f, analysis, import
<1>7. /\ "status" \in DOMAIN Mock!Fields(f)
      /\ \A n \in DOMAIN Mock!Fields(f) : Mock!Fields(f)[n] = f[n] /\ f[n].kind # "unset"
  BY <1>5 DEF Mock!Fields
<1> QED
  BY <1>3, <1>4, <1>5, <1>6, <1>7

(***************************************************************************)
(* ACTApro.                                                                *)
(***************************************************************************)

\* An error, which changes nothing.
Failed(e, r) == r.exports = e /\ r.answer.code # 200

\* An error has its code.
LEMMA ErrorsFail ==
    ASSUME NEW e, NEW code \in {400, 401, 403, 404, 423}
    PROVE  Failed(e, Service!Reply(e, Service!ErrorOf(code)))
<1>1. Service!ErrorOf(code).code = code
  BY DEF Service!ErrorOf, Service!Answer
<1> QED
  BY <1>1 DEF Failed, Service!Reply

\* An error at any time, or the refusal of a token.
LEMMA FaultsFail ==
    ASSUME NEW e, NEW q, NEW r \in Service!Faulted(e, q)
    PROVE  Failed(e, r)
<1>1. PICK code \in {401, 403, 423} : r = Service!Reply(e, Service!ErrorOf(code))
  BY DEF Service!Faulted, Service!Faults
<1> QED
  BY <1>1, ErrorsFail

\* An answer with a value.
LEMMA Answered ==
    ASSUME NEW e, NEW value
    PROVE  /\ Service!Reply(e, Service!OK(value)).exports = e
           /\ Service!Reply(e, Service!OK(value)).answer.code = 200
           /\ Service!Reply(e, Service!OK(value)).answer.value = value
BY DEF Service!Reply, Service!OK, Service!Answer

\* An answer may have neither ID nor status.
LEMMA NoInfoTells ==
    DOMAIN Service!NoInfo.is = {"description"}
BY DEF Service!NoInfo, Service!Object, Service!Value

\* The answer about an export has both.
LEMMA InfoTells ==
    ASSUME NEW id, NEW status
    PROVE  /\ Service!Info(id, status).is["id"].is = id
           /\ Service!Info(id, status).is["status"].is = status
BY DEF Service!Info, Service!Object, Service!Value, Service!Text

\* A new export has the ID that is answered, if one is.
LEMMA CreateServes ==
    ASSUME NEW e \in Service!Exports, NEW r \in Service!Create(e)
    PROVE  \/ Failed(e, r)
           \/ \E id \in ExportIds :
                 /\ e[id] = "none"
                 /\ r.exports = [e EXCEPT ![id] = "RUNNING"]
                 /\ "id" \in DOMAIN r.answer.value.is => r.answer.value.is["id"].is = id
<1>1. CASE r = Service!Reply(e, Service!ErrorOf(400))
  BY <1>1, ErrorsFail
<1>2. CASE r # Service!Reply(e, Service!ErrorOf(400))
  <2>1. PICK id \in ExportIds :
          /\ e[id] = "none"
          /\ \E v \in {Service!Info(id, "RUNNING"), Service!NoInfo} :
                r = Service!Reply([e EXCEPT ![id] = "RUNNING"], Service!OK(v))
    BY <1>2 DEF Service!Create
  <2>2. PICK v \in {Service!Info(id, "RUNNING"), Service!NoInfo} :
          r = Service!Reply([e EXCEPT ![id] = "RUNNING"], Service!OK(v))
    BY <2>1
  <2>3. r.exports = [e EXCEPT ![id] = "RUNNING"] /\ r.answer.value = v
    BY <2>2, Answered
  <2>4. "id" \in DOMAIN v.is => v.is["id"].is = id
    BY NoInfoTells, InfoTells
  <2> QED
    BY <2>1, <2>3, <2>4
<1> QED
  BY <1>1, <1>2

\* The status that is answered is the one of the export.
LEMMA InfoServes ==
    ASSUME NEW e, NEW id, NEW r \in Service!GetInfo(e, id)
    PROVE  \/ Failed(e, r)
           \/ /\ r.exports = e /\ id \in ExportIds
              /\ "status" \in DOMAIN r.answer.value.is => r.answer.value.is["status"].is = e[id]
<1>1. CASE ~Service!Known(e, id)
  <2>1. r = Service!Reply(e, Service!ErrorOf(404))
    BY <1>1 DEF Service!GetInfo, Service!OfExport
  <2> QED
    BY <2>1, ErrorsFail
<1>2. CASE Service!Known(e, id)
  <2>1. PICK v \in {Service!Info(id, e[id]), Service!NoInfo} :
          r = Service!Reply(e, Service!OK(v))
    BY <1>2 DEF Service!GetInfo, Service!OfExport
  <2>2. r.exports = e /\ r.answer.value = v
    BY <2>1, Answered
  <2>3. "status" \in DOMAIN v.is => v.is["status"].is = e[id]
    BY NoInfoTells, InfoTells
  <2> QED
    BY <1>2, <2>2, <2>3 DEF Service!Known
<1> QED
  BY <1>1, <1>2

\* The logs of an export change nothing.
LEMMA LogsServe ==
    ASSUME NEW e, NEW id, NEW r \in Service!GetLogs(e, id)
    PROVE  r.exports = e
BY DEF Service!GetLogs, Service!OfExport, Service!Reply

\* The file of an export is there when it is completed.
LEMMA FileServes ==
    ASSUME NEW e, NEW id, NEW r \in Service!GetFile(e, id)
    PROVE  \/ Failed(e, r)
           \/ /\ r.exports = e /\ id \in ExportIds /\ e[id] = "completed"
              /\ r.answer.value = Service!Bytes(id)
<1>1. CASE ~(Service!Known(e, id) /\ e[id] = "completed")
  <2>1. r = Service!Reply(e, Service!ErrorOf(404))
    BY <1>1 DEF Service!GetFile
  <2> QED
    BY <2>1, ErrorsFail
<1>2. CASE Service!Known(e, id) /\ e[id] = "completed"
  <2>1. PICK type : r = Service!Reply(e, Service!Answer(200, type, Service!File(id)))
    BY <1>2 DEF Service!GetFile
  <2> QED
    BY <1>2, <2>1 DEF Service!Known, Service!Reply, Service!Answer, Service!File
<1> QED
  BY <1>1, <1>2

\* A document is there, or it is not.
LEMMA DocumentServes ==
    ASSUME NEW e, NEW key, NEW r \in Service!GetDocument(e, key)
    PROVE  \/ Failed(e, r)
           \/ r.exports = e /\ key = 1 /\ r.answer.value = Service!Document
<1>1. CASE key = 1
  <2>1. r = Service!Reply(e, Service!OK(Service!Document))
    BY <1>1 DEF Service!GetDocument
  <2> QED
    BY <1>1, <2>1, Answered
<1>2. CASE key # 1
  <2>1. r = Service!Reply(e, Service!ErrorOf(404))
    BY <1>2 DEF Service!GetDocument
  <2> QED
    BY <2>1, ErrorsFail
<1> QED
  BY <1>1, <1>2

\* A request is for what the execution asks for.
LEMMA ServiceRoutes ==
    ASSUME NEW e, NEW s, s.op \in ActaproOps, NEW r \in Service!Serve(e, RequestOf(s))
    PROVE  \/ Failed(e, r)
           \/ s.op = "createExport" /\ r \in Service!Create(e)
           \/ s.op = "pollExport" /\ r \in Service!GetInfo(e, s.work.id)
           \/ s.op = "exportLogs" /\ r \in Service!GetLogs(e, s.work.id)
           \/ s.op = "download" /\ r \in Service!GetFile(e, s.work.id)
           \/ s.op = "document" /\ r \in Service!GetDocument(e, s.work.id)
<1> DEFINE q == RequestOf(s)
           id == s.work.id
<1>1. /\ s.op = "createExport" => q.path = <<"massoperation", "export">>
      /\ s.op = "pollExport" => q.path = <<"massoperation", id, "info">>
      /\ s.op = "exportLogs" => q.path = <<"massoperation", id, "logs">>
      /\ s.op = "download" => q.path = <<"massoperation", "export", "binary", id>>
      /\ s.op = "document" => q.path = <<"document", id, "json">>
  BY DEF RequestOf, Actapro!sendCreateExport, Actapro!sendInfo, Actapro!sendLogs,
         Actapro!sendExportFile, Actapro!sendDocument, Actapro!Request
<1> HIDE DEF q, id
<1>0. r \in Service!Serve(e, q)
  BY DEF q
<1>2. CASE r \in Service!Faulted(e, q)
  BY <1>2, FaultsFail
<1>3. CASE r \notin Service!Faulted(e, q)
  <2>1. /\ q.token = "valid"
        /\ r \in CASE Len(q.path) = 2 -> Service!Create(e)
                   [] Len(q.path) = 4 -> Service!GetFile(e, q.path[4])
                   [] Len(q.path) = 3 /\ q.path[1] = "document"
                        -> Service!GetDocument(e, q.path[2])
                   [] Len(q.path) = 3 /\ q.path[3] = "info" -> Service!GetInfo(e, q.path[2])
                   [] Len(q.path) = 3 /\ q.path[3] = "logs" -> Service!GetLogs(e, q.path[2])
    BY <1>0, <1>3, Zenon DEF Service!Serve
  <2>2. CASE s.op = "createExport"
    <3>1. Len(q.path) = 2
      BY <1>1, <2>2
    <3> QED
      BY <2>1, <2>2, <3>1
  <2>3. CASE s.op = "pollExport"
    <3>1. Len(q.path) = 3 /\ q.path[1] # "document" /\ q.path[2] = id /\ q.path[3] = "info"
      BY <1>1, <2>3
    <3> QED
      BY <2>1, <2>3, <3>1 DEF id
  <2>4. CASE s.op = "exportLogs"
    <3>1. Len(q.path) = 3 /\ q.path[1] # "document" /\ q.path[2] = id /\ q.path[3] = "logs"
      BY <1>1, <2>4
    <3> QED
      BY <2>1, <2>4, <3>1 DEF id
  <2>5. CASE s.op = "download"
    <3>1. Len(q.path) = 4 /\ q.path[4] = id
      BY <1>1, <2>5
    <3> QED
      BY <2>1, <2>5, <3>1 DEF id
  <2>6. CASE s.op = "document"
    <3>1. Len(q.path) = 3 /\ q.path[1] = "document" /\ q.path[2] = id /\ q.path[3] = "json"
      BY <1>1, <2>6
    <3> QED
      BY <2>1, <2>6, <3>1 DEF id
  <2> QED
    BY <2>2, <2>3, <2>4, <2>5, <2>6 DEF ActaproOps
<1> QED
  BY <1>2, <1>3

(***************************************************************************)
(* What the activities make of an answer.                                  *)
(***************************************************************************)

\* The IDs of the document, of which one group has none and one an empty one.
LEMMA DocumentIDs ==
    ASSUME NEW d, d["block"] = Service!Document.is["block"]
    PROVE  Actapro!AIPUUIDs(d) = Service!AIPs
<1> DEFINE note == Service!Field("Vermerk", 3)
           f(n) == Service!Field("AIP_ID", n)
           titel == Service!Field("Titel", 3)
           g1 == Service!Group(1, 0)
           g2 == Service!Group(2, 1)
           g3 == [type |-> Service!Text("AIP_ID_Gp")]
           groups == {g1, g2, g3}
<1>1. d.block.is.fields.is = <<titel, g1, g2, g3>>
  BY DEF Service!Document, Service!Object, Service!Array, Service!Value, Service!NoId
<1>2. /\ titel.type.is = "Titel" /\ g1.type.is = "AIP_ID_Gp"
      /\ g2.type.is = "AIP_ID_Gp" /\ g3.type.is = "AIP_ID_Gp"
      /\ Actapro!FieldsOf(g1) = <<f(1), f(0), note>>
      /\ Actapro!FieldsOf(g2) = <<f(2), f(1), note>>
      /\ Actapro!FieldsOf(g3) = <<>>
  BY DEF Service!Field, Service!Group, Service!Text, Service!Array, Service!Value,
         Actapro!FieldsOf, Actapro!Has
<1>3. /\ note.type.is = "Vermerk"
      /\ \A n : f(n).type.is = "AIP_ID" /\ Actapro!Get(f(n), "value", Actapro!NoId) = n
  BY DEF Service!Field, Service!Text, Service!Value, Actapro!Get, Actapro!Has
<1> HIDE DEF note, f, titel, g1, g2, g3
<1>4. Actapro!OfType(<<titel, g1, g2, g3>>, "AIP_ID_Gp") = {g1, g2, g3}
  BY <1>2 DEF Actapro!OfType
<1>5. /\ Actapro!OfType(<<f(1), f(0), note>>, "AIP_ID") = {f(1), f(0)}
      /\ Actapro!OfType(<<f(2), f(1), note>>, "AIP_ID") = {f(2), f(1)}
      /\ Actapro!OfType(<<>>, "AIP_ID") = {}
  BY <1>3 DEF Actapro!OfType
<1> DEFINE fields == UNION {Actapro!OfType(Actapro!FieldsOf(g), "AIP_ID") : g \in groups}
<1>6. fields = {f(0), f(1), f(2)}
  BY <1>2, <1>5
<1>7. Actapro!AIPUUIDs(d)
        = {Actapro!Get(x, "value", Actapro!NoId) : x \in fields} \ {Actapro!NoId}
  BY <1>1, <1>4 DEF Actapro!AIPUUIDs
<1> HIDE DEF fields
<1>8. {Actapro!Get(x, "value", Actapro!NoId) : x \in fields} = {0, 1, 2}
  BY <1>3, <1>6
<1> QED
  BY <1>7, <1>8 DEF Actapro!NoId, Service!AIPs

\* What an answer to an execution says is so.
Told(op, c, id, a) ==
    LET b == a.value.is IN
    /\ op = "createTask" /\ a.code = 201 =>
           "importTaskId" \in DOMAIN b /\ <<"task", c, b["importTaskId"].is>> \in Facts
    /\ op = "createRun" /\ a.code = 201 =>
           "importRunId" \in DOMAIN b /\ <<"run", c, b["importRunId"].is>> \in Facts
    /\ op \in {"pollTask", "pollRun"} /\ a.code = 200 =>
           /\ "status" \in DOMAIN b
           /\ "analysisResult" \in DOMAIN b => <<"analysis", id, b["analysisResult"].is>> \in Facts
           /\ "importResult" \in DOMAIN b => <<"import", id, b["importResult"].is>> \in Facts
    /\ op = "createExport" /\ a.code = 200 /\ "id" \in DOMAIN b =>
           <<"export", c, b["id"].is>> \in Facts
    /\ op = "pollExport" /\ a.code = 200 /\ "status" \in DOMAIN b =>
           LET status == Actapro!Upper(b["status"].is) IN
           status \in {"COMPLETED", "FAILED", "CANCELED"} => <<"ended", id, status>> \in Facts
    /\ op = "download" /\ a.code = 200 =>
           a.value.kind = "bytes" /\ <<"file", id, a.value.is>> \in Facts
    /\ op = "document" /\ a.code = 200 =>
           "block" \in DOMAIN b /\ b["block"] = Service!Document.is["block"] /\ id = 1

\* The logs are asked for with the status that was polled.
Ending(op, id, ended) ==
    op = "exportLogs" => ended \in {"FAILED", "CANCELED"} /\ <<"ended", id, ended>> \in Facts

\* What an activity returns of it, or goes on with.
Sound(op, c, id, v) ==
    /\ v.end = "ok" => Claims(c, op, id, v.value) \subseteq Facts
    /\ v.end = "logs" => op = "pollExport" /\ Ending("exportLogs", id, v.value)

\* An activity that does not return a value returns nothing untrue.
LEMMA Nothing ==
    ASSUME NEW op, NEW c, NEW id,
           NEW v \in {Client!Again, Client!Final, Client!Poll,
                      Actapro!Again, Actapro!Final, Actapro!Poll}
    PROVE  Sound(op, c, id, v)
<1>1. /\ Client!Again.end = "again" /\ Client!Final.end = "final" /\ Client!Poll.end = "poll"
      /\ Actapro!Again.end = "again" /\ Actapro!Final.end = "final" /\ Actapro!Poll.end = "poll"
  BY DEF Client!Again, Client!Final, Client!Poll, Client!Verdict,
         Actapro!Again, Actapro!Final, Actapro!Poll, Actapro!Verdict
<1>2. v.end \in {"again", "final", "poll"}
  BY <1>1
<1> QED
  BY <1>2 DEF Sound

\* The activities of APIS return what they were answered.
LEMMA ClientJudges ==
    ASSUME NEW op \in ApisOps, NEW c, NEW id, NEW a, NEW ended, Told(op, c, id, a)
    PROVE  Sound(op, c, id, Judgement(op, ended, a))
<1> DEFINE b == a.value.is
           v == Judgement(op, ended, a)
<1>0. \A x : Client!Ok(x).end = "ok" /\ Client!Ok(x).value = x
  BY DEF Client!Ok, Client!Verdict
<1>1. CASE op = "createTask"
  <2>1. v = Client!CreateImportTask(a)
    BY <1>1 DEF Judgement, Once
  <2>2. CASE v \in {Client!Again, Client!Final}
    BY <2>2, Nothing
  <2>3. CASE v \notin {Client!Again, Client!Final}
    <3>1. a.code = 201 /\ v = Client!Ok(b.importTaskId.is)
      BY <2>1, <2>3 DEF Client!CreateImportTask, Client!Id
    <3>2. <<"task", c, b["importTaskId"].is>> \in Facts
      BY <1>1, <3>1 DEF Told
    <3>3. v.end = "ok" /\ Claims(c, op, id, v.value) \subseteq Facts
      <4>1. v.end = "ok" /\ v.value = b["importTaskId"].is
        BY <1>0, <3>1
      <4> HIDE DEF v
      <4> QED
        BY <1>1, <3>2, <4>1 DEF Claims
    <3> QED
      BY <3>3 DEF Sound
  <2> QED
    BY <2>2, <2>3
<1>2. CASE op = "createRun"
  <2>1. v = Client!CreateImportRun(a)
    BY <1>2 DEF Judgement, Once
  <2>2. CASE v \in {Client!Again, Client!Final}
    BY <2>2, Nothing
  <2>3. CASE v \notin {Client!Again, Client!Final}
    <3>1. a.code = 201 /\ v = Client!Ok(b.importRunId.is)
      BY <2>1, <2>3 DEF Client!CreateImportRun, Client!Id
    <3>2. <<"run", c, b["importRunId"].is>> \in Facts
      BY <1>2, <3>1 DEF Told
    <3>3. v.end = "ok" /\ Claims(c, op, id, v.value) \subseteq Facts
      <4>1. v.end = "ok" /\ v.value = b["importRunId"].is
        BY <1>0, <3>1
      <4> HIDE DEF v
      <4> QED
        BY <1>2, <3>2, <4>1 DEF Claims
    <3> QED
      BY <3>3 DEF Sound
  <2> QED
    BY <2>2, <2>3
<1>3. CASE op = "pollTask"
  <2>1. v = Client!PollImportTaskStatus(a)
    BY <1>3 DEF Judgement, Once
  <2>2. CASE v \in {Client!Again, Client!Final, Client!Poll}
    BY <2>2, Nothing
  <2>3. CASE v \notin {Client!Again, Client!Final, Client!Poll}
    <3>1. a.code = 200 /\ Client!Has(b, "analysisResult")
          /\ v = Client!Ok(b["analysisResult"].is)
      BY <2>1, <2>3 DEF Client!PollImportTaskStatus, Client!PollStatus,
                        Client!AnalysisComplete, Client!Shown
    <3>2. <<"analysis", id, b["analysisResult"].is>> \in Facts
      BY <1>3, <3>1 DEF Told, Client!Has
    <3>3. v.end = "ok" /\ Claims(c, op, id, v.value) \subseteq Facts
      <4>1. v.end = "ok" /\ v.value = b["analysisResult"].is
        BY <1>0, <3>1
      <4> HIDE DEF v
      <4> QED
        BY <1>3, <3>2, <4>1 DEF Claims
    <3> QED
      BY <3>3 DEF Sound
  <2> QED
    BY <2>2, <2>3
<1>4. CASE op = "pollRun"
  <2>1. v = Client!PollImportRunStatus(a)
    BY <1>4 DEF Judgement, Once
  <2>2. CASE v \in {Client!Again, Client!Final, Client!Poll}
    BY <2>2, Nothing
  <2>3. CASE v \notin {Client!Again, Client!Final, Client!Poll}
    <3>1. a.code = 200 /\ Client!Has(b, "importResult")
          /\ v = Client!Ok(b["importResult"].is)
      BY <2>1, <2>3 DEF Client!PollImportRunStatus, Client!PollStatus,
                        Client!ImportComplete, Client!Shown
    <3>2. <<"import", id, b["importResult"].is>> \in Facts
      BY <1>4, <3>1 DEF Told, Client!Has
    <3>3. v.end = "ok" /\ Claims(c, op, id, v.value) \subseteq Facts
      <4>1. v.end = "ok" /\ v.value = b["importResult"].is
        BY <1>0, <3>1
      <4> HIDE DEF v
      <4> QED
        BY <1>4, <3>2, <4>1 DEF Claims
    <3> QED
      BY <3>3 DEF Sound
  <2> QED
    BY <2>2, <2>3
<1>5. CASE op \in Once
  <2>1. v \in {Client!Ok(""), Client!Again}
    BY <1>5 DEF Judgement, Once
  <2>2. Claims(c, op, id, v.value) = {}
    BY <1>5 DEF Claims, Once
  <2>3. v.end # "logs"
    <3>1. Client!Again.end = "again"
      BY DEF Client!Again, Client!Verdict
    <3> QED
      BY <1>0, <2>1, <3>1
  <2> QED
    BY <2>2, <2>3 DEF Sound
<1> QED
  BY <1>1, <1>2, <1>3, <1>4, <1>5 DEF ApisOps, Once

\* The activities of ACTApro return what they were answered.
LEMMA ActaproJudges ==
    ASSUME NEW op \in ActaproOps, NEW c, NEW id, NEW a, NEW ended,
           Told(op, c, id, a), Ending(op, id, ended)
    PROVE  Sound(op, c, id, Judgement(op, ended, a))
<1> DEFINE b == a.value.is
           v == Judgement(op, ended, a)
<1>0. \A x : Actapro!Ok(x).end = "ok" /\ Actapro!Ok(x).value = x
  BY DEF Actapro!Ok, Actapro!Verdict
<1>1. CASE op = "createExport"
  <2>1. v = Actapro!CreateExport(a)
    BY <1>1 DEF Judgement, Once
  <2>2. CASE v \in {Actapro!Again, Actapro!Final}
    BY <2>2, Nothing
  <2>3. CASE v \notin {Actapro!Again, Actapro!Final}
    <3>1. a.code = 200 /\ Actapro!Get(b, "id", Actapro!NoId) # Actapro!NoId
          /\ v = Actapro!Ok(Actapro!Get(b, "id", Actapro!NoId))
      BY <2>1, <2>3 DEF Actapro!CreateExport, Actapro!Judged, Actapro!Refusal, Actapro!Id
    <3>2. "id" \in DOMAIN b /\ v = Actapro!Ok(b["id"].is)
      BY <3>1 DEF Actapro!Get, Actapro!Has
    <3>3. <<"export", c, b["id"].is>> \in Facts
      BY <1>1, <3>1, <3>2 DEF Told
    <3>4. v.end = "ok" /\ v.value = b["id"].is
      BY <1>0, <3>2
    <3> HIDE DEF v
    <3>5. Claims(c, op, id, v.value) \subseteq Facts
      BY <1>1, <3>3, <3>4 DEF Claims
    <3> QED
      BY <3>4, <3>5 DEF Sound, v
  <2> QED
    BY <2>2, <2>3
<1>2. CASE op = "pollExport"
  <2> DEFINE status == Actapro!Get(b, "status", "")
  <2>1. v = Actapro!PollExportStatus(a)
    BY <1>2 DEF Judgement, Once
  <2>2. CASE v \in {Actapro!Again, Actapro!Final, Actapro!Poll}
    BY <2>2, Nothing
  <2>3. CASE v \notin {Actapro!Again, Actapro!Final, Actapro!Poll}
    <3>1. a.code = 200 /\ v = Actapro!ExportStatus(status)
      BY <2>1, <2>3 DEF Actapro!PollExportStatus, Actapro!Judged, Actapro!Refusal
    <3> HIDE DEF v
    <3>2. /\ status # "" /\ Actapro!Upper(status) \in {"COMPLETED", "FAILED", "CANCELED"}
          /\ v = IF Actapro!Upper(status) = "COMPLETED" THEN Actapro!Ok("COMPLETED")
                 ELSE Actapro!Verdict("logs", Actapro!Upper(status))
      <4>1. Actapro!Upper("") = ""
        BY DEF Actapro!Upper
      <4>2. CASE status = ""
        BY <2>3, <3>1, <4>1, <4>2 DEF Actapro!ExportStatus
      <4>3. CASE status # ""
        <5> HIDE DEF status
        <5> QED
          BY <2>3, <3>1, <4>3 DEF Actapro!ExportStatus
      <4> QED
        BY <4>2, <4>3
    <3>3. "status" \in DOMAIN b /\ status = b["status"].is
      BY <3>2 DEF Actapro!Get, Actapro!Has
    <3>4. <<"ended", id, Actapro!Upper(status)>> \in Facts
      BY <1>2, <3>1, <3>2, <3>3 DEF Told
    <3> HIDE DEF status
    <3>5. CASE Actapro!Upper(status) = "COMPLETED"
      <4>1. v.end = "ok" /\ v.value = "COMPLETED"
        BY <1>0, <3>2, <3>5
      <4>2. Claims(c, op, id, v.value) \subseteq Facts
        BY <1>2, <3>4, <3>5, <4>1 DEF Claims
      <4> QED
        BY <4>1, <4>2 DEF Sound, v
    <3>6. CASE Actapro!Upper(status) # "COMPLETED"
      <4>1. v.end = "logs" /\ v.value = Actapro!Upper(status)
        BY <3>2, <3>6 DEF Actapro!Verdict
      <4> QED
        BY <1>2, <3>2, <3>4, <3>6, <4>1 DEF Sound, Ending, v
    <3> QED
      BY <3>5, <3>6
  <2> QED
    BY <2>2, <2>3
<1>3. CASE op = "exportLogs"
  <2>1. v = Actapro!ExportLogs(a, ended)
    BY <1>3 DEF Judgement, Once
  <2>2. CASE v \in {Actapro!Again, Actapro!Final}
    BY <2>2, Nothing
  <2>3. CASE v \notin {Actapro!Again, Actapro!Final}
    <3>1. v = Actapro!Ok(ended)
      BY <2>1, <2>3 DEF Actapro!ExportLogs, Actapro!Judged, Actapro!Refusal
    <3>2. v.end = "ok" /\ v.value = ended
      BY <1>0, <3>1
    <3> HIDE DEF v
    <3>3. Claims(c, op, id, v.value) \subseteq Facts
      BY <1>3, <3>2 DEF Claims, Ending
    <3> QED
      BY <3>2, <3>3 DEF Sound, v
  <2> QED
    BY <2>2, <2>3
<1>4. CASE op = "download"
  <2>1. v = Actapro!DownloadExport(a)
    BY <1>4 DEF Judgement, Once
  <2>2. CASE v \in {Actapro!Again, Actapro!Final}
    BY <2>2, Nothing
  <2>3. CASE v \notin {Actapro!Again, Actapro!Final}
    <3>1. a.code = 200 /\ v = Actapro!Ok(b)
      BY <2>1, <2>3 DEF Actapro!DownloadExport, Actapro!Judged, Actapro!Refusal
    <3>2. v.end = "ok" /\ v.value = b /\ <<"file", id, b>> \in Facts
      BY <1>0, <1>4, <3>1 DEF Told
    <3> HIDE DEF v
    <3>3. Claims(c, op, id, v.value) \subseteq Facts
      BY <1>4, <3>2 DEF Claims
    <3> QED
      BY <3>2, <3>3 DEF Sound, v
  <2> QED
    BY <2>2, <2>3
<1>5. CASE op = "document"
  <2>1. v = Actapro!GetDocument(a)
    BY <1>5 DEF Judgement, Once
  <2>2. CASE v \in {Actapro!Again, Actapro!Final}
    BY <2>2, Nothing
  <2>3. CASE v \notin {Actapro!Again, Actapro!Final}
    <3>1. a.code = 200 /\ v = Actapro!Ok(Actapro!AIPUUIDs(b))
      BY <2>1, <2>3 DEF Actapro!GetDocument, Actapro!Judged, Actapro!Refusal, Actapro!Collected
    <3>2. b["block"] = Service!Document.is["block"] /\ id = 1
      BY <1>5, <3>1 DEF Told
    <3>3. v.end = "ok" /\ v.value = Service!AIPs
      BY <1>0, <3>1, <3>2, DocumentIDs
    <3> HIDE DEF v
    <3>4. Claims(c, op, id, v.value) \subseteq Facts
      BY <1>5, <3>2, <3>3 DEF Claims, Facts
    <3> QED
      BY <3>3, <3>4 DEF Sound, v
  <2> QED
    BY <2>2, <2>3
<1> QED
  BY <1>1, <1>2, <1>3, <1>4, <1>5 DEF ActaproOps

\* An activity does one of five things with an answer.
LEMMA Verdicts ==
    ASSUME NEW op \in Ops, NEW a, NEW ended
    PROVE  Judgement(op, ended, a).end \in {"ok", "final", "again", "poll", "logs"}
<1> DEFINE v == Judgement(op, ended, a)
           Five == {"ok", "final", "again", "poll", "logs"}
<1>1. /\ \A x : Client!Ok(x).end = "ok"
      /\ Client!Again.end = "again" /\ Client!Final.end = "final" /\ Client!Poll.end = "poll"
      /\ \A x : Actapro!Ok(x).end = "ok"
      /\ Actapro!Again.end = "again" /\ Actapro!Final.end = "final" /\ Actapro!Poll.end = "poll"
      /\ \A x : Actapro!Verdict("logs", x).end = "logs"
  BY DEF Client!Ok, Client!Again, Client!Final, Client!Poll, Client!Verdict,
         Actapro!Ok, Actapro!Again, Actapro!Final, Actapro!Poll, Actapro!Verdict
<1>2. CASE op = "createTask"
  <2>1. v = Client!CreateImportTask(a)
    BY <1>2 DEF Judgement, Once
  <2> HIDE DEF v
  <2>2. v = Client!Again \/ v = Client!Final \/ \E x : v = Client!Ok(x)
    BY <2>1 DEF Client!CreateImportTask, Client!Id
  <2> QED
    BY <1>1, <2>2 DEF v
<1>3. CASE op = "createRun"
  <2>1. v = Client!CreateImportRun(a)
    BY <1>3 DEF Judgement, Once
  <2> HIDE DEF v
  <2>2. v = Client!Again \/ v = Client!Final \/ \E x : v = Client!Ok(x)
    BY <2>1 DEF Client!CreateImportRun, Client!Id
  <2> QED
    BY <1>1, <2>2 DEF v
<1>4. CASE op = "pollTask"
  <2>1. v = Client!PollImportTaskStatus(a)
    BY <1>4 DEF Judgement, Once
  <2> HIDE DEF v
  <2>2. v = Client!Again \/ v = Client!Final \/ v = Client!Poll \/ \E x : v = Client!Ok(x)
    BY <2>1 DEF Client!PollImportTaskStatus, Client!PollStatus, Client!AnalysisComplete,
                Client!Shown
  <2> QED
    BY <1>1, <2>2 DEF v
<1>5. CASE op = "pollRun"
  <2>1. v = Client!PollImportRunStatus(a)
    BY <1>5 DEF Judgement, Once
  <2> HIDE DEF v
  <2>2. v = Client!Again \/ v = Client!Final \/ v = Client!Poll \/ \E x : v = Client!Ok(x)
    BY <2>1 DEF Client!PollImportRunStatus, Client!PollStatus, Client!ImportComplete,
                Client!Shown
  <2> QED
    BY <1>1, <2>2 DEF v
<1>6. CASE op \in Once
  <2>1. v = Client!Ok("") \/ v = Client!Again
    BY <1>6 DEF Judgement, Once
  <2> HIDE DEF v
  <2> QED
    BY <1>1, <2>1 DEF v
<1>7. CASE op = "createExport"
  <2>1. v = Actapro!CreateExport(a)
    BY <1>7 DEF Judgement, Once
  <2> HIDE DEF v
  <2>2. v = Actapro!Again \/ v = Actapro!Final \/ \E x : v = Actapro!Ok(x)
    BY <2>1 DEF Actapro!CreateExport, Actapro!Judged, Actapro!Refusal, Actapro!Id
  <2> QED
    BY <1>1, <2>2 DEF v
<1>8. CASE op = "pollExport"
  <2>1. v = Actapro!PollExportStatus(a)
    BY <1>8 DEF Judgement, Once
  <2> HIDE DEF v
  <2>2. v = Actapro!Again \/ v = Actapro!Final \/ \E x : v = Actapro!ExportStatus(x)
    BY <2>1, ZenonT(30) DEF Actapro!PollExportStatus, Actapro!Judged, Actapro!Refusal
  <2>3. ASSUME NEW x, v = Actapro!ExportStatus(x) PROVE v.end \in Five
    <3>1. v = Actapro!Final \/ v = Actapro!Ok("COMPLETED")
          \/ v = Actapro!Verdict("logs", Actapro!Upper(x)) \/ v = Actapro!Poll
      <4>1. Actapro!Upper("") = ""
        BY DEF Actapro!Upper
      <4>2. CASE x = ""
        BY <2>3, <4>1, <4>2 DEF Actapro!ExportStatus
      <4>3. CASE x # ""
        BY <2>3, <4>3 DEF Actapro!ExportStatus
      <4> QED
        BY <4>2, <4>3
    <3> QED
      BY <1>1, <3>1
  <2> QED
    BY <1>1, <2>2, <2>3 DEF v
<1>9. CASE op = "exportLogs"
  <2>1. v = Actapro!ExportLogs(a, ended)
    BY <1>9 DEF Judgement, Once
  <2> HIDE DEF v
  <2>2. v = Actapro!Again \/ v = Actapro!Final \/ v = Actapro!Ok(ended)
    BY <2>1 DEF Actapro!ExportLogs, Actapro!Judged, Actapro!Refusal
  <2> QED
    BY <1>1, <2>2 DEF v
<1>10. CASE op = "download"
  <2>1. v = Actapro!DownloadExport(a)
    BY <1>10 DEF Judgement, Once
  <2> HIDE DEF v
  <2>2. v = Actapro!Again \/ v = Actapro!Final \/ \E x : v = Actapro!Ok(x)
    BY <2>1 DEF Actapro!DownloadExport, Actapro!Judged, Actapro!Refusal
  <2> QED
    BY <1>1, <2>2 DEF v
<1>11. CASE op = "document"
  <2>1. v = Actapro!GetDocument(a)
    BY <1>11 DEF Judgement, Once
  <2> HIDE DEF v
  <2>2. v = Actapro!Again \/ v = Actapro!Final \/ \E x : v = Actapro!Ok(x)
    BY <2>1 DEF Actapro!GetDocument, Actapro!Judged, Actapro!Refusal, Actapro!Collected
  <2> QED
    BY <1>1, <2>2 DEF v
<1> QED
  BY <1>2, <1>3, <1>4, <1>5, <1>6, <1>7, <1>8, <1>9, <1>10, <1>11
     DEF Ops, ApisOps, ActaproOps, Once

\* What holds of either service, and that a value is one about the service.
LEMMA Judges ==
    ASSUME NEW op \in Ops, NEW c, NEW id, NEW a, NEW ended,
           Told(op, c, id, a), Ending(op, id, ended)
    PROVE  LET v == Judgement(op, ended, a) IN
           /\ Sound(op, c, id, v)
           /\ v.end \in {"ok", "final", "again", "poll", "logs"}
           /\ op \notin Once /\ v.end = "ok" => Claims(c, op, id, v.value) # {}
<1>1. op \in ApisOps \/ op \in ActaproOps
  BY DEF Ops
<1>2. Sound(op, c, id, Judgement(op, ended, a))
  BY <1>1, ClientJudges, ActaproJudges
<1>3. ASSUME NEW value, op \notin Once PROVE Claims(c, op, id, value) # {}
  BY <1>1, <1>3 DEF Claims, ApisOps, ActaproOps, Once
<1> QED
  BY <1>2, <1>3, Verdicts

(***************************************************************************)
(* The inductive invariant.                                                *)
(***************************************************************************)

\* An execution is somewhere in its attempts; what it was answered is so, and so
\* is what it has returned.
CallInv(c) ==
    /\ call[c].phase # "idle" => call[c].try >= 1
    /\ \/ call[c].op = call[c].work.op
       \/ call[c].op = "exportLogs" /\ call[c].work.op = "pollExport"
    /\ Ending(call[c].op, call[c].work.id, call[c].ended)
    /\ wire[c].at = "answer" => Told(call[c].op, c, call[c].work.id, wire[c].answer)
    /\ got[c] \subseteq Facts
    /\ call[c].phase = "returned" /\ call[c].work.op \notin Once => got[c] # {}

IInv ==
    /\ TypeOK
    /\ HandlerInv(apis)
    /\ \A c \in Calls : CallInv(c)

\* No fact is taken back.
LEMMA FactsStay ==
    ASSUME Grows(apis, apis'), made \subseteq made',
           \A id \in ExportIds : exports[id] \in Service!Ended => exports'[id] = exports[id]
    PROVE  Facts \subseteq Facts'
<1> SUFFICES ASSUME NEW f \in Facts PROVE f \in Facts'
  OBVIOUS
<1>1. CASE f \in made
  BY <1>1 DEF Facts
<1>2. CASE \E i \in TaskIds : apis.tasks[i].analysisDone
                              /\ f = <<"analysis", i, apis.tasks[i].task.analysis>>
  <2>1. PICK i \in TaskIds : apis.tasks[i].analysisDone
                             /\ f = <<"analysis", i, apis.tasks[i].task.analysis>>
    BY <1>2
  <2>2. apis'.tasks[i].analysisDone /\ apis'.tasks[i].task.analysis = apis.tasks[i].task.analysis
    BY <2>1 DEF Grows, Keeps
  <2> QED
    BY <2>1, <2>2 DEF Facts
<1>3. CASE \E i \in TaskIds : apis.tasks[i].importDone
                              /\ f = <<"import", i, apis.tasks[i].task.import>>
  <2>1. PICK i \in TaskIds : apis.tasks[i].importDone
                             /\ f = <<"import", i, apis.tasks[i].task.import>>
    BY <1>3
  <2>2. apis'.tasks[i].importDone /\ apis'.tasks[i].task.import = apis.tasks[i].task.import
    BY <2>1 DEF Grows, Keeps
  <2> QED
    BY <2>1, <2>2 DEF Facts
<1>4. CASE \E i \in ExportIds : exports[i] \in Service!Ended
                                /\ f = <<"ended", i, Actapro!Upper(exports[i])>>
  BY <1>4 DEF Facts
<1>5. CASE \E i \in ExportIds : exports[i] = "completed" /\ f = <<"file", i, i>>
  BY <1>5 DEF Facts, Service!Ended
<1>6. CASE f = <<"document", 1, Service!AIPs>>
  BY <1>6 DEF Facts
<1> QED
  BY <1>1, <1>2, <1>3, <1>4, <1>5, <1>6 DEF Facts

\* What an answer says stays so.
LEMMA ToldStays ==
    ASSUME Facts \subseteq Facts', NEW op, NEW c, NEW id, NEW a, Told(op, c, id, a)
    PROVE  Told(op, c, id, a)'
BY DEF Told

\* An execution that takes no part in a step.
LEMMA Undisturbed ==
    ASSUME NEW c \in Calls, CallInv(c), Facts \subseteq Facts',
           call'[c] = call[c], wire'[c] = wire[c], got'[c] = got[c]
    PROVE  CallInv(c)'
<1>1. wire[c].at = "answer" => Told(call[c].op, c, call[c].work.id, wire[c].answer)'
  BY ToldStays DEF CallInv
<1>2. Ending(call[c].op, call[c].work.id, call[c].ended)'
  BY DEF CallInv, Ending
<1>3. got'[c] \subseteq Facts'
  BY DEF CallInv
<1> QED
  BY <1>1, <1>2, <1>3 DEF CallInv

\* An execution without an answer, at the beginning of its work or where it was.
LEMMA Moved ==
    ASSUME NEW c \in Calls, CallInv(c), Facts \subseteq Facts', got'[c] = got[c],
           call'[c].work = call[c].work, call'[c].phase # "returned", call'[c].try >= 1,
           \/ call'[c].op = call[c].work.op /\ call[c].work.op # "exportLogs"
           \/ call'[c].op = call[c].op /\ call'[c].ended = call[c].ended,
           wire'[c].at # "answer"
    PROVE  CallInv(c)'
<1>1. Ending(call[c].op, call[c].work.id, call[c].ended)'
  BY DEF CallInv, Ending
<1>2. got'[c] \subseteq Facts'
  BY DEF CallInv
<1> QED
  BY <1>1, <1>2 DEF CallInv

\* The values of an execution.
LEMMA CallTypes ==
    ASSUME TypeOK, NEW c \in Calls
    PROVE  /\ call[c] \in Call /\ call[c].work \in Work /\ call[c].op \in Ops
           /\ call[c].work.op \in Ops \ {"exportLogs"} /\ call[c].try \in 0..MaxTries
           /\ call[c].phase \in Phases /\ call[c].ended \in {"", "FAILED", "CANCELED"}
           /\ wire[c].token \in Tokens
BY DEF TypeOK, Call, Work

\* What a change to one execution leaves alone.
Others(c) == \A d \in Calls \ {c} : call'[d] = call[d] /\ wire'[d] = wire[d] /\ got'[d] = got[d]

\* A step of one execution.
LEMMA OneCall ==
    ASSUME IInv, NEW c \in Calls, Others(c), Facts \subseteq Facts', CallInv(c)'
    PROVE  \A d \in Calls : CallInv(d)'
<1> SUFFICES ASSUME NEW d \in Calls \ {c} PROVE CallInv(d)'
  OBVIOUS
<1>1. CallInv(d) /\ call'[d] = call[d] /\ wire'[d] = wire[d] /\ got'[d] = got[d]
  BY DEF IInv, Others
<1> QED
  BY <1>1, Undisturbed

\* The end of an attempt or of the execution.
LEMMA Ends ==
    ASSUME IInv, NEW c \in Calls, call[c].phase = "running",
           EndAttempt(c) \/ End(c, "failed"), got' = got, Facts \subseteq Facts'
    PROVE  /\ \A d \in Calls : CallInv(d)'
           /\ call' \in [Calls -> Call]
           /\ DOMAIN wire' = Calls
           /\ \A d \in Calls : wire'[d].at \in {"none", "request", "answer"}
                               /\ wire'[d].token \in Tokens
<1>0. TypeOK /\ CallInv(c) /\ call \in [Calls -> Call] /\ DOMAIN wire = Calls
      /\ call[c].try \in 1..MaxTries /\ MaxTries \in Nat
  <2>1. TypeOK /\ CallInv(c) /\ call \in [Calls -> Call] /\ DOMAIN wire = Calls
    BY DEF IInv, TypeOK
  <2>2. call[c].try \in 0..MaxTries /\ MaxTries \in Nat
    BY <2>1, CallTypes, MaxTriesAssumption
  <2>3. call[c].try >= 1
    BY <2>1 DEF CallInv
  <2> QED
    BY <2>1, <2>2, <2>3
<1>1. Attempts(call[c].work.op) <= MaxTries /\ Attempts(call[c].work.op) \in Nat
  BY MaxTriesAssumption DEF Attempts
<1>2. wire' = [wire EXCEPT ![c] = Silent]
  BY DEF EndAttempt, End
<1>3. \/ call' = [call EXCEPT ![c].phase = "failed"]
      \/ /\ call[c].try + 1 <= MaxTries
         /\ call' = [call EXCEPT ![c].try = call[c].try + 1, ![c].op = call[c].work.op,
                                 ![c].ended = ""]
  <2>1. call[c].try < Attempts(call[c].work.op) => call[c].try + 1 <= MaxTries
    BY <1>0, <1>1
  <2> QED
    BY <2>1, Zenon DEF EndAttempt, End
<1>4. wire'[c] = Silent /\ Silent.at = "none" /\ Silent.token = "valid"
      /\ \A d \in Calls \ {c} : wire'[d] = wire[d]
  BY <1>0, <1>2 DEF Silent, Wire
<1>5. CASE call' = [call EXCEPT ![c].phase = "failed"]
  <2>1. call' \in [Calls -> Call] /\ call'[c] = [call[c] EXCEPT !.phase = "failed"]
        /\ \A d \in Calls \ {c} : call'[d] = call[d]
    BY <1>0, <1>5, ZenonT(30) DEF Call, Phases
  <2>2. call'[c].work = call[c].work /\ call'[c].phase = "failed" /\ call'[c].try >= 1
        /\ call'[c].op = call[c].op /\ call'[c].ended = call[c].ended
    <3>1. call[c] \in Call /\ call[c].try >= 1
      BY <1>0
    <3> QED
      BY <2>1, <3>1 DEF Call
  <2>3. CallInv(c)'
    BY <1>0, <1>4, <2>2, Moved
  <2> QED
    BY <1>0, <1>2, <1>4, <2>1, <2>3, OneCall DEF Others, TypeOK, Tokens
<1>6. CASE /\ call[c].try + 1 <= MaxTries
           /\ call' = [call EXCEPT ![c].try = call[c].try + 1, ![c].op = call[c].work.op,
                                   ![c].ended = ""]
  <2> DEFINE k == call[c]
             l == [k EXCEPT !.try = k.try + 1]
             m == [l EXCEPT !.op = k.work.op]
             n == [m EXCEPT !.ended = ""]
  <2>1. k \in Call /\ k.try + 1 \in 1..MaxTries /\ k.work.op \in Ops \ {"exportLogs"}
    <3>1. k.try + 1 \in 1..MaxTries
      <4>1. k.try \in 1..MaxTries /\ MaxTries \in Nat /\ k.try + 1 <= MaxTries
        BY <1>0, <1>6
      <4> HIDE DEF k
      <4> QED
        BY <4>1
    <3> QED
      BY <1>0, <3>1, CallTypes
  <2>2. l \in Call /\ l.work = k.work /\ l.phase = k.phase /\ l.try >= 1
    <3> HIDE DEF k
    <3>1. k.try + 1 \in 0..MaxTries /\ k.try + 1 >= 1
      BY <2>1
    <3> DEFINE n1 == k.try + 1
    <3> HIDE DEF n1
    <3>2. n1 \in 0..MaxTries /\ n1 >= 1 /\ l = [k EXCEPT !.try = n1]
      BY <3>1 DEF n1
    <3> QED
      BY <2>1, <3>2 DEF Call
  <2> HIDE DEF l
  <2>3. m \in Call /\ m.work = k.work /\ m.phase = k.phase /\ m.try >= 1 /\ m.op = k.work.op
    BY <2>1, <2>2 DEF Call
  <2> HIDE DEF m
  <2>4. n \in Call /\ n.work = k.work /\ n.phase = k.phase /\ n.try >= 1 /\ n.op = k.work.op
    BY <2>1, <2>3 DEF Call
  <2>5. call' = [call EXCEPT ![c] = n]
    BY <1>0, <1>6 DEF l, m, n, Call
  <2> HIDE DEF n
  <2>6. call' \in [Calls -> Call] /\ call'[c] = n
        /\ \A d \in Calls \ {c} : call'[d] = call[d]
    BY <1>0, <2>4, <2>5
  <2>7. CallInv(c)'
    BY <1>0, <1>4, <2>1, <2>4, <2>6, Moved
  <2> QED
    BY <1>0, <1>2, <1>4, <2>6, <2>7, OneCall DEF Others, TypeOK, Tokens
<1> QED
  BY <1>3, <1>5, <1>6

\* A request that is served: no fact is taken back, and the answer tells facts.
LEMMA ApisServes ==
    ASSUME IInv, NEW s \in Sent, s.op \in ApisOps, NEW r \in Replies(s), Do(s.by, r)
    PROVE  /\ HandlerInv(apis') /\ exports' = exports
           /\ Facts \subseteq Facts'
           /\ Told(s.op, s.by, s.work.id, r.answer)'
<1> DEFINE q == RequestOf(s)
           id == s.work.id
           c == s.by
           b == r.answer.value.is
<1>0. s.work \in Work /\ HandlerInv(apis)
  BY DEF Sent, IInv
<1>1. PICK o : o = Mock!ServeHTTP(apis, q)
  OBVIOUS
<1>2. r.apis = o.handler /\ r.exports = exports /\ r.answer = o.answer
  BY <1>1 DEF Replies
<1>3. apis' = o.handler /\ exports' = exports /\ made' = made \cup Making(c, r)
  BY <1>2 DEF Do
<1>4. HandlerInv(apis') /\ Grows(apis, apis')
  BY <1>0, <1>1, <1>3, ServeIsGood DEF Good
<1>5. Facts \subseteq Facts'
  BY <1>3, <1>4, FactsStay
<1>6. made' \subseteq Facts'
  BY DEF Facts
<1>7. /\ s.op = "createTask" => o = Mock!handleImporttasksPost(apis, q)
      /\ s.op = "createRun"  => o = Mock!handleImportrunsPost(apis, q, id)
      /\ s.op \in {"pollTask", "pollRun"} => o = Mock!handleStatusGet(apis, q, id)
  BY <1>1, Routes
<1> HIDE DEF q
<1>8. CASE s.op = "createTask"
  <2>1. r.answer.code = 201 =>
          "importTaskId" \in DOMAIN b /\ <<"task", c, b["importTaskId"].is>> \in Facts'
    <3> SUFFICES ASSUME r.answer.code = 201
                 PROVE "importTaskId" \in DOMAIN b
                       /\ <<"task", c, b["importTaskId"].is>> \in Facts'
      OBVIOUS
    <3>1. "importTaskId" \in DOMAIN b /\ b["importTaskId"].is = r.apis.nextTask
          /\ r.apis.nextTask # apis.nextTask
      BY <1>0, <1>2, <1>7, <1>8, TaskAnswer
    <3>2. <<"task", c, r.apis.nextTask>> \in made'
      BY <1>3, <3>1 DEF Making
    <3> QED
      BY <1>6, <3>1, <3>2
  <2> QED
    BY <1>3, <1>4, <1>5, <1>8, <2>1 DEF Told
<1>9. CASE s.op = "createRun"
  <2>1. r.answer.code = 201 =>
          "importRunId" \in DOMAIN b /\ <<"run", c, b["importRunId"].is>> \in Facts'
    <3> SUFFICES ASSUME r.answer.code = 201
                 PROVE "importRunId" \in DOMAIN b
                       /\ <<"run", c, b["importRunId"].is>> \in Facts'
      OBVIOUS
    <3>1. "importRunId" \in DOMAIN b /\ b["importRunId"].is = r.apis.nextRun
          /\ r.apis.nextRun # apis.nextRun
      BY <1>0, <1>2, <1>7, <1>9, RunAnswer
    <3>2. <<"run", c, r.apis.nextRun>> \in made'
      BY <1>3, <3>1 DEF Making
    <3> QED
      BY <1>6, <3>1, <3>2
  <2> QED
    BY <1>3, <1>4, <1>5, <1>9, <2>1 DEF Told
<1>10. CASE s.op \in {"pollTask", "pollRun"}
  <2>1. r.answer.code = 200 =>
          /\ "status" \in DOMAIN b
          /\ "analysisResult" \in DOMAIN b =>
                 <<"analysis", id, b["analysisResult"].is>> \in Facts'
          /\ "importResult" \in DOMAIN b => <<"import", id, b["importResult"].is>> \in Facts'
    <3> SUFFICES ASSUME r.answer.code = 200
                 PROVE  /\ "status" \in DOMAIN b
                        /\ "analysisResult" \in DOMAIN b =>
                               <<"analysis", id, b["analysisResult"].is>> \in Facts'
                        /\ "importResult" \in DOMAIN b =>
                               <<"import", id, b["importResult"].is>> \in Facts'
      OBVIOUS
    <3>1. /\ id \in TaskIds
          /\ "status" \in DOMAIN b
          /\ "analysisResult" \in DOMAIN b =>
                 apis'.tasks[id].analysisDone
                 /\ b["analysisResult"].is = apis'.tasks[id].task.analysis
          /\ "importResult" \in DOMAIN b =>
                 apis'.tasks[id].importDone
                 /\ b["importResult"].is = apis'.tasks[id].task.import
      BY <1>0, <1>2, <1>3, <1>7, <1>10, StatusAnswer, SMTT(20)
    <3> HIDE DEF b, id
    <3> QED
      BY <3>1 DEF Facts
  <2> QED
    BY <1>3, <1>4, <1>5, <1>10, <2>1 DEF Told
<1>11. CASE s.op \in Once
  BY <1>3, <1>4, <1>5, <1>11 DEF Told, Once
<1> QED
  BY <1>8, <1>9, <1>10, <1>11 DEF ApisOps, Once

\* The same of ACTApro.
LEMMA ActaproServes ==
    ASSUME IInv, NEW s \in Sent, s.op \in ActaproOps, NEW r \in Replies(s), Do(s.by, r)
    PROVE  /\ apis' = apis /\ exports' \in Service!Exports
           /\ Facts \subseteq Facts'
           /\ Told(s.op, s.by, s.work.id, r.answer)'
<1> DEFINE id == s.work.id
           c == s.by
           b == r.answer.value.is
<1>0. exports \in Service!Exports
  BY DEF IInv, TypeOK
<1>1. s.op \notin ApisOps
  BY DEF ApisOps, ActaproOps
<1>2. PICK o \in Service!Serve(exports, RequestOf(s)) :
         r = [apis |-> apis, exports |-> o.exports, answer |-> o.answer]
  BY <1>1 DEF Replies
<1>3. /\ apis' = apis /\ exports' = o.exports /\ made' = made \cup Making(c, r)
      /\ r.answer = o.answer /\ r.exports = o.exports
  BY <1>2 DEF Do
<1>4. HandlerInv(apis) /\ Grows(apis, apis')
  BY <1>3 DEF IInv, Grows, Keeps
<1>5. made' \subseteq Facts'
  BY DEF Facts
<1>6. o.exports = exports => Facts \subseteq Facts' /\ exports' \in Service!Exports
  BY <1>0, <1>3, <1>4, FactsStay
<1>7. CASE Failed(exports, o)
  <2>1. o.exports = exports /\ r.answer.code # 200
    BY <1>3, <1>7 DEF Failed
  <2> QED
    BY <1>1, <1>3, <1>6, <2>1 DEF Told, ApisOps
<1>8. CASE s.op = "createExport" /\ ~Failed(exports, o)
  <2>1. o \in Service!Create(exports)
    BY <1>8, <1>2, ServiceRoutes
  <2>2. PICK i \in ExportIds :
           /\ exports[i] = "none"
           /\ o.exports = [exports EXCEPT ![i] = "RUNNING"]
           /\ "id" \in DOMAIN b => b["id"].is = i
    BY <1>0, <1>3, <1>8, <2>1, CreateServes
  <2>3. /\ exports' \in Service!Exports /\ exports'[i] = "RUNNING"
        /\ \A j \in ExportIds : exports[j] # "none" => exports'[j] = exports[j]
    BY <1>0, <1>3, <2>2 DEF Service!Exports, Service!Running
  <2>4. Facts \subseteq Facts'
    BY <1>3, <1>4, <2>3, FactsStay DEF Service!Ended
  <2>5. <<"export", c, i>> \in made'
    BY <1>3, <2>2, <2>3 DEF Making
  <2> QED
    BY <1>3, <1>5, <1>8, <2>2, <2>3, <2>4, <2>5 DEF Told
<1>9. CASE s.op = "pollExport" /\ ~Failed(exports, o)
  <2>1. o \in Service!GetInfo(exports, id)
    BY <1>9, <1>2, ServiceRoutes
  <2>2. /\ o.exports = exports /\ id \in ExportIds
        /\ "status" \in DOMAIN b => b["status"].is = exports[id]
    BY <1>3, <1>9, <2>1, InfoServes
  <2>3. ASSUME "status" \in DOMAIN b,
               Actapro!Upper(b["status"].is) \in {"COMPLETED", "FAILED", "CANCELED"}
        PROVE  <<"ended", id, Actapro!Upper(b["status"].is)>> \in Facts'
    <3>1. exports'[id] = exports[id] /\ b["status"].is = exports'[id]
      BY <1>3, <2>2, <2>3
    <3>2. exports'[id] \in Service!Ended
      BY <1>0, <2>2, <2>3, <3>1
         DEF Actapro!Upper, Service!Exports, Service!Running, Service!Ended
    <3> QED
      BY <2>2, <3>1, <3>2 DEF Facts
  <2> QED
    BY <1>3, <1>6, <1>9, <2>2, <2>3 DEF Told
<1>10. CASE s.op = "exportLogs" /\ ~Failed(exports, o)
  <2>1. o.exports = exports
    BY <1>10, <1>2, ServiceRoutes, LogsServe
  <2> QED
    BY <1>3, <1>6, <1>10, <2>1 DEF Told
<1>11. CASE s.op = "download" /\ ~Failed(exports, o)
  <2>1. o \in Service!GetFile(exports, id)
    BY <1>11, <1>2, ServiceRoutes
  <2>2. /\ o.exports = exports /\ id \in ExportIds /\ exports[id] = "completed"
        /\ r.answer.value = Service!Bytes(id)
    BY <1>3, <1>11, <2>1, FileServes
  <2>3. r.answer.value.kind = "bytes" /\ r.answer.value.is = id
    BY <2>2 DEF Service!Bytes, Service!Value
  <2>4. <<"file", id, id>> \in Facts'
    BY <1>3, <2>2 DEF Facts
  <2> QED
    BY <1>3, <1>6, <1>11, <2>2, <2>3, <2>4 DEF Told
<1>12. CASE s.op = "document" /\ ~Failed(exports, o)
  <2>1. o \in Service!GetDocument(exports, id)
    BY <1>12, <1>2, ServiceRoutes
  <2>2. o.exports = exports /\ id = 1 /\ r.answer.value = Service!Document
    BY <1>3, <1>12, <2>1, DocumentServes
  <2>3. "block" \in DOMAIN b
    BY <2>2 DEF Service!Document, Service!Object, Service!Value
  <2> QED
    BY <1>3, <1>6, <1>12, <2>2, <2>3 DEF Told
<1> QED
  BY <1>7, <1>8, <1>9, <1>10, <1>11, <1>12 DEF ActaproOps

\* The request that an execution has on the wire.
LEMMA Sends ==
    ASSUME IInv, NEW c \in Calls, call[c].phase = "running"
    PROVE  SentBy(c) \in Sent /\ call[c].try \in 1..MaxTries
<1>1. call[c].try \in 0..MaxTries /\ call[c].try >= 1
  BY CallTypes DEF IInv, CallInv
<1>2. call[c].try \in 1..MaxTries
  BY <1>1, MaxTriesAssumption
<1>3. call[c].work \in Work /\ call[c].op \in Ops /\ wire[c].token \in Tokens
  BY CallTypes DEF IInv
<1> QED
  BY <1>2, <1>3 DEF SentBy, Sent

\* A request that is served, wherever the answer goes.
LEMMA Serves ==
    ASSUME IInv, NEW s \in Sent, NEW r \in Replies(s), Do(s.by, r)
    PROVE  /\ HandlerInv(apis') /\ apis' \in Mock!Handler /\ exports' \in Service!Exports
           /\ Facts \subseteq Facts'
           /\ Told(s.op, s.by, s.work.id, r.answer)'
<1>1. s.op \in ApisOps \/ s.op \in ActaproOps
  BY DEF Sent, Ops
<1>2. HandlerInv(apis) /\ exports \in Service!Exports
  BY DEF IInv, TypeOK
<1>3. HandlerInv(apis') => apis' \in Mock!Handler
  BY DEF HandlerInv
<1>4. CASE s.op \in ApisOps
  BY <1>2, <1>3, <1>4, ApisServes
<1>5. CASE s.op \in ActaproOps
  BY <1>2, <1>3, <1>5, ActaproServes
<1> QED
  BY <1>1, <1>4, <1>5

(***************************************************************************)
(* The first state.                                                        *)
(***************************************************************************)

\* What the mock has done before the first execution.
LEMMA BeforeInv ==
    ASSUME NEW s \in Setting
    PROVE  HandlerInv(Before(s))
<1> DEFINE h0 == Mock!NewHandler(s.analysis, s.import)
           new == Mock!ImporttasksPost(h0).handler
           poll(h) == Mock!IDStatusGet(h, 1).handler
           analysed == poll(poll(poll(new)))
           run == Mock!IDImportrunsPost(analysed, 1, "AppendOnly").handler
<1>1. HandlerInv(h0)
  <2> DEFINE ts == [id \in TaskIds |-> Mock!NoTask]
  <2>1. s.analysis \in Mock!AnalysisResults /\ s.import \in Mock!ImportResults
    BY DEF Setting
  <2>2. /\ Mock!NoTask \in Mock!TaskState
        /\ Mock!NoTask.task.status = "none" /\ ~Mock!NoTask.analysisDone
        /\ ~Mock!NoTask.importDone
    BY DEF Mock!NoTask, Mock!NoId, Mock!Unknown, Mock!TaskState, Mock!Task, Mock!TaskStatus,
           Mock!AnalysisResults, Mock!ImportResults
  <2>3. TaskInv(Mock!NoTask) /\ Fresh(Mock!NoTask)
    BY <2>2 DEF TaskInv, Fresh
  <2>4. h0 = [tasks |-> ts, nextTask |-> 0, nextRun |-> 0,
              analysis |-> s.analysis, import |-> s.import]
    BY DEF Mock!NewHandler
  <2>5. ts \in [TaskIds -> Mock!TaskState]
    BY <2>2
  <2>6. h0 \in Mock!Handler /\ h0.tasks = ts
    BY <2>1, <2>4, <2>5 DEF Mock!Handler
  <2> QED
    BY <2>3, <2>6 DEF HandlerInv
<1>2. HandlerInv(new)
  BY <1>1, Post DEF Good
<1>3. ASSUME NEW h, HandlerInv(h) PROVE HandlerInv(poll(h))
  BY <1>3, Status DEF Good
<1>4. "AppendOnly" \in Mock!Behaviours \cup {"none"}
  BY DEF Mock!Behaviours
<1>5. HandlerInv(poll(poll(new))) /\ HandlerInv(analysed)
  BY <1>2, <1>3
<1>6. HandlerInv(run)
  BY <1>4, <1>5, StartRun DEF Good
<1>7. HandlerInv(poll(poll(run)))
  BY <1>3, <1>6
<1>8. s.stage \in Stages
  BY DEF Setting
<1>9. Before(s) \in {h0, new, poll(poll(new)), analysed, run, poll(poll(run))}
  BY <1>8, Zenon DEF Before, Stages
<1> QED
  BY <1>1, <1>2, <1>5, <1>6, <1>7, <1>9

\* The invariant holds at first.
LEMMA InitInv == Init => IInv
<1> SUFFICES ASSUME Init PROVE IInv
  OBVIOUS
<1>1. PICK s \in Settings :
        /\ apis = Before(s)
        /\ exports = [id \in ExportIds |-> IF id = 1 THEN s.export ELSE "none"]
        /\ call = [c \in Calls |-> [work |-> s.work[c], op |-> s.work[c].op, ended |-> "",
                                    phase |-> "idle", try |-> 0]]
  BY DEF Init
<1>2. s \in Setting
  BY SettingsAssumption
<1>3. HandlerInv(apis) /\ apis \in Mock!Handler
  BY <1>1, <1>2, BeforeInv DEF HandlerInv
<1>4. exports \in Service!Exports
  BY <1>1, <1>2 DEF Setting, Service!Exports, Service!Running
<1>5. \A c \in Calls : s.work[c] \in Work /\ s.work[c].op \in Ops \ {"exportLogs"}
  BY <1>2 DEF Setting, Work
<1>6. call \in [Calls -> Call]
  <2>1. 0 \in 0..MaxTries
    BY MaxTriesAssumption
  <2>2. ASSUME NEW c \in Calls
        PROVE  [work |-> s.work[c], op |-> s.work[c].op, ended |-> "",
                phase |-> "idle", try |-> 0] \in Call
    <3>1. s.work[c] \in Work /\ s.work[c].op \in Ops
      BY <1>5
    <3> QED
      BY <2>1, <3>1 DEF Call, Phases
  <2> QED
    BY <1>1, <2>2
<1>7. wire = [c \in Calls |-> Silent] /\ Silent.at = "none" /\ Silent.token = "valid"
  BY DEF Init, Silent, Wire
<1>8. late = {} /\ spoiled = [c \in Calls |-> {}] /\ got = [c \in Calls |-> {}]
  BY DEF Init
<1>9. TypeOK
  BY <1>3, <1>4, <1>6, <1>7, <1>8 DEF TypeOK, Tokens
<1>10. ASSUME NEW c \in Calls PROVE CallInv(c)
  <2>1. call[c].op = call[c].work.op /\ call[c].phase = "idle" /\ call[c].op # "exportLogs"
    BY <1>1, <1>5
  <2>2. wire[c].at = "none" /\ got[c] = {}
    BY <1>7, <1>8
  <2> QED
    BY <2>1, <2>2 DEF CallInv, Ending
<1> QED
  BY <1>3, <1>9, <1>10 DEF IInv

(***************************************************************************)
(* Every step keeps the invariant.                                         *)
(***************************************************************************)

\* Nothing that an execution, a service or the network does breaks it.
LEMMA StepInv == IInv /\ [Next]_vars => IInv'
<1> SUFFICES ASSUME IInv, [Next]_vars PROVE IInv'
  OBVIOUS
<1> USE DEF IInv
<1>0. /\ TypeOK /\ HandlerInv(apis) /\ apis \in Mock!Handler /\ exports \in Service!Exports
      /\ call \in [Calls -> Call] /\ DOMAIN wire = Calls /\ DOMAIN got = Calls
      /\ late \subseteq Sent
      /\ spoiled \in [Calls -> SUBSET (1..MaxTries)]
      /\ \A c \in Calls : CallInv(c) /\ wire[c].at \in {"none", "request", "answer"}
                          /\ wire[c].token \in Tokens
  BY DEF TypeOK
<1>s. apis' = apis /\ exports' = exports /\ made' = made => Facts' = Facts
  BY DEF Facts
<1>1. ASSUME NEW c \in Calls, Start(c) PROVE IInv'
  <2>1. Facts' = Facts /\ UNCHANGED <<apis, exports, wire, late, spoiled>> /\ got' = got
    BY <1>1, <1>s DEF Start
  <2> DEFINE k == [call[c] EXCEPT !.phase = "running"]
             l == [k EXCEPT !.try = 1]
  <2>2. k \in Call /\ k.work = call[c].work /\ k.op = call[c].op /\ k.ended = call[c].ended
        /\ k.phase = "running"
    BY <1>0 DEF Call, Phases
  <2> HIDE DEF k
  <2>3. l \in Call /\ l.work = call[c].work /\ l.op = call[c].op /\ l.ended = call[c].ended
        /\ l.phase = "running" /\ l.try = 1
    <3>1. 1 \in 0..MaxTries
      BY MaxTriesAssumption
    <3> QED
      BY <2>2, <3>1 DEF Call
  <2>4. call' = [call EXCEPT ![c] = l]
    BY <1>0, <1>1 DEF Start, k, Call
  <2> HIDE DEF l
  <2>5. call' \in [Calls -> Call] /\ call'[c] = l /\ \A d \in Calls \ {c} : call'[d] = call[d]
    BY <1>0, <2>3, <2>4
  <2>6. CallInv(c)'
    <3>1. CallInv(c)
      BY <1>0
    <3> QED
      BY <2>1, <2>3, <2>5, <3>1, ToldStays DEF CallInv, Ending
  <2>7. \A d \in Calls : CallInv(d)'
    BY <2>1, <2>5, <2>6, OneCall DEF Others
  <2> QED
    BY <1>0, <2>1, <2>5, <2>7 DEF TypeOK
<1>2. ASSUME NEW c \in Calls, Unprepared(c) PROVE IInv'
  <2>1. Facts' = Facts /\ UNCHANGED <<apis, exports, late, spoiled>> /\ got' = got
    BY <1>2, <1>s DEF Unprepared
  <2>2. call[c].phase = "running" /\ End(c, "failed")
    BY <1>2 DEF Unprepared, Running
  <2> QED
    BY <1>0, <2>1, <2>2, Ends DEF TypeOK
<1>3. ASSUME NEW c \in Calls, Ask(c) PROVE IInv'
  <2>1. Facts' = Facts /\ UNCHANGED <<apis, exports, call, late, spoiled>> /\ got' = got
    BY <1>3, <1>s DEF Ask
  <2>2. PICK token \in Tokens :
           wire' = [wire EXCEPT ![c] = Wire("request", token, NoAnswer, FALSE)]
    BY <1>3 DEF Ask
  <2>3. /\ DOMAIN wire' = Calls /\ wire'[c].at = "request" /\ wire'[c].token = token
        /\ \A d \in Calls \ {c} : wire'[d] = wire[d]
    <3>1. PICK w : w = Wire("request", token, NoAnswer, FALSE)
      OBVIOUS
    <3>2. w.at = "request" /\ w.token = token
      BY <3>1 DEF Wire
    <3> QED
      BY <1>0, <2>2, <3>1, <3>2
  <2>4. call[c].phase = "running" /\ CallInv(c)
    BY <1>0, <1>3 DEF Ask, Running
  <2>5. CallInv(c)'
    BY <2>1, <2>3, <2>4 DEF CallInv, Ending
  <2>6. \A d \in Calls : CallInv(d)'
    BY <2>1, <2>3, <2>5, OneCall DEF Others
  <2> QED
    BY <1>0, <2>1, <2>3, <2>6 DEF TypeOK
<1>4. ASSUME NEW c \in Calls, Serve(c) PROVE IInv'
  <2>0. PICK s : s = SentBy(c)
    OBVIOUS
  <2>1. s \in Sent /\ CallInv(c) /\ call[c].phase = "running"
    BY <1>0, <1>4, <2>0, Sends DEF Serve, Running
  <2>2. s.by = c /\ s.op = call[c].op /\ s.work = call[c].work
    BY <2>0 DEF SentBy
  <2>3. PICK r \in Replies(s) :
           /\ Do(s.by, r)
           /\ wire' = [wire EXCEPT ![c] = Wire("answer", wire[c].token, r.answer, FALSE)]
    BY <1>4, <2>0, <2>2 DEF Serve
  <2>4. UNCHANGED <<call, late, spoiled>> /\ got' = got
    BY <1>4 DEF Serve
  <2>5. /\ HandlerInv(apis') /\ apis' \in Mock!Handler /\ exports' \in Service!Exports
        /\ Facts \subseteq Facts'
        /\ Told(s.op, s.by, s.work.id, r.answer)'
    BY <2>1, <2>3, Serves
  <2>6. /\ DOMAIN wire' = Calls /\ wire'[c].at = "answer" /\ wire'[c].token = wire[c].token
        /\ wire'[c].answer = r.answer
        /\ \A d \in Calls \ {c} : wire'[d] = wire[d]
    <3>1. PICK w : w = Wire("answer", wire[c].token, r.answer, FALSE)
      OBVIOUS
    <3>2. w.at = "answer" /\ w.token = wire[c].token /\ w.answer = r.answer
      BY <3>1 DEF Wire
    <3> QED
      BY <1>0, <2>3, <3>1, <3>2
  <2>7. Told(call[c].op, c, call[c].work.id, wire[c].answer)'
    BY <2>2, <2>4, <2>5, <2>6
  <2>8. CallInv(c)'
    BY <2>1, <2>4, <2>5, <2>7 DEF CallInv, Ending
  <2>9. \A d \in Calls : CallInv(d)'
    BY <2>4, <2>5, <2>6, <2>8, OneCall DEF Others
  <2> QED
    BY <1>0, <2>4, <2>5, <2>6, <2>9 DEF TypeOK
<1>5. ASSUME NEW c \in Calls, Extend(c) PROVE IInv'
  <2> DEFINE a == wire[c].answer
             b == a.value.is
             x == Extended(a).value.is
             op == call[c].op
             id == call[c].work.id
  <2>1. Facts' = Facts /\ UNCHANGED <<apis, exports, call, late>> /\ got' = got
    BY <1>5, <1>s DEF Extend
  <2>2. /\ call[c].phase = "running" /\ wire[c].at = "answer" /\ a.value.kind = "object"
        /\ CallInv(c) /\ call[c].try \in 1..MaxTries
    BY <1>0, <1>5, Sends DEF Extend, Running
  <2>3. wire' = [wire EXCEPT ![c] = Wire("answer", wire[c].token, Extended(a), TRUE)]
    BY <1>5 DEF Extend
  <2>4. /\ DOMAIN wire' = Calls /\ wire'[c].at = "answer" /\ wire'[c].token = wire[c].token
        /\ wire'[c].answer = Extended(a)
        /\ \A d \in Calls \ {c} : wire'[d] = wire[d]
    <3>1. PICK w : w = Wire("answer", wire[c].token, Extended(a), TRUE)
      OBVIOUS
    <3>2. w.at = "answer" /\ w.token = wire[c].token /\ w.answer = Extended(a)
      BY <3>1 DEF Wire
    <3> QED
      BY <1>0, <2>3, <3>1, <3>2
  <2>5. /\ Extended(a).code = a.code
        /\ x = [f \in DOMAIN b \cup {"extra"} |-> IF f = "extra" THEN Client!Null ELSE b[f]]
    BY DEF Extended, Client!Answer, Client!Value
  <2>6. \A f : f # "extra" => (f \in DOMAIN x <=> f \in DOMAIN b)
                              /\ (f \in DOMAIN x => x[f] = b[f])
    BY <2>5
  <2>7. Told(op, c, id, a)
    BY <2>2 DEF CallInv
  <2> HIDE DEF b, x
  <2>8. Told(op, c, id, Extended(a))
    <3>1. \A f \in {"importTaskId", "importRunId", "status", "analysisResult", "importResult",
                    "id", "block"} :
             (f \in DOMAIN x <=> f \in DOMAIN b) /\ (f \in DOMAIN x => x[f] = b[f])
      BY <2>6
    <3>2. Extended(a).code = a.code /\ Extended(a).value.is = x /\ a.value.is = b
      BY <2>5 DEF x, b
    <3>3. ~(op = "download" /\ a.code = 200)
      BY <2>2, <2>7 DEF Told
    <3> QED
      BY <2>7, <3>1, <3>2, <3>3 DEF Told
  <2>9. Told(call[c].op, c, call[c].work.id, wire[c].answer)'
    BY <2>1, <2>4, <2>8, ToldStays
  <2>10. CallInv(c)'
    BY <2>1, <2>2, <2>9 DEF CallInv, Ending
  <2>11. \A d \in Calls : CallInv(d)'
    BY <2>1, <2>4, <2>10, OneCall DEF Others
  <2>12. spoiled' \in [Calls -> SUBSET (1..MaxTries)]
    BY <1>0, <1>5, <2>2 DEF Extend
  <2> QED
    BY <1>0, <2>1, <2>4, <2>11, <2>12 DEF TypeOK
<1>6. ASSUME NEW c \in Calls, Read(c) PROVE IInv'
  <2> DEFINE op == call[c].op
             id == call[c].work.id
             v == Judgement(op, call[c].ended, wire[c].answer)
  <2>1. Facts' = Facts /\ UNCHANGED <<apis, exports, late, spoiled>>
    BY <1>6, <1>s DEF Read
  <2>2. /\ call[c].phase = "running" /\ wire[c].at = "answer" /\ CallInv(c)
        /\ call[c] \in Call /\ call[c].try >= 1
    BY <1>0, <1>6 DEF Read, Running, CallInv
  <2>3. /\ v.end = "ok" => End(c, "returned") /\ got' = [got EXCEPT ![c] = Claims(c, op, id, v.value)]
        /\ v.end = "final" => End(c, "failed")
        /\ v.end = "again" => EndAttempt(c)
        /\ v.end = "poll" => wire' = [wire EXCEPT ![c] = Silent] /\ UNCHANGED call
        /\ v.end = "logs" => /\ wire' = [wire EXCEPT ![c] = Silent]
                             /\ call' = [call EXCEPT ![c].op = "exportLogs", ![c].ended = v.value]
        /\ v.end # "ok" => got' = got
    BY <1>6 DEF Read
  <2>4. /\ Sound(op, c, id, v)
        /\ v.end \in {"ok", "final", "again", "poll", "logs"}
        /\ op \notin Once /\ v.end = "ok" => Claims(c, op, id, v.value) # {}
    BY <2>2, Judges DEF CallInv, Call
  <2>5. wire' = [wire EXCEPT ![c] = Silent]
    BY <2>3, <2>4 DEF End, EndAttempt
  <2>6. /\ DOMAIN wire' = Calls /\ wire'[c].at = "none" /\ wire'[c].token = "valid"
        /\ \A d \in Calls \ {c} : wire'[d] = wire[d]
    BY <1>0, <2>5 DEF Silent, Wire
  <2> HIDE DEF v
  <2>7. CASE v.end \in {"final", "again"}
    BY <1>0, <2>1, <2>2, <2>3, <2>7, Ends DEF TypeOK
  <2>8. CASE v.end = "poll"
    <3>1. call' = call /\ got' = got
      BY <2>3, <2>8
    <3>2. CallInv(c)'
      BY <2>1, <2>2, <2>6, <3>1 DEF CallInv, Ending
    <3>3. \A d \in Calls : CallInv(d)'
      BY <2>1, <2>6, <3>1, <3>2, OneCall DEF Others
    <3> QED
      BY <1>0, <2>1, <2>6, <3>1, <3>3 DEF TypeOK, Tokens
  <2>9. CASE v.end = "logs"
    <3>1. op = "pollExport" /\ v.value \in {"FAILED", "CANCELED"}
          /\ <<"ended", id, v.value>> \in Facts
      BY <2>4, <2>9 DEF Sound, Ending
    <3> DEFINE k == [call[c] EXCEPT !.op = "exportLogs"]
               l == [k EXCEPT !.ended = v.value]
    <3>2. k \in Call /\ k.op = "exportLogs" /\ k.work = call[c].work /\ k.try = call[c].try
          /\ k.phase = "running"
      BY <2>2 DEF Call, Ops, ActaproOps
    <3> HIDE DEF k
    <3>3. l \in Call /\ l.op = "exportLogs" /\ l.work = call[c].work /\ l.try = call[c].try
          /\ l.phase = "running" /\ l.ended = v.value
      BY <3>1, <3>2 DEF Call
    <3>4. call' = [call EXCEPT ![c] = l]
      BY <1>0, <2>3, <2>9 DEF k, Call
    <3> HIDE DEF l
    <3>5. /\ call' \in [Calls -> Call] /\ call'[c] = l
          /\ \A d \in Calls \ {c} : call'[d] = call[d]
      BY <1>0, <3>3, <3>4
    <3>6. call[c].work.op = "pollExport"
      BY <2>2, <3>1 DEF CallInv
    <3>7. Ending(call[c].op, call[c].work.id, call[c].ended)'
      BY <2>1, <3>1, <3>3, <3>5 DEF Ending
    <3>8. CallInv(c)'
      BY <2>1, <2>2, <2>3, <2>6, <2>9, <3>3, <3>5, <3>6, <3>7 DEF CallInv
    <3>9. \A d \in Calls : CallInv(d)'
      BY <2>1, <2>3, <2>6, <2>9, <3>5, <3>8, OneCall DEF Others
    <3> QED
      BY <1>0, <2>1, <2>3, <2>6, <2>9, <3>5, <3>9 DEF TypeOK, Tokens
  <2>10. CASE v.end = "ok"
    <3> DEFINE k == [call[c] EXCEPT !.phase = "returned"]
    <3>1. call' = [call EXCEPT ![c] = k]
          /\ got' = [got EXCEPT ![c] = Claims(c, op, id, v.value)]
      BY <1>0, <2>3, <2>10 DEF End, Call
    <3>2. k \in Call /\ k.op = call[c].op /\ k.work = call[c].work /\ k.try = call[c].try
          /\ k.ended = call[c].ended
      BY <2>2 DEF Call, Phases
    <3> HIDE DEF k
    <3>3. /\ call' \in [Calls -> Call] /\ call'[c] = k
          /\ \A d \in Calls \ {c} : call'[d] = call[d]
      BY <1>0, <3>1, <3>2
    <3>4. /\ got'[c] = Claims(c, op, id, v.value) /\ DOMAIN got' = Calls
          /\ \A d \in Calls \ {c} : got'[d] = got[d]
      BY <1>0, <3>1
    <3>5. got'[c] \subseteq Facts'
      BY <2>1, <2>4, <2>10, <3>4 DEF Sound
    <3>6. k.work.op \notin Once => got'[c] # {}
      BY <2>2, <2>4, <2>10, <3>2, <3>4 DEF CallInv, Once
    <3>7. Ending(call[c].op, call[c].work.id, call[c].ended)'
      BY <2>1, <2>2, <3>2, <3>3 DEF Ending, CallInv
    <3>8. CallInv(c)'
      BY <2>2, <2>6, <3>2, <3>3, <3>5, <3>6, <3>7 DEF CallInv
    <3>9. \A d \in Calls : CallInv(d)'
      BY <2>1, <2>6, <3>3, <3>4, <3>8, OneCall DEF Others
    <3> QED
      BY <1>0, <2>1, <2>6, <3>3, <3>4, <3>9 DEF TypeOK, Tokens
  <2> QED
    BY <2>4, <2>7, <2>8, <2>9, <2>10
<1>7. ASSUME NEW c \in Calls, Deadline(c) PROVE IInv'
  <2>1. Facts' = Facts /\ UNCHANGED <<apis, exports>> /\ got' = got
    BY <1>7, <1>s DEF Deadline
  <2>2. call[c].phase = "running" /\ EndAttempt(c)
    BY <1>7 DEF Deadline
  <2>3. SentBy(c) \in Sent /\ call[c].try \in 1..MaxTries
    BY <2>2, Sends
  <2>4. late' \subseteq Sent
    BY <1>0, <1>7, <2>3 DEF Deadline
  <2>5. spoiled' \in [Calls -> SUBSET (1..MaxTries)]
    BY <1>0, <1>7, <2>3 DEF Deadline
  <2> QED
    BY <1>0, <2>1, <2>2, <2>4, <2>5, Ends DEF TypeOK
<1>8. ASSUME NEW s \in late, ServeLate(s) PROVE IInv'
  <2>1. PICK r \in Replies(s) : Do(s.by, r)
    BY <1>8 DEF ServeLate
  <2>2. UNCHANGED <<call, wire, spoiled>> /\ got' = got /\ late' \subseteq Sent /\ s \in Sent
    BY <1>0, <1>8 DEF ServeLate
  <2>3. /\ HandlerInv(apis') /\ apis' \in Mock!Handler /\ exports' \in Service!Exports
        /\ Facts \subseteq Facts'
    BY <2>1, <2>2, Serves
  <2>4. \A d \in Calls : CallInv(d)'
    BY <1>0, <2>2, <2>3, Undisturbed
  <2> QED
    BY <1>0, <2>2, <2>3, <2>4 DEF TypeOK
<1>9. ASSUME NEW id \in ExportIds, ExportStep(id) PROVE IInv'
  <2>1. UNCHANGED <<apis, call, wire, late, spoiled>> /\ got' = got /\ made' = made
    BY <1>9 DEF ExportStep
  <2>2. /\ exports' \in Service!Exports
        /\ \A i \in ExportIds : exports[i] \in Service!Ended => exports'[i] = exports[i]
    BY <1>0, <1>9 DEF ExportStep, Service!Exports, Service!Running, Service!Ended
  <2>3. Grows(apis, apis')
    BY <2>1 DEF Grows, Keeps
  <2>4. Facts \subseteq Facts'
    BY <2>1, <2>2, <2>3, FactsStay
  <2>5. \A d \in Calls : CallInv(d)'
    BY <1>0, <2>1, <2>4, Undisturbed
  <2> QED
    BY <1>0, <2>1, <2>2, <2>5 DEF TypeOK
<1>10. ASSUME UNCHANGED vars PROVE IInv'
  <2>1. Facts' = Facts /\ UNCHANGED <<apis, exports, call, wire, late, spoiled>> /\ got' = got
    BY <1>10, <1>s DEF vars
  <2>2. \A d \in Calls : CallInv(d)'
    BY <1>0, <2>1, Undisturbed
  <2> QED
    BY <1>0, <2>1, <2>2 DEF TypeOK
<1> QED
  BY <1>1, <1>2, <1>3, <1>4, <1>5, <1>6, <1>7, <1>8, <1>9, <1>10 DEF Next

\* The values of every execution, of what is on the wire, of the mock and of
\* ACTApro stay in their types.
THEOREM TypeCorrect == Spec => []TypeOK
<1>1. IInv => TypeOK
  BY DEF IInv
<1> QED
  BY InitInv, StepInv, <1>1, PTL DEF Spec

\* Whatever is lost, late or repeated, an activity that returns has got a fact of
\* the service, and the service keeps it.
THEOREM SpecReturnedIsRecorded == Spec => []ReturnedIsRecorded
<1>1. IInv => ReturnedIsRecorded
  BY DEF IInv, CallInv, ReturnedIsRecorded
<1> QED
  BY InitInv, StepInv, <1>1, PTL DEF Spec

(***************************************************************************)
(* The client understands the mock.                                        *)
(***************************************************************************)

\* A body without inner objects is read when it has what is required, every member of
\* its kind and among the allowed values.
LEMMA ReadsFlat ==
    ASSUME NEW s, NEW b, DOMAIN b \cap DOMAIN s.inner = {}, s.required \subseteq DOMAIN b,
           \A f \in DOMAIN b : f \in DOMAIN s.kinds /\ b[f].kind \in s.kinds[f],
           \A f \in DOMAIN b \cap DOMAIN s.allowed :
                b[f].kind = "string" => b[f].is \in s.allowed[f]
    PROVE  Client!Reads(s, b) /\ Mock!Reads(s, b) /\ Actapro!Reads(s, b)
<1>1. Client!Reads(s, b)
  BY DEF Client!Reads, Client!Decodes, Client!Valid
<1>2. Mock!Reads(s, b)
  BY DEF Mock!Reads, Mock!Decodes, Mock!Valid
<1>3. Actapro!Reads(s, b)
  BY DEF Actapro!Reads, Actapro!Decodes, Actapro!Valid
<1> QED
  BY <1>1, <1>2, <1>3

\* The mock reads the forms that the client writes.
LEMMA Forms ==
    ASSUME NEW w \in Work
    PROVE  /\ Mock!Reads(Mock!ImporttasksPostForm, Client!ImporttasksPostReq(w.sipType, User))
           /\ Mock!Reads(Mock!ImportrunsPostForm, Client!ImportrunsPostReq(w.behaviour, User))
           /\ Mock!Reads(Mock!CancelRequest, Client!CancelImportTaskRequest(User))
<1>0. DOMAIN <<>> = {}
  OBVIOUS
<1>1. Mock!Reads(Mock!ImporttasksPostForm, Client!ImporttasksPostReq(w.sipType, User))
  <2> DEFINE s == Mock!ImporttasksPostForm
             b == Client!ImporttasksPostReq(w.sipType, User)
  <2>1. /\ s.inner = <<>> /\ s.required = {"file", "sipType", "username"}
        /\ s.kinds = [file |-> {"bytes"}, sipType |-> {"string"}, username |-> {"string"}]
        /\ s.allowed = [sipType |-> Mock!SipTypes]
    BY DEF Mock!ImporttasksPostForm, Mock!Form, Mock!Schema, Mock!String
  <2>2. /\ DOMAIN b = {"file", "sipType", "username"}
        /\ b["file"].kind = "bytes" /\ b["sipType"].kind = "string" /\ b["username"].kind = "string"
        /\ b["sipType"].is = w.sipType
    BY DEF Client!ImporttasksPostReq, Client!Bytes, Client!Text, Client!Value
  <2>3. w.sipType \in Mock!SipTypes
    BY DEF Work, Client!SipType, Mock!SipTypes
  <2> HIDE DEF s, b
  <2> QED
    BY <1>0, <2>1, <2>2, <2>3, ReadsFlat DEF s, b
<1>2. Mock!Reads(Mock!ImportrunsPostForm, Client!ImportrunsPostReq(w.behaviour, User))
  <2> DEFINE s == Mock!ImportrunsPostForm
             b == Client!ImportrunsPostReq(w.behaviour, User)
  <2>1. /\ s.inner = <<>> /\ s.required = {"file", "username"}
        /\ s.kinds = [file |-> {"bytes"}, importBehaviour |-> {"string"}, username |-> {"string"}]
        /\ s.allowed = [importBehaviour |-> Mock!Behaviours]
    BY DEF Mock!ImportrunsPostForm, Mock!Form, Mock!Schema, Mock!String
  <2>2. /\ DOMAIN b = {"file", "importBehaviour", "username"}
        /\ b["file"].kind = "bytes" /\ b["importBehaviour"].kind = "string"
        /\ b["username"].kind = "string" /\ b["importBehaviour"].is = w.behaviour
    BY DEF Client!ImportrunsPostReq, Client!Bytes, Client!Text, Client!Value
  <2>3. w.behaviour \in Mock!Behaviours
    BY DEF Work
  <2> HIDE DEF s, b
  <2> QED
    BY <1>0, <2>1, <2>2, <2>3, ReadsFlat DEF s, b
<1>3. Mock!Reads(Mock!CancelRequest, Client!CancelImportTaskRequest(User))
  <2> DEFINE s == Mock!CancelRequest
             b == Client!CancelImportTaskRequest(User)
  <2>1. /\ s.inner = <<>> /\ s.required = {} /\ s.allowed = <<>>
        /\ s.kinds = [reason |-> {"string", "null"}, cancelledBy |-> {"string", "null"}]
    BY DEF Mock!CancelRequest, Mock!Closed, Mock!Schema, Mock!OrNull, Mock!String
  <2>2. /\ DOMAIN b = {"reason", "cancelledBy"}
        /\ b["reason"].kind = "null" /\ b["cancelledBy"].kind = "string"
    BY DEF Client!CancelImportTaskRequest, Client!Null, Client!Text, Client!Value
  <2> HIDE DEF s, b
  <2> QED
    BY <1>0, <2>1, <2>2, ReadsFlat DEF s, b
<1> QED
  BY <1>1, <1>2, <1>3


\* A problem that an operation documents is understood.
LEMMA ProblemIsUnderstood ==
    ASSUME NEW n, NEW success, NEW problems, n \notin problems, NEW code \in problems,
           code # 204
    PROVE  Client!Understood(Client!Cases(n, success, problems),
                             Mock!Encoded(Mock!problem(code), problems))
<1> DEFINE cs == Client!Cases(n, success, problems)
           b == Mock!problem(code).body
           a == Mock!Encoded(Mock!problem(code), problems)
<1>1. code \in DOMAIN cs /\ cs[code] = Client!Problem
  BY DEF Client!Cases
<1>2. /\ a.code = code /\ a.type = "application/problem+json"
      /\ a.value = [kind |-> "object", is |-> b]
  BY DEF Mock!Encoded, Mock!problem, Mock!Res, Mock!Answer, Mock!Object, Mock!Value
<1>3. /\ Client!Problem.types = {"application/problem+json"}
      /\ Client!Problem.shape = "object" /\ Client!Problem.schema = Client!ProblemDetails
  BY DEF Client!Problem, Client!Case
<1>4. /\ DOMAIN b = {"status", "title", "detail"}
      /\ b["status"].kind = "number" /\ b["title"].kind = "string" /\ b["detail"].kind = "string"
  BY DEF Mock!problem, Mock!Res, Mock!Number, Mock!Text, Mock!Value
<1>5. Client!Reads(Client!ProblemDetails, b)
  <2> DEFINE s == Client!ProblemDetails
  <2>1. /\ s.inner = <<>> /\ s.required = {} /\ s.allowed = <<>>
        /\ DOMAIN s.kinds = {"type", "title", "status", "detail", "instance"}
        /\ s.kinds["title"] = {"string", "null"} /\ s.kinds["detail"] = {"string", "null"}
        /\ s.kinds["status"] = {"number", "null"}
    BY DEF Client!ProblemDetails, Client!Schema, Client!OptNilString, Client!OptString,
           Client!OptNilInt32, Client!OrNull, Client!Numeric
  <2>2. DOMAIN <<>> = {}
    OBVIOUS
  <2> HIDE DEF s, b
  <2> QED
    BY <1>4, <2>1, <2>2, ReadsFlat DEF s
<1> HIDE DEF cs, a, b
<1>6. \A x \in Client!Bodies(a.value) : x = b
  BY <1>2 DEF Client!Bodies
<1> QED
  BY <1>1, <1>2, <1>3, <1>5, <1>6 DEF Client!Understood, cs, a

\* A success whose body fits its schema is understood.
LEMMA SuccessIsUnderstood ==
    ASSUME NEW n, NEW schema, NEW problems, n \notin problems, n # 204,
           NEW body, Client!Reads(schema, body)
    PROVE  Client!Understood(Client!Cases(n, Client!JSON(schema), problems),
                             Mock!Encoded(Mock!Res(n, body), problems))
<1> DEFINE cs == Client!Cases(n, Client!JSON(schema), problems)
           a == Mock!Encoded(Mock!Res(n, body), problems)
<1>1. n \in DOMAIN cs /\ cs[n] = Client!JSON(schema)
  BY DEF Client!Cases
<1>2. /\ a.code = n /\ a.type = "application/json" /\ a.value = [kind |-> "object", is |-> body]
  BY DEF Mock!Encoded, Mock!Res, Mock!Answer, Mock!Object, Mock!Value
<1>3. /\ Client!JSON(schema).types = {"application/json"}
      /\ Client!JSON(schema).shape = "object" /\ Client!JSON(schema).schema = schema
  BY DEF Client!JSON, Client!Case
<1> HIDE DEF cs, a
<1>4. \A x \in Client!Bodies(a.value) : x = body
  BY <1>2 DEF Client!Bodies
<1> QED
  BY <1>1, <1>2, <1>3, <1>4 DEF Client!Understood, cs, a

\* The bodies of the successes fit their schemas.
LEMMA Bodies ==
    /\ \A id : Client!Reads(Client!CreateImportTaskResponse, Mock!CreateImportTaskResponse(id))
    /\ \A id : Client!Reads(Client!CreateImportRunResponse, Mock!CreateImportRunResponse(id))
    /\ Client!Reads(Client!HealthStatusResult, Mock!HealthStatusResult("OK"))
    /\ \A t \in Mock!TaskState :
          /\ Client!Reads(Client!ImportRunStatusResponse, Mock!importRunStatusResponse(t))
          /\ t.task.status # "none" =>
                Client!Reads(Client!ImportTaskStatusResponse, Mock!taskStatusResponse(t))
<1>0. DOMAIN <<>> = {}
  OBVIOUS
<1>1. ASSUME NEW id
      PROVE  Client!Reads(Client!CreateImportTaskResponse, Mock!CreateImportTaskResponse(id))
  <2> DEFINE s == Client!CreateImportTaskResponse
             b == Mock!CreateImportTaskResponse(id)
  <2>1. /\ s.inner = <<>> /\ s.required = {"importTaskId"} /\ s.allowed = <<>>
        /\ s.kinds = [importTaskId |-> {"string"}]
    BY DEF Client!CreateImportTaskResponse, Client!Closed, Client!Schema, Client!String
  <2>2. DOMAIN b = {"importTaskId"} /\ b["importTaskId"].kind = "string"
    BY DEF Mock!CreateImportTaskResponse, Mock!Text, Mock!Value
  <2> HIDE DEF s, b
  <2> QED
    BY <1>0, <2>1, <2>2, ReadsFlat DEF s, b
<1>2. ASSUME NEW id
      PROVE  Client!Reads(Client!CreateImportRunResponse, Mock!CreateImportRunResponse(id))
  <2> DEFINE s == Client!CreateImportRunResponse
             b == Mock!CreateImportRunResponse(id)
  <2>1. /\ s.inner = <<>> /\ s.required = {"importRunId"} /\ s.allowed = <<>>
        /\ s.kinds = [importRunId |-> {"string"}]
    BY DEF Client!CreateImportRunResponse, Client!Closed, Client!Schema, Client!String
  <2>2. DOMAIN b = {"importRunId"} /\ b["importRunId"].kind = "string"
    BY DEF Mock!CreateImportRunResponse, Mock!Text, Mock!Value
  <2> HIDE DEF s, b
  <2> QED
    BY <1>0, <2>1, <2>2, ReadsFlat DEF s, b
<1>3. Client!Reads(Client!HealthStatusResult, Mock!HealthStatusResult("OK"))
  <2> DEFINE s == Client!HealthStatusResult
             b == Mock!HealthStatusResult("OK")
  <2>1. /\ DOMAIN s.inner = {"checks"} /\ s.required = {"status"} /\ s.allowed = <<>>
        /\ DOMAIN s.kinds = {"checks", "status"} /\ s.kinds["status"] = {"string"}
    BY DEF Client!HealthStatusResult, Client!HealthStatusFields, Client!Closed, Client!Schema,
           Client!String
  <2>2. DOMAIN b = {"status"} /\ b["status"].kind = "string"
    BY DEF Mock!HealthStatusResult, Mock!Text, Mock!Value
  <2> HIDE DEF s, b
  <2> QED
    BY <1>0, <2>1, <2>2, ReadsFlat DEF s, b
<1>4. ASSUME NEW t \in Mock!TaskState
      PROVE  Client!Reads(Client!ImportRunStatusResponse, Mock!importRunStatusResponse(t))
  <2> DEFINE s == Client!ImportRunStatusResponse
             b == Mock!importRunStatusResponse(t)
             status == Mock!RunStatus(t.task)
             import == IF t.task.status = "Importiert" THEN t.task.import ELSE "unset"
             f == [status |-> Mock!Text(status), importResult |-> Mock!Opt(import)]
  <2>1. /\ s.inner = <<>> /\ s.required = {"status"}
        /\ s.allowed = [status |-> Client!ImportStatus, importResult |-> Client!ImportResult]
        /\ s.kinds["status"] = {"string"} /\ s.kinds["importResult"] = {"string", "null"}
        /\ {"status", "importResult"} \subseteq DOMAIN s.kinds
    BY DEF Client!ImportRunStatusResponse, Client!ImportRunStatusFields, Client!Closed,
           Client!Schema, Client!String, Client!OptNilImportResult, Client!OrNull,
           Client!OptString
  <2>2. b = Mock!Fields(f)
    BY DEF Mock!importRunStatusResponse, Mock!ImportRunStatusResponse
  <2>3. status \in Client!ImportStatus /\ import \in Client!ImportResult \cup {"unset"}
    <3>1. t.task.import \in {"Erfolgreich", "Fehler"}
      BY DEF Mock!TaskState, Mock!Task, Mock!ImportResults
    <3>2. status \in {"Canceled", "Started", "Failed", "Completed", "Created"}
      BY DEF Mock!RunStatus
    <3> QED
      BY <3>1, <3>2 DEF Client!ImportStatus, Client!ImportResult
  <2> HIDE DEF status, import
  <2>4. /\ DOMAIN f = {"status", "importResult"}
        /\ f["status"].kind = "string" /\ f["status"].is = status
        /\ f["importResult"].kind # "unset" =>
              f["importResult"].kind = "string" /\ f["importResult"].is \in Client!ImportResult
    BY <2>3 DEF Mock!Text, Mock!Value, Mock!Opt, Mock!Unset
  <2> HIDE DEF f
  <2>5. /\ DOMAIN b \subseteq DOMAIN f /\ "status" \in DOMAIN b
        /\ \A n \in DOMAIN b : b[n] = f[n] /\ f[n].kind # "unset"
    BY <2>2, <2>4 DEF Mock!Fields
  <2> HIDE DEF s, b
  <2>6. \A n \in DOMAIN b : n \in DOMAIN s.kinds /\ b[n].kind \in s.kinds[n]
    BY <2>1, <2>4, <2>5
  <2>7. \A n \in DOMAIN b \cap DOMAIN s.allowed :
           b[n].kind = "string" => b[n].is \in s.allowed[n]
    BY <2>1, <2>3, <2>4, <2>5
  <2> QED
    BY <1>0, <2>1, <2>5, <2>6, <2>7, ReadsFlat DEF s, b
<1>5. ASSUME NEW t \in Mock!TaskState, t.task.status # "none"
      PROVE  Client!Reads(Client!ImportTaskStatusResponse, Mock!taskStatusResponse(t))
  <2> DEFINE s == Client!ImportTaskStatusResponse
             b == Mock!taskStatusResponse(t)
             analysis == IF t.analysisDone THEN t.task.analysis ELSE "unset"
             import == IF t.importDone THEN t.task.import ELSE "unset"
             f == [status |-> Mock!Text(t.task.status), analysisResult |-> Mock!Opt(analysis),
                   importResult |-> Mock!Opt(import)]
  <2>1. /\ s.inner = <<>> /\ s.required = {"status"}
        /\ s.allowed = [status |-> Client!ImportTaskStatus,
                        analysisResult |-> Client!AnalysisResult,
                        importResult |-> Client!ImportResult]
        /\ s.kinds["status"] = {"string"} /\ s.kinds["importResult"] = {"string", "null"}
        /\ s.kinds["analysisResult"] = {"string", "null"}
        /\ {"status", "analysisResult", "importResult"} \subseteq DOMAIN s.kinds
    BY DEF Client!ImportTaskStatusResponse, Client!ImportTaskStatusFields, Client!Closed,
           Client!Schema, Client!String, Client!OptNilImportResult, Client!OrNull,
           Client!OptString, Client!OptNilAnalysisResult
  <2>2. b = Mock!Fields(f)
    BY DEF Mock!taskStatusResponse, Mock!ImportTaskStatusResponse
  <2>3. /\ t.task.status \in Client!ImportTaskStatus
        /\ analysis \in Client!AnalysisResult \cup {"unset"}
        /\ import \in Client!ImportResult \cup {"unset"}
    BY <1>5 DEF Mock!TaskState, Mock!Task, Mock!TaskStatus, Mock!AnalysisResults,
                Mock!ImportResults, Client!ImportTaskStatus, Client!ImportResult,
                Client!AnalysisResult
  <2> HIDE DEF analysis, import
  <2>4. /\ DOMAIN f = {"status", "analysisResult", "importResult"}
        /\ f["status"].kind = "string" /\ f["status"].is \in Client!ImportTaskStatus
        /\ f["analysisResult"].kind # "unset" =>
              f["analysisResult"].kind = "string"
              /\ f["analysisResult"].is \in Client!AnalysisResult
        /\ f["importResult"].kind # "unset" =>
              f["importResult"].kind = "string" /\ f["importResult"].is \in Client!ImportResult
    BY <2>3 DEF Mock!Text, Mock!Value, Mock!Opt, Mock!Unset
  <2> HIDE DEF f
  <2>5. /\ DOMAIN b \subseteq DOMAIN f /\ "status" \in DOMAIN b
        /\ \A n \in DOMAIN b : b[n] = f[n] /\ f[n].kind # "unset"
    BY <2>2, <2>4 DEF Mock!Fields
  <2> HIDE DEF s, b
  <2>6. \A n \in DOMAIN b : n \in DOMAIN s.kinds /\ b[n].kind \in s.kinds[n]
    BY <2>1, <2>4, <2>5
  <2>7. \A n \in DOMAIN b \cap DOMAIN s.allowed :
           b[n].kind = "string" => b[n].is \in s.allowed[n]
    BY <2>1, <2>4, <2>5
  <2> QED
    BY <1>0, <2>1, <2>5, <2>6, <2>7, ReadsFlat DEF s, b
<1> QED
  BY <1>1, <1>2, <1>3, <1>4, <1>5

\* The requests carry the token and the form of the client, and name what exists.
LEMMA Requests ==
    ASSUME NEW s, s.op \in ApisOps, s.work \in Work
    PROVE  LET q == RequestOf(s) IN
           /\ q.token = s.token
           /\ Mock!SecuritySmart(q) <=> s.token = "valid"
           /\ s.op = "createTask" => Mock!decodeImporttasksPostRequest(q) = 200
           /\ s.op = "createRun" => Mock!decodeImportrunsPostRequest(q) = 200
           /\ s.op = "cancel" => Mock!decodeCancelPostRequest(q) = 200
           /\ Mock!Params(<<s.work.id>>) /\ Mock!Params(<<s.work.id, s.work.run>>)
<1> DEFINE q == RequestOf(s)
           w == s.work
<1>1. q.token = s.token
  BY DEF RequestOf, ApisOps, Client!sendImporttasksPost, Client!sendImportrunsPost,
         Client!sendStatusGet, Client!sendCancelPost, Client!sendRunStatusGet,
         Client!sendHealthzGet, Client!Request
<1>2. Mock!SecuritySmart(q) <=> s.token = "valid"
  <2> HIDE DEF q
  <2> QED
    BY <1>1 DEF Mock!SecuritySmart, Mock!HandleSmart
<1>3. w \in Work /\ w.id # 0 /\ w.run # 0
  BY DEF Work, Client!NoId
<1>4. Mock!Params(<<w.id>>) /\ Mock!Params(<<w.id, w.run>>)
  BY <1>3 DEF Mock!Params, Mock!NoId
<1>5. ASSUME s.op = "createTask" PROVE Mock!decodeImporttasksPostRequest(q) = 200
  <2>1. q.type = "multipart/form-data" /\ q.form = Client!ImporttasksPostReq(w.sipType, User)
    BY <1>5 DEF RequestOf, Client!sendImporttasksPost, Client!Request, Client!Multipart
  <2> HIDE DEF q
  <2> QED
    BY <1>3, <2>1, Forms DEF Mock!decodeImporttasksPostRequest, Mock!Body, Mock!NoBody
<1>6. ASSUME s.op = "createRun" PROVE Mock!decodeImportrunsPostRequest(q) = 200
  <2>1. q.type = "multipart/form-data" /\ q.form = Client!ImportrunsPostReq(w.behaviour, User)
    BY <1>6 DEF RequestOf, Client!sendImportrunsPost, Client!Request, Client!Multipart
  <2> HIDE DEF q
  <2> QED
    BY <1>3, <2>1, Forms DEF Mock!decodeImportrunsPostRequest, Mock!Body, Mock!NoBody
<1>7. ASSUME s.op = "cancel" PROVE Mock!decodeCancelPostRequest(q) = 200
  <2>1. q.type = "application/json" /\ q.form = Client!CancelImportTaskRequest(User)
    BY <1>7 DEF RequestOf, Client!sendCancelPost, Client!Request
  <2> HIDE DEF q
  <2> QED
    BY <1>3, <2>1, Forms DEF Mock!decodeCancelPostRequest, Mock!Body, Mock!NoBody
<1> QED
  BY <1>1, <1>2, <1>4, <1>5, <1>6, <1>7

\* A request with a good token gets to its endpoint, another one nowhere.
LEMMA Reaches ==
    ASSUME NEW h, NEW s, s.op \in ApisOps, s.work \in Work
    PROVE  LET q == RequestOf(s)
               w == s.work
               r == Mock!ServeHTTP(h, q)
               b == IF Mock!NoBody(q) THEN "none" ELSE Mock!Get(q.form, "importBehaviour", "none")
               Of(done, answer) == r = Mock!Reply(done.handler, answer)
           IN /\ s.token # "valid" => r = Mock!Reply(h, Mock!Framework(401))
              /\ s.token = "valid" /\ s.op = "createTask" =>
                    LET d == Mock!ImporttasksPost(h) IN Of(d, Mock!encodeImporttasksPost(d.res))
              /\ s.token = "valid" /\ s.op = "createRun" =>
                    LET d == Mock!IDImportrunsPost(h, w.id, b) IN Of(d, Mock!encodeImportrunsPost(d.res))
              /\ s.token = "valid" /\ s.op \in {"pollTask", "pollRun"} =>
                    LET d == Mock!IDStatusGet(h, w.id) IN Of(d, Mock!encodeStatusGet(d.res))
              /\ s.token = "valid" /\ s.op = "cancel" =>
                    LET d == Mock!IDCancelPost(h, w.id) IN Of(d, Mock!encodeCancelPost(d.res))
              /\ s.token = "valid" /\ s.op = "runStatus" =>
                    LET d == Mock!IDRunStatusGet(h, w.id, w.run) IN Of(d, Mock!encodeRunStatusGet(d.res))
              /\ s.token = "valid" /\ s.op = "health" =>
                    LET d == Mock!HealthzGet(h) IN Of(d, Mock!encodeHealthzGet(d.res))
<1> DEFINE q == RequestOf(s)
           w == s.work
           r == Mock!ServeHTTP(h, q)
           b == IF Mock!NoBody(q) THEN "none" ELSE Mock!Get(q.form, "importBehaviour", "none")
<1>1. /\ s.op = "createTask" => r = Mock!handleImporttasksPost(h, q)
      /\ s.op = "createRun"  => r = Mock!handleImportrunsPost(h, q, w.id)
      /\ s.op \in {"pollTask", "pollRun"} => r = Mock!handleStatusGet(h, q, w.id)
      /\ s.op = "cancel"     => r = Mock!handleCancelPost(h, q, w.id)
      /\ s.op = "runStatus"  => r = Mock!handleRunStatusGet(h, q, w.id, w.run)
      /\ s.op = "health"     => r = Mock!handleHealthzGet(h, q)
  BY Routes
<1>2. /\ Mock!SecuritySmart(q) <=> s.token = "valid"
      /\ s.op = "createTask" => Mock!decodeImporttasksPostRequest(q) = 200
      /\ s.op = "createRun" => Mock!decodeImportrunsPostRequest(q) = 200
      /\ s.op = "cancel" => Mock!decodeCancelPostRequest(q) = 200
      /\ Mock!Params(<<w.id>>) /\ Mock!Params(<<w.id, w.run>>) /\ Mock!Params(<<>>)
  BY Requests DEF Mock!Params
<1> HIDE DEF q, r, b, w
<1>3. ASSUME s.token # "valid" PROVE r = Mock!Reply(h, Mock!Framework(401))
  BY <1>1, <1>2, <1>3 DEF ApisOps, Once, Mock!handleImporttasksPost, Mock!handleImportrunsPost,
     Mock!handleStatusGet, Mock!handleCancelPost, Mock!handleRunStatusGet,
     Mock!handleHealthzGet, Mock!Staged
<1>4. ASSUME s.token = "valid"
      PROVE  /\ s.op = "createTask" => LET d == Mock!ImporttasksPost(h) IN
                   r = Mock!Reply(d.handler, Mock!encodeImporttasksPost(d.res))
             /\ s.op = "createRun" => LET d == Mock!IDImportrunsPost(h, w.id, b) IN
                   r = Mock!Reply(d.handler, Mock!encodeImportrunsPost(d.res))
             /\ s.op \in {"pollTask", "pollRun"} => LET d == Mock!IDStatusGet(h, w.id) IN
                   r = Mock!Reply(d.handler, Mock!encodeStatusGet(d.res))
             /\ s.op = "cancel" => LET d == Mock!IDCancelPost(h, w.id) IN
                   r = Mock!Reply(d.handler, Mock!encodeCancelPost(d.res))
             /\ s.op = "runStatus" => LET d == Mock!IDRunStatusGet(h, w.id, w.run) IN
                   r = Mock!Reply(d.handler, Mock!encodeRunStatusGet(d.res))
             /\ s.op = "health" => LET d == Mock!HealthzGet(h) IN
                   r = Mock!Reply(d.handler, Mock!encodeHealthzGet(d.res))
  BY <1>1, <1>2, <1>4 DEF Mock!handleImporttasksPost, Mock!handleImportrunsPost,
     Mock!handleStatusGet, Mock!handleCancelPost, Mock!handleRunStatusGet,
     Mock!handleHealthzGet, Mock!Staged, Mock!NoRequestBody, b
<1> QED
  BY <1>3, <1>4 DEF q, r, b, w

\* What a request for a task or a run creates, its answer tells; nothing else creates one.
Creates(op, h, r) ==
    /\ r.handler.nextTask # h.nextTask => op = "createTask" /\ r.answer.code = 201
    /\ r.handler.nextRun # h.nextRun => op = "createRun" /\ r.answer.code = 201
    /\ r.handler.nextTask # h.nextTask => r.handler.nextRun = h.nextRun

\* No content is answered with its code.
LEMMA NoContentIs ==
    ASSUME NEW res, res.code = 204, NEW problems, 204 \notin problems
    PROVE  Mock!Encoded(res, problems).code = 204
<1> DEFINE garbage == Mock!Garbage
<1>1. Mock!Encoded(res, problems) = Mock!Answer(204, "", garbage)
  BY DEF Mock!Encoded
<1> HIDE DEF garbage
<1>2. Mock!Answer(204, "", garbage).code = 204
  BY DEF Mock!Answer
<1> QED
  BY <1>1, <1>2

\* The mock answers a request with a good token as the client expects it, and
\* creates what it says it has created.
LEMMA MockAnswers ==
    ASSUME NEW h, HandlerInv(h), NEW s, s.op \in ApisOps, s.work \in Work
    PROVE  LET r == Mock!ServeHTTP(h, RequestOf(s)) IN
           /\ s.token = "valid" => Client!Understood(CasesOf(s.op), r.answer)
           /\ s.token # "valid" => r.handler = h
           /\ Creates(s.op, h, r)
<1> DEFINE q == RequestOf(s)
           w == s.work
           r == Mock!ServeHTTP(h, q)
           b == IF Mock!NoBody(q) THEN "none" ELSE Mock!Get(q.form, "importBehaviour", "none")
<1>0. /\ \A g, x : Mock!Done(g, x).handler = g /\ Mock!Done(g, x).res = x
      /\ \A g, a : Mock!Reply(g, a).handler = g /\ Mock!Reply(g, a).answer = a
      /\ \A code : Mock!problem(code).code = code
      /\ \A code, x : Mock!Res(code, x).code = code
      /\ h.nextTask \in Nat /\ h.nextRun \in Nat
  BY DEF Mock!Done, Mock!Reply, Mock!problem, Mock!Res, HandlerInv, Mock!Handler
<1>1. CASE s.token # "valid"
  <2>1. r = Mock!Reply(h, Mock!Framework(401))
    BY <1>1, Reaches
  <2>2. r.handler = h
    BY <1>0, <2>1
  <2> QED
    BY <1>1, <2>2 DEF Creates
<1>2. CASE s.token = "valid" /\ s.op = "createTask"
  <2> DEFINE d == Mock!ImporttasksPost(h)
             body == Mock!CreateImportTaskResponse(h.nextTask + 1)
  <2>1. r = Mock!Reply(d.handler, Mock!encodeImporttasksPost(d.res))
    BY <1>2, Reaches
  <2>2. /\ d.res = Mock!Res(201, body)
        /\ d.handler.nextTask = h.nextTask + 1 /\ d.handler.nextRun = h.nextRun
    BY DEF Mock!ImporttasksPost, Mock!Done, HandlerInv, Mock!Handler
  <2>3. CasesOf(s.op) = Client!Cases(201, Client!JSON(Client!CreateImportTaskResponse),
                                     Mock!ImporttasksPostProblems)
    BY <1>2 DEF CasesOf, Client!ImporttasksPostCases, Client!ImporttasksPostProblems,
                Mock!ImporttasksPostProblems
  <2> HIDE DEF d, body, r
  <2>4. r.answer = Mock!Encoded(Mock!Res(201, body), Mock!ImporttasksPostProblems)
        /\ r.handler = d.handler
    BY <1>0, <2>1, <2>2 DEF Mock!encodeImporttasksPost
  <2>5. Client!Understood(CasesOf(s.op), r.answer)
    BY <2>3, <2>4, SuccessIsUnderstood, Bodies DEF Mock!ImporttasksPostProblems, body
  <2>6. r.answer.code = 201
    BY <1>0, <2>4, Encoding
  <2> QED
    BY <1>2, <2>2, <2>4, <2>5, <2>6 DEF Creates, r
<1>3. CASE s.token = "valid" /\ s.op = "createRun"
  <2> DEFINE d == Mock!IDImportrunsPost(h, w.id, b)
             body == Mock!CreateImportRunResponse(h.nextRun + 1)
  <2>1. r = Mock!Reply(d.handler, Mock!encodeImportrunsPost(d.res))
    BY <1>3, Reaches
  <2>2. \/ d.res \in {Mock!problem(404), Mock!problem(400)} /\ d.handler = h
        \/ /\ d.res = Mock!Res(201, body)
           /\ d.handler.nextTask = h.nextTask
    <3> HIDE DEF b
    <3>1. CASE ~Mock!Exists(h, w.id) \/ ~Mock!RunAccepted(h.tasks[w.id].task)
      BY <1>0, <3>1, SMTT(20) DEF Mock!IDImportrunsPost
    <3>2. CASE Mock!Exists(h, w.id) /\ Mock!RunAccepted(h.tasks[w.id].task)
      BY <3>2 DEF Mock!IDImportrunsPost, Mock!Done, HandlerInv, Mock!Handler
    <3> QED
      BY <3>1, <3>2
  <2>3. CasesOf(s.op) = Client!Cases(201, Client!JSON(Client!CreateImportRunResponse),
                                     Mock!ImportrunsPostProblems)
    BY <1>3 DEF CasesOf, Client!ImportrunsPostCases, Client!ImportrunsPostProblems,
                Mock!ImportrunsPostProblems
  <2> HIDE DEF d, body, r
  <2>4. r.answer = Mock!Encoded(d.res, Mock!ImportrunsPostProblems) /\ r.handler = d.handler
    BY <1>0, <2>1 DEF Mock!encodeImportrunsPost
  <2>5. Client!Understood(CasesOf(s.op), r.answer)
    BY <2>2, <2>3, <2>4, SuccessIsUnderstood, ProblemIsUnderstood, Bodies
       DEF Mock!ImportrunsPostProblems, body
  <2>6. d.res = Mock!Res(201, body) => r.answer.code = 201
    BY <1>0, <2>4, Encoding
  <2> QED
    BY <1>3, <2>2, <2>4, <2>5, <2>6 DEF Creates, r
<1>4. CASE s.token = "valid" /\ s.op \in {"pollTask", "pollRun"}
  <2> DEFINE d == Mock!IDStatusGet(h, w.id)
             t == Mock!advanceTask(h.tasks[w.id])
  <2>1. r = Mock!Reply(d.handler, Mock!encodeStatusGet(d.res))
    BY <1>4, Reaches
  <2>2. \/ d.res = Mock!problem(404) /\ d.handler = h
        \/ /\ d.res = Mock!Res(200, Mock!taskStatusResponse(t))
           /\ t \in Mock!TaskState /\ t.task.status # "none"
           /\ d.handler.nextTask = h.nextTask /\ d.handler.nextRun = h.nextRun
    <3>1. CASE ~Mock!Exists(h, w.id)
      BY <1>0, <3>1 DEF Mock!IDStatusGet
    <3>2. CASE Mock!Exists(h, w.id)
      <4>1. w.id \in TaskIds /\ TaskInv(h.tasks[w.id]) /\ h.tasks[w.id].task.status # "none"
        BY <3>2 DEF HandlerInv, Mock!Exists
      <4>2. t \in Mock!TaskState
        BY <4>1, AdvanceTask DEF TaskInv
      <4>3. t.task.status # "none"
        <5>1. h.tasks[w.id] \in Mock!TaskState /\ h.tasks[w.id].task \in Mock!Task
          BY <4>1 DEF TaskInv, Mock!TaskState
        <5>2. t.task = Mock!Advanced(h.tasks[w.id].task)
          BY <5>1 DEF Mock!advanceTask, Mock!TaskState
        <5>3. Mock!Advanced(h.tasks[w.id].task).status # "none"
          <6> DEFINE k == h.tasks[w.id].task
          <6>1. k \in Mock!Task /\ k.status # "none"
            BY <4>1, <5>1
          <6> HIDE DEF k
          <6> QED
            BY <6>1 DEF Mock!Advanced, Mock!Task, k
        <5> QED
          BY <5>2, <5>3
      <4> HIDE DEF t
      <4>4. d.handler = [h EXCEPT !.tasks[w.id] = t]
            /\ d.res = Mock!Res(200, Mock!taskStatusResponse(t))
        BY <3>2, <1>0 DEF Mock!IDStatusGet, t
      <4>5. d.handler.nextTask = h.nextTask /\ d.handler.nextRun = h.nextRun
        BY <4>4 DEF HandlerInv, Mock!Handler
      <4> QED
        BY <4>2, <4>3, <4>4, <4>5
    <3> QED
      BY <3>1, <3>2
  <2>3. CasesOf(s.op) = Client!Cases(200, Client!JSON(Client!ImportTaskStatusResponse),
                                     Mock!StatusGetProblems)
    BY <1>4 DEF CasesOf, Client!StatusGetCases, Client!StatusGetProblems, Mock!StatusGetProblems
  <2> HIDE DEF d, t, r
  <2>4. r.answer = Mock!Encoded(d.res, Mock!StatusGetProblems) /\ r.handler = d.handler
    BY <1>0, <2>1 DEF Mock!encodeStatusGet
  <2>5. Client!Understood(CasesOf(s.op), r.answer)
    BY <2>2, <2>3, <2>4, SuccessIsUnderstood, ProblemIsUnderstood, Bodies
       DEF Mock!StatusGetProblems
  <2> QED
    BY <1>4, <2>2, <2>4, <2>5 DEF Creates, r
<1>5. CASE s.token = "valid" /\ s.op = "cancel"
  <2> DEFINE d == Mock!IDCancelPost(h, w.id)
  <2>1. r = Mock!Reply(d.handler, Mock!encodeCancelPost(d.res))
    BY <1>5, Reaches
  <2>2. \/ d.res \in {Mock!problem(404), Mock!problem(409)} /\ d.handler = h
        \/ /\ d.res = Mock!Res(204, <<>>)
           /\ d.handler.nextTask = h.nextTask /\ d.handler.nextRun = h.nextRun
    <3>1. CASE ~Mock!Exists(h, w.id) \/ ~Mock!Cancelable(h.tasks[w.id].task)
      BY <1>0, <3>1, SMTT(20) DEF Mock!IDCancelPost
    <3>2. CASE Mock!Exists(h, w.id) /\ Mock!Cancelable(h.tasks[w.id].task)
      BY <3>2 DEF Mock!IDCancelPost, Mock!Done, HandlerInv, Mock!Handler
    <3> QED
      BY <3>1, <3>2
  <2>3. CasesOf(s.op) = Client!Cases(204, Client!NoContent, Mock!CancelPostProblems)
    BY <1>5 DEF CasesOf, Client!CancelPostCases, Client!CancelPostProblems, Mock!CancelPostProblems
  <2> HIDE DEF d, r
  <2>4. r.answer = Mock!Encoded(d.res, Mock!CancelPostProblems) /\ r.handler = d.handler
    BY <1>0, <2>1 DEF Mock!encodeCancelPost
  <2>5. Client!Understood(CasesOf(s.op), r.answer)
    <3>1. CASE d.res \in {Mock!problem(404), Mock!problem(409)}
      BY <2>3, <2>4, <3>1, ProblemIsUnderstood DEF Mock!CancelPostProblems
    <3>2. CASE d.res = Mock!Res(204, <<>>)
      <4>1. r.answer.code = 204
        <5>1. d.res.code = 204
          BY <1>0, <3>2
        <5> QED
          BY <2>4, <5>1, NoContentIs DEF Mock!CancelPostProblems
      <4>2. 204 \in DOMAIN CasesOf(s.op) /\ CasesOf(s.op)[204] = Client!NoContent
        BY <2>3 DEF Client!Cases
      <4>3. Client!NoContent.shape = "none"
        BY DEF Client!NoContent, Client!Case
      <4> QED
        BY <4>1, <4>2, <4>3 DEF Client!Understood
    <3> QED
      BY <2>2, <3>1, <3>2
  <2> QED
    BY <1>5, <2>2, <2>4, <2>5 DEF Creates, r
<1>6. CASE s.token = "valid" /\ s.op = "runStatus"
  <2> DEFINE d == Mock!IDRunStatusGet(h, w.id, w.run)
  <2>1. r = Mock!Reply(d.handler, Mock!encodeRunStatusGet(d.res))
    BY <1>6, Reaches
  <2>2. /\ d.handler = h
        /\ \/ d.res = Mock!problem(404)
           \/ \E t \in Mock!TaskState : d.res = Mock!Res(200, Mock!importRunStatusResponse(t))
    BY <1>0 DEF Mock!IDRunStatusGet, Mock!Exists, HandlerInv, TaskInv
  <2>3. CasesOf(s.op) = Client!Cases(200, Client!JSON(Client!ImportRunStatusResponse),
                                     Mock!RunStatusGetProblems)
    BY <1>6 DEF CasesOf, Client!RunStatusGetCases, Client!RunStatusGetProblems,
                Mock!RunStatusGetProblems
  <2> HIDE DEF d, r
  <2>4. r.answer = Mock!Encoded(d.res, Mock!RunStatusGetProblems) /\ r.handler = d.handler
    BY <1>0, <2>1 DEF Mock!encodeRunStatusGet
  <2>5. Client!Understood(CasesOf(s.op), r.answer)
    BY <2>2, <2>3, <2>4, SuccessIsUnderstood, ProblemIsUnderstood, Bodies
       DEF Mock!RunStatusGetProblems
  <2> QED
    BY <1>6, <2>2, <2>4, <2>5 DEF Creates, r
<1>7. CASE s.token = "valid" /\ s.op = "health"
  <2> DEFINE d == Mock!HealthzGet(h)
             body == Mock!HealthStatusResult("OK")
             one == Client!Cases(200, Client!JSON(Client!HealthStatusResult), {})
  <2>1. r = Mock!Reply(d.handler, Mock!encodeHealthzGet(d.res))
    BY <1>7, Reaches
  <2>2. d.handler = h /\ d.res = Mock!Res(200, body)
    BY <1>0 DEF Mock!HealthzGet
  <2>3. 200 \in DOMAIN CasesOf(s.op) /\ CasesOf(s.op)[200] = Client!JSON(Client!HealthStatusResult)
    BY <1>7 DEF CasesOf, Client!HealthzGetCases
  <2> HIDE DEF d, body, r
  <2>4. r.answer = Mock!Encoded(Mock!Res(200, body), {}) /\ r.handler = h
    BY <1>0, <2>1, <2>2 DEF Mock!encodeHealthzGet
  <2>5. Client!Understood(one, r.answer) /\ r.answer.code = 200
    BY <1>0, <2>4, SuccessIsUnderstood, Bodies, Encoding DEF body
  <2>6. one[200] = Client!JSON(Client!HealthStatusResult)
    BY DEF Client!Cases
  <2> HIDE DEF one
  <2>7. Client!Understood(CasesOf(s.op), r.answer)
    BY <2>3, <2>5, <2>6 DEF Client!Understood
  <2> QED
    BY <1>7, <2>4, <2>7 DEF Creates, r
<1> QED
  BY <1>1, <1>2, <1>3, <1>4, <1>5, <1>6, <1>7 DEF ApisOps, Once

\* What a step puts on the wire of an execution: nothing new, no answer, the answer
\* to its request, or the answer in its newer form.
LEMMA Wires ==
    ASSUME IInv, [Next]_vars, NEW d \in Calls
    PROVE  \/ wire'[d] = wire[d] /\ call'[d].op = call[d].op
           \/ wire'[d].at # "answer"
           \/ /\ Running(d, "request") /\ call' = call
              /\ \E r \in Replies(SentBy(d)) :
                    wire'[d] = Wire("answer", wire[d].token, r.answer, FALSE)
           \/ wire'[d].changed
<1>0. /\ call \in [Calls -> Call] /\ DOMAIN wire = Calls
  BY DEF IInv, TypeOK
<1>1. Silent.at = "none" /\ \A token : Wire("request", token, NoAnswer, FALSE).at = "request"
      /\ \A t, a : Wire("answer", t, a, TRUE).changed
  BY DEF Silent, Wire
<1>2. ASSUME NEW c \in Calls, Start(c)
      PROVE  wire'[d] = wire[d] /\ call'[d].op = call[d].op
  BY <1>0, <1>2 DEF Start, Call
<1>3. ASSUME NEW c \in Calls, wire' = [wire EXCEPT ![c] = Silent],
             \A e \in Calls \ {c} : call'[e] = call[e]
      PROVE  (wire'[d] = wire[d] /\ call'[d].op = call[d].op) \/ wire'[d].at # "answer"
  BY <1>0, <1>1, <1>3
<1>4. ASSUME NEW c \in Calls, Ask(c)
      PROVE  (wire'[d] = wire[d] /\ call'[d].op = call[d].op) \/ wire'[d].at # "answer"
  BY <1>0, <1>1, <1>4 DEF Ask
<1>5. ASSUME NEW c \in Calls, Serve(c)
      PROVE  \/ wire'[d] = wire[d] /\ call'[d].op = call[d].op
             \/ /\ Running(d, "request") /\ call' = call
                /\ \E r \in Replies(SentBy(d)) :
                      wire'[d] = Wire("answer", wire[d].token, r.answer, FALSE)
  BY <1>0, <1>5 DEF Serve
<1>6. ASSUME NEW c \in Calls, Extend(c)
      PROVE  (wire'[d] = wire[d] /\ call'[d].op = call[d].op) \/ wire'[d].changed
  BY <1>0, <1>1, <1>6 DEF Extend
<1>7. ASSUME NEW c \in Calls, EndAttempt(c)
      PROVE  wire' = [wire EXCEPT ![c] = Silent] /\ \A e \in Calls \ {c} : call'[e] = call[e]
  BY <1>0, <1>7 DEF EndAttempt
<1>8. ASSUME NEW c \in Calls, NEW phase, End(c, phase)
      PROVE  wire' = [wire EXCEPT ![c] = Silent] /\ \A e \in Calls \ {c} : call'[e] = call[e]
  BY <1>0, <1>8 DEF End
<1>9. ASSUME NEW c \in Calls, Read(c)
      PROVE  wire' = [wire EXCEPT ![c] = Silent] /\ \A e \in Calls \ {c} : call'[e] = call[e]
  <2> DEFINE v == Judgement(call[c].op, call[c].ended, wire[c].answer)
  <2>1. Told(call[c].op, c, call[c].work.id, wire[c].answer)
        /\ Ending(call[c].op, call[c].work.id, call[c].ended) /\ call[c].op \in Ops
    BY <1>9, CallTypes DEF Read, Running, IInv, CallInv
  <2>2. v.end \in {"ok", "final", "again", "poll", "logs"}
    BY <2>1, Verdicts
  <2>3. /\ v.end = "ok" => End(c, "returned")
        /\ v.end = "final" => End(c, "failed")
        /\ v.end = "again" => EndAttempt(c)
        /\ v.end = "poll" => wire' = [wire EXCEPT ![c] = Silent] /\ UNCHANGED call
        /\ v.end = "logs" =>
              /\ wire' = [wire EXCEPT ![c] = Silent]
              /\ call' = [call EXCEPT ![c].op = "exportLogs", ![c].ended = v.value]
    BY <1>9 DEF Read
  <2> HIDE DEF v
  <2>4. CASE v.end = "logs"
    BY <1>0, <2>3, <2>4
  <2> QED
    BY <1>7, <1>8, <2>2, <2>3, <2>4
<1>10. CASE \E c \in Calls : Unprepared(c) \/ Read(c) \/ Deadline(c)
  <2>1. PICK c \in Calls : Unprepared(c) \/ Read(c) \/ Deadline(c)
    BY <1>10
  <2>2. wire' = [wire EXCEPT ![c] = Silent] /\ \A e \in Calls \ {c} : call'[e] = call[e]
    BY <2>1, <1>7, <1>8, <1>9 DEF Unprepared, Deadline
  <2> QED
    BY <1>3, <2>2
<1>11. CASE (\E s \in late : ServeLate(s)) \/ (\E id \in ExportIds : ExportStep(id))
            \/ UNCHANGED vars
  BY <1>11 DEF ServeLate, ExportStep, vars
<1> QED
  BY <1>2, <1>4, <1>5, <1>6, <1>10, <1>11 DEF Next

\* The client understands what the mock answers it, whatever the state of the task.
LEMMA UnderstoodStep == IInv /\ AnswersAreUnderstood /\ [Next]_vars => AnswersAreUnderstood'
<1> SUFFICES ASSUME IInv, AnswersAreUnderstood, [Next]_vars, NEW d \in Calls,
                    wire'[d].at = "answer", wire'[d].token = "valid", ~wire'[d].changed,
                    call'[d].op \in ApisOps
             PROVE  Client!Understood(CasesOf(call'[d].op), wire'[d].answer)
  BY DEF AnswersAreUnderstood
<1>1. CASE wire'[d] = wire[d] /\ call'[d].op = call[d].op
  BY <1>1 DEF AnswersAreUnderstood
<1>2. CASE /\ Running(d, "request") /\ call' = call
           /\ \E r \in Replies(SentBy(d)) :
                 wire'[d] = Wire("answer", wire[d].token, r.answer, FALSE)
  <2> DEFINE s == SentBy(d)
             x == Mock!ServeHTTP(apis, RequestOf(s))
  <2>1. PICK r \in Replies(s) : wire'[d] = Wire("answer", wire[d].token, r.answer, FALSE)
    BY <1>2
  <2>2. wire'[d].token = wire[d].token /\ wire'[d].answer = r.answer
    BY <2>1 DEF Wire
  <2>3. s \in Sent
    BY <1>2, Sends DEF Running
  <2>4. s.op = call[d].op /\ s.token = wire[d].token
    BY DEF SentBy
  <2>5. s.op \in ApisOps /\ s.token = "valid" /\ s.work \in Work
    BY <1>2, <2>2, <2>3, <2>4 DEF Sent
  <2>6. r.answer = x.answer
    <3> HIDE DEF s
    <3> QED
      BY <2>1, <2>5 DEF Replies
  <2>7. HandlerInv(apis)
    BY DEF IInv
  <2> HIDE DEF s
  <2>8. Client!Understood(CasesOf(s.op), x.answer)
    BY <2>5, <2>7, MockAnswers
  <2> QED
    BY <1>2, <2>2, <2>4, <2>6, <2>8
<1> QED
  BY <1>1, <1>2, Wires

\* The client of the activities has a case for every answer of the mock to its
\* requests: whatever the task's state, whoever else moves it.
THEOREM SpecAnswersAreUnderstood == Spec => []AnswersAreUnderstood
<1>1. Init => AnswersAreUnderstood
  <2>1. Silent.at = "none"
    BY DEF Silent, Wire
  <2> QED
    BY <2>1 DEF Init, AnswersAreUnderstood
<1> QED
  BY InitInv, StepInv, UnderstoodStep, <1>1, PTL DEF Spec

(***************************************************************************)
(* What is created is answered.                                            *)
(***************************************************************************)

(***************************************************************************)
(* What the attempts of an execution create.                               *)
(***************************************************************************)

\* The operations that create something.
Creating == {"createTask", "createRun", "createExport"}
Kinds    == {"task", "run", "export"}

\* An activity that was given an ID, or an answer without one, does not ask again.
LEMMA IdIsTaken ==
    ASSUME NEW x
    PROVE  Client!Id(x).end # "again" /\ Actapro!Id(x).end # "again"
<1>1. /\ Client!Ok(x).end = "ok" /\ Client!Final.end = "final"
      /\ Actapro!Ok(x).end = "ok" /\ Actapro!Final.end = "final"
  BY DEF Client!Ok, Client!Final, Client!Verdict, Actapro!Ok, Actapro!Final, Actapro!Verdict
<1>2. Client!Id(x) \in {Client!Ok(x), Client!Final} /\ Actapro!Id(x) \in {Actapro!Ok(x), Actapro!Final}
  BY DEF Client!Id, Actapro!Id
<1> QED
  BY <1>1, <1>2

\* A new export is answered so that it is not asked for again.
LEMMA ExportIsTaken ==
    ASSUME NEW v, NEW id, NEW status, v \in {Service!Info(id, status), Service!NoInfo}
    PROVE  Actapro!CreateExport(Service!OK(v)).end # "again"
<1> DEFINE a == Service!OK(v)
           s == Actapro!MassOperationInfoDTO
           b == v.is
           Id == Actapro!Get(b, "id", Actapro!NoId)
<1>1. /\ a.code = 200 /\ a.type = "application/json" /\ a.value = v
  BY DEF Service!OK, Service!Answer
<1>2. /\ v.kind = "object"
      /\ DOMAIN b \subseteq {"id", "status", "crdate", "description"}
      /\ \A f \in DOMAIN b : b[f].kind = "string"
  <2>0. \A x : Service!Text(x).kind = "string" /\ Service!Object(x).kind = "object"
               /\ Service!Object(x).is = x
    BY DEF Service!Text, Service!Object, Service!Value
  <2>1. CASE v = Service!NoInfo
    <3>1. v.kind = "object" /\ b = [description |-> Service!Text("")]
      BY <2>0, <2>1 DEF Service!NoInfo
    <3> HIDE DEF b
    <3>2. DOMAIN b = {"description"} /\ b["description"] = Service!Text("")
      BY <3>1
    <3> QED
      BY <2>0, <3>1, <3>2
  <2>2. CASE v = Service!Info(id, status)
    <3>1. v.kind = "object"
          /\ b = [id |-> Service!Text(id), status |-> Service!Text(status),
                  crdate |-> Service!Text("2026-09-15T09:15:10")]
      BY <2>0, <2>2 DEF Service!Info
    <3> HIDE DEF b
    <3> QED
      BY <2>0, <3>1
  <2> QED
    BY <2>1, <2>2
<1>3. /\ s.inner = <<>> /\ s.required = {} /\ s.allowed = <<>>
      /\ {"id", "status", "crdate", "description"} \subseteq DOMAIN s.kinds
      /\ s.kinds["id"] = {"string"} /\ s.kinds["status"] = {"string"}
      /\ s.kinds["crdate"] = {"string"} /\ s.kinds["description"] = {"string"}
  BY DEF Actapro!MassOperationInfoDTO, Actapro!Open, Actapro!Schema, Actapro!OptString
<1>4. Actapro!Reads(s, b)
  <2>1. DOMAIN <<>> = {}
    OBVIOUS
  <2>2. \A f \in DOMAIN b : f \in DOMAIN s.kinds /\ b[f].kind \in s.kinds[f]
    BY <1>2, <1>3
  <2> HIDE DEF s, b
  <2> QED
    BY <1>3, <2>1, <2>2, ReadsFlat
<1>5. /\ 200 \in DOMAIN Actapro!CreateExportCases
      /\ Actapro!CreateExportCases[200].types = {"application/json"}
      /\ Actapro!CreateExportCases[200].shape = "object"
      /\ Actapro!CreateExportCases[200].schema = s
  BY DEF Actapro!CreateExportCases, Actapro!Cases, Actapro!JSON, Actapro!Case
<1> HIDE DEF s, a
<1>6. \A x \in Actapro!Bodies(a.value) : x = b
  BY <1>1, <1>2 DEF Actapro!Bodies
<1>7. Actapro!Understood(Actapro!CreateExportCases, a)
  BY <1>1, <1>2, <1>4, <1>5, <1>6 DEF Actapro!Understood
<1>8. Actapro!CreateExport(a) = Actapro!Id(Id)
  BY <1>1, <1>7 DEF Actapro!CreateExport, Actapro!Judged
<1> HIDE DEF Id
<1> QED
  BY <1>8, IdIsTaken DEF a

\* The mock and ACTApro create one thing for a request, or none; and if one, the
\* execution does not take the answer for a reason to ask again.
LEMMA MakesOne ==
    ASSUME IInv, NEW s \in Sent, NEW r \in Replies(s)
    PROVE  \/ Making(s.by, r) = {}
           \/ /\ s.op \in Creating
              /\ \E k \in Kinds : \E id : Making(s.by, r) = {<<k, s.by, id>>}
              /\ \A ended : Judgement(s.op, ended, r.answer).end # "again"
<1> DEFINE c == s.by
           free == {i \in ExportIds : exports[i] = "none" /\ r.exports[i] # "none"}
<1>0. s.op \in Ops /\ s.work \in Work /\ s.token \in Tokens /\ HandlerInv(apis)
      /\ exports \in Service!Exports
  BY DEF Sent, IInv, TypeOK
<1>1. CASE s.op \in ApisOps
  <2> DEFINE x == Mock!ServeHTTP(apis, RequestOf(s))
  <2>1. r.apis = x.handler /\ r.exports = exports /\ r.answer = x.answer
    BY <1>1 DEF Replies
  <2>2. /\ s.token = "valid" => Client!Understood(CasesOf(s.op), x.answer)
        /\ s.token # "valid" => x.handler = apis
        /\ Creates(s.op, apis, x)
    BY <1>0, <1>1, MockAnswers
  <2> HIDE DEF x
  <2>3. {<<"export", c, id>> : id \in free} = {}
    BY <2>1
  <2>4. CASE x.handler.nextTask # apis.nextTask
    <3>1. s.op = "createTask" /\ x.answer.code = 201 /\ x.handler.nextRun = apis.nextRun
          /\ Client!Understood(Client!ImporttasksPostCases, x.answer)
      BY <2>2, <2>4 DEF Creates, CasesOf
    <3>2. Making(c, r) = {<<"task", c, r.apis.nextTask>>}
      BY <2>1, <2>3, <2>4, <3>1 DEF Making
    <3>3. ASSUME NEW ended PROVE Judgement(s.op, ended, r.answer).end # "again"
      <4> DEFINE id == r.answer.value.is.importTaskId.is
      <4>1. Judgement(s.op, ended, r.answer) = Client!Id(id)
        BY <2>1, <3>1 DEF Judgement, Client!CreateImportTask, Once
      <4> HIDE DEF id
      <4> QED
        BY <4>1, IdIsTaken
    <3>4. "task" \in Kinds /\ s.op \in Creating
      BY <3>1 DEF Creating, Kinds
    <3> QED
      BY <3>2, <3>3, <3>4, Zenon
  <2>5. CASE x.handler.nextTask = apis.nextTask /\ x.handler.nextRun # apis.nextRun
    <3>1. s.op = "createRun" /\ x.answer.code = 201
          /\ Client!Understood(Client!ImportrunsPostCases, x.answer)
      BY <2>2, <2>5 DEF Creates, CasesOf
    <3>2. Making(c, r) = {<<"run", c, r.apis.nextRun>>}
      BY <2>1, <2>3, <2>5 DEF Making
    <3>3. ASSUME NEW ended PROVE Judgement(s.op, ended, r.answer).end # "again"
      <4> DEFINE id == r.answer.value.is.importRunId.is
      <4>1. Judgement(s.op, ended, r.answer) = Client!Id(id)
        BY <2>1, <3>1 DEF Judgement, Client!CreateImportRun, Once
      <4> HIDE DEF id
      <4> QED
        BY <4>1, IdIsTaken
    <3> QED
      BY <3>1, <3>2, <3>3 DEF Creating, Kinds
  <2>6. CASE x.handler.nextTask = apis.nextTask /\ x.handler.nextRun = apis.nextRun
    BY <2>1, <2>3, <2>6 DEF Making
  <2> QED
    BY <2>4, <2>5, <2>6
<1>2. CASE s.op \in ActaproOps
  <2>1. r.apis = apis
    BY <1>2 DEF Replies, ActaproOps, ApisOps, Once
  <2>2. PICK x \in Service!Serve(exports, RequestOf(s)) :
          r.exports = x.exports /\ r.answer = x.answer
    BY <1>2 DEF Replies, ActaproOps, ApisOps, Once
  <2>3. CASE x.exports = exports
    <3>1. {<<"export", c, id>> : id \in free} = {}
      BY <2>2, <2>3
    <3> QED
      BY <2>1, <3>1 DEF Making
  <2>4. CASE x.exports # exports
    <3>1. s.op = "createExport" /\ x \in Service!Create(exports)
      BY <1>2, <2>4, ServiceRoutes, InfoServes, LogsServe, FileServes, DocumentServes DEF Failed
    <3>2. PICK id \in ExportIds :
            /\ exports[id] = "none"
            /\ \E v \in {Service!Info(id, "RUNNING"), Service!NoInfo} :
                  x = Service!Reply([exports EXCEPT ![id] = "RUNNING"], Service!OK(v))
      BY <2>4, <3>1 DEF Service!Create, Service!Reply
    <3>3. PICK v \in {Service!Info(id, "RUNNING"), Service!NoInfo} :
            x = Service!Reply([exports EXCEPT ![id] = "RUNNING"], Service!OK(v))
      BY <3>2
    <3>4. x.exports = [exports EXCEPT ![id] = "RUNNING"] /\ x.answer = Service!OK(v)
      BY <3>3 DEF Service!Reply
    <3>5. free = {id}
      BY <1>0, <2>2, <3>2, <3>4 DEF Service!Exports
    <3> HIDE DEF free
    <3>6. Making(c, r) = {<<"export", c, id>>}
      BY <2>1, <3>5 DEF Making, free
    <3>7. ASSUME NEW ended PROVE Judgement(s.op, ended, r.answer).end # "again"
      <4>1. Judgement(s.op, ended, r.answer) = Actapro!CreateExport(Service!OK(v))
        BY <2>2, <3>1, <3>4 DEF Judgement, Once
      <4> QED
        BY <3>3, <4>1, ExportIsTaken
    <3> QED
      BY <3>1, <3>6, <3>7 DEF Creating, Kinds
  <2> QED
    BY <2>3, <2>4
<1> QED
  BY <1>0, <1>1, <1>2 DEF Ops

Mades(c)  == {m \in made : m[2] = c}
Lates(c)  == {s \in late : s.by = c}
Asked(c)  == Cardinality(Mades(c)) + Cardinality(Lates(c))
Spoilt(c) == Cardinality(spoiled[c])

\* An answer in its newer form.
Changed(c) == wire[c].at = "answer" /\ wire[c].changed

\* An attempt creates at most one thing, now or when its request comes late.  It is
\* followed by another one when its answer was spoiled or when it created nothing.
UnderWay(c) ==
    IF Changed(c)
    THEN spoiled[c] \subseteq 1..call[c].try /\ Asked(c) <= Spoilt(c)
    ELSE /\ spoiled[c] \subseteq 1..(call[c].try - 1)
         /\ \/ Asked(c) <= Spoilt(c)
            \/ wire[c].at = "answer"
               /\ Judgement(call[c].op, call[c].ended, wire[c].answer).end # "again"

\* What an execution that creates something has made or will have made late.
Bounded(c) ==
    /\ \A s \in Lates(c) : s.try \in spoiled[c]
    /\ Asked(c) <= call[c].try /\ Asked(c) <= Spoilt(c) + 1
    /\ call[c].phase = "idle" => spoiled[c] = {}
    /\ call[c].phase = "running" => UnderWay(c)

Counted(c) ==
    /\ IsFiniteSet(Mades(c)) /\ IsFiniteSet(Lates(c))
    /\ wire[c].at # "none" => call[c].phase = "running"
    /\ call[c].phase = "idle" => call[c].try = 0
    /\ \A s \in Lates(c) : s.op = call[c].work.op \/ s.op = "exportLogs"
    /\ IF call[c].work.op \in Creating THEN Bounded(c) ELSE Mades(c) = {}

CountInv ==
    /\ \A m \in made : m[1] \in Kinds /\ m[2] \in Calls
    /\ \A c \in Calls : Counted(c)

\* What was spoiled is counted.
LEMMA Spoils ==
    ASSUME TypeOK, NEW c \in Calls
    PROVE  /\ IsFiniteSet(spoiled[c]) /\ Spoilt(c) \in Nat
           /\ \A n \in Nat : spoiled[c] \subseteq 1..n => Spoilt(c) <= n
<1>1. spoiled[c] \subseteq 1..MaxTries /\ MaxTries \in Nat
  BY MaxTriesAssumption DEF TypeOK
<1>2. ASSUME NEW n \in Nat, spoiled[c] \subseteq 1..n
      PROVE  IsFiniteSet(spoiled[c]) /\ Spoilt(c) <= n
  <2>1. IsFiniteSet(1..n) /\ Cardinality(1..n) = n
    BY FS_Interval
  <2> QED
    BY <1>2, <2>1, FS_Subset DEF Spoilt
<1>3. IsFiniteSet(spoiled[c])
  BY <1>1, <1>2
<1> QED
  BY <1>2, <1>3, FS_CardinalityType DEF Spoilt

\* The two parts of a count are numbers.
LEMMA AskedIsNat ==
    ASSUME NEW c \in Calls, Counted(c)
    PROVE  /\ Cardinality(Mades(c)) \in Nat /\ Cardinality(Lates(c)) \in Nat /\ Asked(c) \in Nat
BY FS_CardinalityType DEF Counted, Asked

\* An execution that takes no part in a step.
LEMMA CountedStays ==
    ASSUME NEW c \in Calls, Counted(c), call'[c] = call[c], wire'[c] = wire[c],
           spoiled'[c] = spoiled[c], Mades(c)' = Mades(c), Lates(c)' = Lates(c)
    PROVE  Counted(c)'
BY DEF Counted, Bounded, UnderWay, Changed, Asked, Spoilt

\* What a served request makes is for the execution it came from.
LEMMA MadesGrow ==
    ASSUME IInv, CountInv, NEW s \in Sent, NEW r \in Replies(s), Do(s.by, r)
    PROVE  /\ \A m \in made' : m[1] \in Kinds /\ m[2] \in Calls
           /\ \A c \in Calls \ {s.by} : Mades(c)' = Mades(c)
           /\ \/ Mades(s.by)' = Mades(s.by)
              \/ /\ s.op \in Creating
                 /\ \E m : Mades(s.by)' = Mades(s.by) \cup {m}
                 /\ \A ended : Judgement(s.op, ended, r.answer).end # "again"
<1> DEFINE c == s.by
           new == Making(c, r)
<1>1. c \in Calls /\ made' = made \cup new
  BY DEF Sent, Do
<1>2. \/ new = {}
      \/ /\ s.op \in Creating
         /\ \E k \in Kinds : \E id : new = {<<k, c, id>>}
         /\ \A ended : Judgement(s.op, ended, r.answer).end # "again"
  BY MakesOne
<1> HIDE DEF new
<1>3. CASE new = {}
  BY <1>1, <1>3 DEF CountInv, Mades
<1>4. CASE new # {}
  <2>1. PICK k \in Kinds : \E id : new = {<<k, c, id>>}
    BY <1>2, <1>4
  <2>2. PICK id : new = {<<k, c, id>>}
    BY <2>1
  <2>3. DEFINE m == <<k, c, id>>
  <2>4. m[1] = k /\ m[2] = c /\ made' = made \cup {m}
    BY <1>1, <2>2
  <2> HIDE DEF m
  <2>5. \A d \in Calls \ {c} : Mades(d)' = Mades(d)
    BY <2>4 DEF Mades
  <2>6. Mades(c)' = Mades(c) \cup {m}
    BY <2>4 DEF Mades
  <2> QED
    BY <1>1, <1>2, <1>4, <2>1, <2>4, <2>5, <2>6 DEF CountInv
<1> QED
  BY <1>3, <1>4

\* The attempt of an execution ends, and it begins anew or fails.
LEMMA AttemptEnds ==
    ASSUME TypeOK, NEW c \in Calls, EndAttempt(c)
    PROVE  /\ wire'[c].at = "none" /\ call'[c].work = call[c].work
           /\ \/ call'[c].phase = "failed" /\ call'[c].try = call[c].try
              \/ call'[c].phase = call[c].phase /\ call'[c].try = call[c].try + 1
           /\ \A d \in Calls \ {c} : call'[d] = call[d] /\ wire'[d] = wire[d]
<1>1. call \in [Calls -> Call] /\ call[c] \in Call /\ DOMAIN wire = Calls
  BY DEF TypeOK
<1>2. Silent.at = "none"
  BY DEF Silent, Wire
<1>3. wire' = [wire EXCEPT ![c] = Silent]
  BY DEF EndAttempt
<1>4. \/ call' = [call EXCEPT ![c].phase = "failed"]
      \/ call' = [call EXCEPT ![c].try = call[c].try + 1, ![c].op = call[c].work.op,
                              ![c].ended = ""]
  BY Zenon DEF EndAttempt
<1>5. \A d \in Calls \ {c} : call'[d] = call[d]
  BY <1>1, <1>4
<1>6. CASE call' = [call EXCEPT ![c].phase = "failed"]
  BY <1>1, <1>2, <1>3, <1>5, <1>6 DEF Call
<1>7. CASE call' = [call EXCEPT ![c].try = call[c].try + 1, ![c].op = call[c].work.op,
                                ![c].ended = ""]
  <2>1. call'[c].work = call[c].work /\ call'[c].phase = call[c].phase
        /\ call'[c].try = call[c].try + 1
    BY <1>1, <1>7 DEF Call
  <2> QED
    BY <1>1, <1>2, <1>3, <1>5, <2>1
<1> QED
  BY <1>4, <1>6, <1>7

\* An activity that creates something does not wait.
LEMMA CreatingJudges ==
    ASSUME NEW op \in Creating, NEW a, NEW ended
    PROVE  Judgement(op, ended, a).end \in {"ok", "final", "again"}
<1> DEFINE v == Judgement(op, ended, a)
<1>1. /\ \A x : Client!Ok(x).end = "ok"
      /\ Client!Again.end = "again" /\ Client!Final.end = "final"
      /\ \A x : Actapro!Ok(x).end = "ok"
      /\ Actapro!Again.end = "again" /\ Actapro!Final.end = "final"
  BY DEF Client!Ok, Client!Again, Client!Final, Client!Verdict,
         Actapro!Ok, Actapro!Again, Actapro!Final, Actapro!Verdict
<1>2. CASE op = "createTask"
  <2>1. v = Client!CreateImportTask(a)
    BY <1>2 DEF Judgement, Once
  <2> HIDE DEF v
  <2>2. v = Client!Again \/ v = Client!Final \/ \E x : v = Client!Ok(x)
    BY <2>1 DEF Client!CreateImportTask, Client!Id
  <2> QED
    BY <1>1, <2>2 DEF v
<1>3. CASE op = "createRun"
  <2>1. v = Client!CreateImportRun(a)
    BY <1>3 DEF Judgement, Once
  <2> HIDE DEF v
  <2>2. v = Client!Again \/ v = Client!Final \/ \E x : v = Client!Ok(x)
    BY <2>1 DEF Client!CreateImportRun, Client!Id
  <2> QED
    BY <1>1, <2>2 DEF v
<1>4. CASE op = "createExport"
  <2>1. v = Actapro!CreateExport(a)
    BY <1>4 DEF Judgement, Once
  <2> HIDE DEF v
  <2>2. v = Actapro!Again \/ v = Actapro!Final \/ \E x : v = Actapro!Ok(x)
    BY <2>1 DEF Actapro!CreateExport, Actapro!Judged, Actapro!Refusal, Actapro!Id
  <2> QED
    BY <1>1, <2>2 DEF v
<1> QED
  BY <1>2, <1>3, <1>4 DEF Creating

\* A step that ends an attempt: what was asked stays within what was spoiled.
LEMMA AttemptCounts ==
    ASSUME IInv, CountInv, NEW c \in Calls, call[c].phase = "running", EndAttempt(c),
           Mades(c)' = Mades(c), IsFiniteSet(Lates(c)'),
           \A s \in Lates(c)' : s.op = call[c].work.op \/ s.op = "exportLogs",
           call[c].work.op \in Creating =>
               /\ \A s \in Lates(c)' : s.try \in spoiled'[c]
               /\ spoiled'[c] \subseteq 1..call[c].try
               /\ Asked(c)' <= Spoilt(c)' /\ Spoilt(c)' <= call[c].try
    PROVE  Counted(c)'
<1>0. TypeOK /\ Counted(c)
  BY DEF IInv, CountInv
<1>1. /\ wire'[c].at = "none" /\ call'[c].work = call[c].work
      /\ \/ call'[c].phase = "failed" /\ call'[c].try = call[c].try
         \/ call'[c].phase = "running" /\ call'[c].try = call[c].try + 1
  BY <1>0, AttemptEnds
<1>2. call[c].try \in Nat
  <2>1. call[c].try \in 0..MaxTries
    BY <1>0, CallTypes
  <2> QED
    BY <2>1, MaxTriesAssumption
<1>3. CASE call[c].work.op \notin Creating
  BY <1>0, <1>1, <1>3 DEF Counted
<1>4. CASE call[c].work.op \in Creating
  <2> DEFINE a == Asked(c)'
             p == Spoilt(c)'
             n == call[c].try
  <2>1. a \in Nat /\ p \in Nat
    <3>1. Cardinality(Mades(c)') \in Nat /\ Cardinality(Lates(c)') \in Nat
      BY <1>0, FS_CardinalityType DEF Counted
    <3>2. IsFiniteSet(spoiled'[c])
      <4>1. IsFiniteSet(1..n)
        BY <1>2, FS_Interval
      <4> QED
        BY <1>4, <4>1, FS_Subset
    <3> QED
      BY <3>1, <3>2, FS_CardinalityType DEF Asked, Spoilt
  <2>2. a <= p /\ p <= n
    BY <1>4
  <2> HIDE DEF a, p, n
  <2>3. a <= n /\ a <= n + 1 /\ a <= p + 1
    BY <1>2, <2>1, <2>2 DEF n
  <2>4. call'[c].try - 1 = call[c].try \/ call'[c].phase # "running"
    BY <1>1, <1>2
  <2>5. ~Changed(c)'
    BY <1>1 DEF Changed
  <2>6. call'[c].phase = "running" => UnderWay(c)'
    BY <1>4, <2>2, <2>4, <2>5 DEF UnderWay, a, p
  <2>7. Bounded(c)'
    BY <1>1, <1>4, <2>2, <2>3, <2>6 DEF Bounded, a, p, n
  <2> QED
    BY <1>0, <1>1, <1>4, <2>7 DEF Counted
<1> QED
  BY <1>3, <1>4

\* What the execution at work has spoiled so far.
LEMMA Working ==
    ASSUME IInv, CountInv, NEW c \in Calls, call[c].phase = "running",
           call[c].work.op \in Creating
    PROVE  /\ Asked(c) \in Nat /\ Spoilt(c) \in Nat /\ call[c].try \in 1..MaxTries
           /\ spoiled[c] \subseteq 1..call[c].try /\ Spoilt(c) <= call[c].try
           /\ ~Changed(c) => /\ Spoilt(c) + 1 <= call[c].try
                             /\ call[c].try \notin spoiled[c]
                             /\ spoiled[c] \subseteq 1..(call[c].try - 1)
           /\ \A s \in Lates(c) : s.try \in spoiled[c]
           /\ Asked(c) <= call[c].try /\ Asked(c) <= Spoilt(c) + 1
           /\ wire[c].at # "answer" \/ Changed(c) => Asked(c) <= Spoilt(c)
<1>1. TypeOK /\ Counted(c) /\ Bounded(c) /\ UnderWay(c)
  BY DEF IInv, CountInv, Counted, Bounded
<1>2. call[c].try \in 1..MaxTries /\ MaxTries \in Nat
  BY Sends, MaxTriesAssumption
<1>3. /\ Spoilt(c) \in Nat
      /\ \A n \in Nat : spoiled[c] \subseteq 1..n => Spoilt(c) <= n
  BY <1>1, Spoils
<1>4. Asked(c) \in Nat
  BY <1>1, AskedIsNat
<1>5. ASSUME ~Changed(c)
      PROVE  /\ Spoilt(c) + 1 <= call[c].try /\ call[c].try \notin spoiled[c]
             /\ spoiled[c] \subseteq 1..(call[c].try - 1)
  <2>1. spoiled[c] \subseteq 1..(call[c].try - 1) /\ call[c].try - 1 \in Nat
    BY <1>1, <1>2, <1>5 DEF UnderWay
  <2>2. Spoilt(c) <= call[c].try - 1
    BY <1>3, <2>1
  <2> QED
    BY <1>2, <1>3, <2>1, <2>2
<1>6. spoiled[c] \subseteq 1..call[c].try
  BY <1>1, <1>2, <1>5 DEF UnderWay
<1>7. call[c].try \in Nat
  BY <1>2
<1>8. Spoilt(c) <= call[c].try
  BY <1>3, <1>6, <1>7
<1>9. wire[c].at # "answer" \/ Changed(c) => Asked(c) <= Spoilt(c)
  BY <1>1 DEF UnderWay
<1> QED
  BY <1>1, <1>2, <1>3, <1>4, <1>5, <1>6, <1>8, <1>9 DEF Bounded

\* Nothing that an execution, a service or the network does breaks the counts.
LEMMA CountStep == IInv /\ CountInv /\ [Next]_vars => CountInv'
<1> SUFFICES ASSUME IInv, CountInv, [Next]_vars PROVE CountInv'
  OBVIOUS
<1>0. /\ TypeOK /\ call \in [Calls -> Call] /\ DOMAIN wire = Calls /\ late \subseteq Sent
      /\ spoiled \in [Calls -> SUBSET (1..MaxTries)]
      /\ \A m \in made : m[1] \in Kinds /\ m[2] \in Calls
      /\ \A c \in Calls : Counted(c)
  BY DEF IInv, TypeOK, CountInv
<1>s. ASSUME UNCHANGED <<made, late>> PROVE \A d \in Calls : Mades(d)' = Mades(d) /\ Lates(d)' = Lates(d)
  BY <1>s DEF Mades, Lates
<1>a. ASSUME NEW c \in Calls, UNCHANGED made, Counted(c)',
             \A d \in Calls \ {c} :
                /\ call'[d] = call[d] /\ wire'[d] = wire[d] /\ spoiled'[d] = spoiled[d]
                /\ Mades(d)' = Mades(d) /\ Lates(d)' = Lates(d)
      PROVE  CountInv'
  <2>1. ASSUME NEW d \in Calls PROVE Counted(d)'
    BY <1>0, <1>a, CountedStays
  <2> QED
    BY <1>0, <1>a, <2>1 DEF CountInv
<1>1. ASSUME NEW c \in Calls, Start(c) PROVE CountInv'
  <2>1. /\ call[c].phase = "idle" /\ UNCHANGED <<made, late, wire, spoiled>>
        /\ call' = [call EXCEPT ![c].phase = "running", ![c].try = 1]
    BY <1>1 DEF Start
  <2>2. /\ call'[c].phase = "running" /\ call'[c].try = 1 /\ call'[c].work = call[c].work
        /\ call'[c].op = call[c].op /\ call'[c].ended = call[c].ended
        /\ \A d \in Calls \ {c} : call'[d] = call[d]
    BY <1>0, <2>1 DEF Call
  <2>3. \A d \in Calls : Mades(d)' = Mades(d) /\ Lates(d)' = Lates(d)
    BY <1>s, <2>1
  <2>4. Counted(c) /\ wire[c].at = "none"
    BY <1>0, <2>1 DEF Counted
  <2>5. Counted(c)'
    <3>1. CASE call[c].work.op \notin Creating
      BY <2>1, <2>2, <2>3, <2>4, <3>1 DEF Counted
    <3>2. CASE call[c].work.op \in Creating
      <4>1. /\ spoiled[c] = {} /\ Asked(c) <= 0 /\ \A s \in Lates(c) : s.try \in spoiled[c]
        BY <2>1, <2>4, <3>2 DEF Counted, Bounded
      <4>2. Asked(c) \in Nat /\ Spoilt(c) = 0
        BY <2>4, <4>1, AskedIsNat, FS_EmptySet DEF Spoilt
      <4>3. Asked(c)' = Asked(c) /\ Spoilt(c)' = Spoilt(c)
        BY <2>1, <2>3 DEF Asked, Spoilt
      <4>4. Asked(c)' <= 0 /\ Asked(c)' <= 1 /\ Asked(c)' <= Spoilt(c)' + 1 /\ Asked(c)' <= Spoilt(c)'
        BY <4>1, <4>2, <4>3
      <4>5. UnderWay(c)'
        BY <2>1, <2>4, <4>1, <4>4 DEF UnderWay, Changed
      <4>6. Bounded(c)'
        BY <2>1, <2>2, <2>3, <4>1, <4>4, <4>5 DEF Bounded
      <4> QED
        BY <2>1, <2>2, <2>3, <2>4, <3>2, <4>6 DEF Counted
    <3> QED
      BY <3>1, <3>2
  <2> QED
    BY <1>a, <2>1, <2>2, <2>3, <2>5
<1>e. ASSUME NEW c \in Calls, NEW phase \in {"returned", "failed"}, End(c, phase),
             call[c].phase = "running", UNCHANGED <<made, late, spoiled>>
      PROVE  CountInv'
  <2>1. /\ call'[c].phase = phase /\ call'[c].try = call[c].try /\ call'[c].work = call[c].work
        /\ wire'[c] = Silent
        /\ \A d \in Calls \ {c} : call'[d] = call[d] /\ wire'[d] = wire[d]
    BY <1>0, <1>e DEF End, Call
  <2>2. Silent.at = "none"
    BY DEF Silent, Wire
  <2>3. \A d \in Calls : Mades(d)' = Mades(d) /\ Lates(d)' = Lates(d)
    BY <1>e, <1>s
  <2>4. Counted(c)
    BY <1>0
  <2>5. Counted(c)'
    <3>1. CASE call[c].work.op \notin Creating
      BY <2>1, <2>2, <2>3, <2>4, <3>1 DEF Counted
    <3>2. CASE call[c].work.op \in Creating
      <4>1. Asked(c)' = Asked(c) /\ Spoilt(c)' = Spoilt(c)
        BY <1>e, <2>3 DEF Asked, Spoilt
      <4>2. Bounded(c)'
        BY <1>e, <2>1, <2>3, <2>4, <3>2, <4>1 DEF Counted, Bounded
      <4> QED
        BY <2>1, <2>2, <2>3, <2>4, <3>2, <4>2 DEF Counted
    <3> QED
      BY <3>1, <3>2
  <2> QED
    BY <1>a, <1>e, <2>1, <2>3, <2>5
<1>2. ASSUME NEW c \in Calls, Unprepared(c) PROVE CountInv'
  BY <1>2, <1>e DEF Unprepared, Running
<1>3. ASSUME NEW c \in Calls, Ask(c) PROVE CountInv'
  <2>1. /\ call[c].phase = "running" /\ wire[c].at = "none"
        /\ UNCHANGED <<call, made, late, spoiled>>
    BY <1>3 DEF Ask, Running
  <2>2. PICK token : wire' = [wire EXCEPT ![c] = Wire("request", token, NoAnswer, FALSE)]
    BY <1>3 DEF Ask
  <2>3. wire'[c].at = "request" /\ \A d \in Calls \ {c} : wire'[d] = wire[d]
    BY <1>0, <2>2 DEF Wire
  <2>4. \A d \in Calls : Mades(d)' = Mades(d) /\ Lates(d)' = Lates(d)
    BY <2>1, <1>s
  <2>5. Counted(c)
    BY <1>0
  <2>6. Asked(c)' = Asked(c) /\ Spoilt(c)' = Spoilt(c)
    BY <2>1, <2>4 DEF Asked, Spoilt
  <2>7. UnderWay(c) => UnderWay(c)'
    BY <2>1, <2>3, <2>6 DEF UnderWay, Changed
  <2>8. Counted(c)'
    BY <2>1, <2>3, <2>4, <2>5, <2>6, <2>7 DEF Counted, Bounded
  <2> QED
    BY <1>a, <2>1, <2>3, <2>4, <2>8
<1>4. ASSUME NEW c \in Calls, Serve(c) PROVE CountInv'
  <2> DEFINE s == SentBy(c)
             ended == call[c].ended
  <2>1. /\ call[c].phase = "running" /\ wire[c].at = "request"
        /\ UNCHANGED <<call, late, spoiled>>
    BY <1>4 DEF Serve, Running
  <2>2. PICK r \in Replies(s) :
          /\ Do(c, r)
          /\ wire' = [wire EXCEPT ![c] = Wire("answer", wire[c].token, r.answer, FALSE)]
    BY <1>4 DEF Serve
  <2>3. s \in Sent /\ s.by = c /\ s.op = call[c].op
    BY <2>1, Sends DEF SentBy
  <2>4. /\ wire'[c].at = "answer" /\ wire'[c].answer = r.answer /\ ~wire'[c].changed
        /\ \A d \in Calls \ {c} : wire'[d] = wire[d]
    BY <1>0, <2>2 DEF Wire
  <2> HIDE DEF s, ended
  <2>5. /\ \A m \in made' : m[1] \in Kinds /\ m[2] \in Calls
        /\ \A d \in Calls \ {c} : Mades(d)' = Mades(d)
        /\ \/ Mades(c)' = Mades(c)
           \/ /\ call[c].op \in Creating
              /\ \E m : Mades(c)' = Mades(c) \cup {m}
              /\ Judgement(call[c].op, ended, r.answer).end # "again"
    BY <2>2, <2>3, MadesGrow
  <2>6. \A d \in Calls : Lates(d)' = Lates(d)
    BY <2>1 DEF Lates
  <2>7. Counted(c) /\ CallInv(c)
    BY <1>0 DEF IInv
  <2>8. call[c].op \in Creating => call[c].work.op \in Creating
    BY <2>7 DEF CallInv, Creating
  <2>9. IsFiniteSet(Mades(c)') /\ Cardinality(Mades(c)') \in Nat
        /\ Cardinality(Mades(c)') <= Cardinality(Mades(c)) + 1
    <3>1. CASE Mades(c)' = Mades(c)
      BY <2>7, <3>1, AskedIsNat DEF Counted
    <3>2. CASE Mades(c)' # Mades(c)
      <4>1. PICK m : Mades(c)' = Mades(c) \cup {m}
        BY <2>5, <3>2
      <4>2. IsFiniteSet(Mades(c)) /\ Cardinality(Mades(c)) \in Nat
        BY <2>7, AskedIsNat DEF Counted
      <4>3. IsFiniteSet(Mades(c) \cup {m})
            /\ Cardinality(Mades(c) \cup {m}) \in {Cardinality(Mades(c)), Cardinality(Mades(c)) + 1}
        BY <4>2, FS_AddElement
      <4> QED
        BY <4>1, <4>2, <4>3
    <3> QED
      BY <3>1, <3>2
  <2>10. Counted(c)'
    <3>1. CASE call[c].work.op \notin Creating
      BY <2>1, <2>5, <2>6, <2>7, <2>8, <3>1 DEF Counted
    <3>2. CASE call[c].work.op \in Creating
      <4>1. /\ Asked(c) \in Nat /\ Spoilt(c) \in Nat /\ call[c].try \in Nat
            /\ Spoilt(c) + 1 <= call[c].try
            /\ spoiled[c] \subseteq 1..(call[c].try - 1)
            /\ \A t \in Lates(c) : t.try \in spoiled[c]
            /\ Asked(c) <= Spoilt(c)
        BY <2>1, <3>2, Working DEF Changed
      <4>2. Cardinality(Mades(c)) \in Nat /\ Cardinality(Lates(c)) \in Nat
        BY <2>7, AskedIsNat
      <4>3. Spoilt(c)' = Spoilt(c)
        BY <2>1 DEF Spoilt
      <4>4. Asked(c)' \in Nat /\ Asked(c)' <= Asked(c) + 1 /\ Lates(c)' = Lates(c)
        BY <2>6, <2>9, <4>2 DEF Asked
      <4>5. Asked(c)' <= call[c].try /\ Asked(c)' <= Spoilt(c)' + 1
        BY <4>1, <4>3, <4>4
      <4>6. Asked(c)' <= Spoilt(c)'
            \/ Judgement(call[c].op, ended, r.answer).end # "again"
        <5>1. Mades(c)' = Mades(c) => Asked(c)' = Asked(c)
          BY <2>6 DEF Asked
        <5> QED
          BY <2>5, <4>1, <4>3, <5>1
      <4>7. UnderWay(c)'
        BY <2>1, <2>4, <4>1, <4>6 DEF UnderWay, Changed, ended
      <4>8. Bounded(c)'
        BY <2>1, <4>1, <4>4, <4>5, <4>7 DEF Bounded
      <4> QED
        BY <2>1, <2>6, <2>7, <2>9, <3>2, <4>8 DEF Counted
    <3> QED
      BY <3>1, <3>2
  <2>11. ASSUME NEW d \in Calls PROVE Counted(d)'
    BY <1>0, <2>1, <2>4, <2>5, <2>6, <2>10, CountedStays
  <2> QED
    BY <2>5, <2>11 DEF CountInv

<1>5. ASSUME NEW s \in late, ServeLate(s) PROVE CountInv'
  <2> DEFINE c == s.by
  <2>1. PICK r \in Replies(s) : Do(c, r)
    BY <1>5 DEF ServeLate
  <2>2. s \in Sent /\ c \in Calls /\ UNCHANGED <<call, wire, spoiled>> /\ late' = late \ {s}
    BY <1>0, <1>5 DEF ServeLate, Sent
  <2>3. /\ \A m \in made' : m[1] \in Kinds /\ m[2] \in Calls
        /\ \A d \in Calls \ {c} : Mades(d)' = Mades(d)
        /\ \/ Mades(c)' = Mades(c)
           \/ s.op \in Creating /\ \E m : Mades(c)' = Mades(c) \cup {m}
    BY <2>1, <2>2, MadesGrow
  <2>4. /\ \A d \in Calls \ {c} : Lates(d)' = Lates(d)
        /\ Lates(c)' = Lates(c) \ {s} /\ s \in Lates(c)
    BY <2>2 DEF Lates
  <2>5. Counted(c)
    BY <1>0, <2>2
  <2>6. s.op \in Creating => call[c].work.op \in Creating
    BY <2>4, <2>5 DEF Counted, Creating
  <2> HIDE DEF c
  <2> DEFINE m0 == Cardinality(Mades(c))
             m1 == Cardinality(Mades(c)')
             l0 == Cardinality(Lates(c))
             l1 == Cardinality(Lates(c)')
  <2>7. m0 \in Nat /\ l0 \in Nat /\ IsFiniteSet(Mades(c)) /\ IsFiniteSet(Lates(c))
    BY <2>2, <2>5, AskedIsNat DEF Counted
  <2>8. IsFiniteSet(Mades(c)') /\ m1 \in {m0, m0 + 1}
    <3>1. CASE Mades(c)' = Mades(c)
      BY <2>7, <3>1
    <3>2. CASE Mades(c)' # Mades(c)
      <4>1. PICK m : Mades(c)' = Mades(c) \cup {m}
        BY <2>3, <3>2
      <4>2. IsFiniteSet(Mades(c) \cup {m})
            /\ Cardinality(Mades(c) \cup {m}) \in {Cardinality(Mades(c)), Cardinality(Mades(c)) + 1}
        BY <2>7, FS_AddElement
      <4> QED
        BY <4>1, <4>2
    <3> QED
      BY <3>1, <3>2
  <2>9. IsFiniteSet(Lates(c)') /\ l1 = l0 - 1
    BY <2>4, <2>7, FS_RemoveElement
  <2>10. Asked(c)' = m1 + l1 /\ Asked(c) = m0 + l0
    BY DEF Asked
  <2> HIDE DEF m0, m1, l0, l1
  <2>11. Asked(c)' <= Asked(c) /\ Asked(c) \in Nat /\ Asked(c)' \in Int
    BY <2>7, <2>8, <2>9, <2>10
  <2>12. Counted(c)'
    <3>1. CASE call[c].work.op \notin Creating
      BY <2>2, <2>3, <2>4, <2>5, <2>6, <2>8, <2>9, <3>1 DEF Counted
    <3>2. CASE call[c].work.op \in Creating
      <4>1. Bounded(c) /\ Spoilt(c)' = Spoilt(c) /\ Spoilt(c) \in Nat /\ call[c].try \in Nat
        <5>1. call[c].try \in 0..MaxTries
          BY <1>0, <2>2, CallTypes
        <5>2. call[c].try \in Nat
          BY <5>1, MaxTriesAssumption
        <5> QED
          BY <1>0, <2>2, <2>5, <3>2, <5>2, Spoils DEF Counted, Spoilt
      <4>2. /\ Asked(c) <= call[c].try => Asked(c)' <= call[c].try
            /\ Asked(c) <= Spoilt(c) + 1 => Asked(c)' <= Spoilt(c)' + 1
            /\ Asked(c) <= Spoilt(c) => Asked(c)' <= Spoilt(c)'
        BY <2>11, <4>1
      <4>3. UnderWay(c) => UnderWay(c)'
        BY <2>2, <4>1, <4>2 DEF UnderWay, Changed
      <4>4. Bounded(c)'
        BY <2>2, <2>4, <4>1, <4>2, <4>3 DEF Bounded
      <4> QED
        BY <2>2, <2>4, <2>5, <2>8, <2>9, <3>2, <4>4 DEF Counted
    <3> QED
      BY <3>1, <3>2
  <2>13. ASSUME NEW d \in Calls PROVE Counted(d)'
    BY <1>0, <2>2, <2>3, <2>4, <2>12, CountedStays
  <2> QED
    BY <2>3, <2>13 DEF CountInv
<1>6. ASSUME NEW c \in Calls, Extend(c) PROVE CountInv'
  <2> DEFINE try == call[c].try
  <2>1. /\ call[c].phase = "running" /\ wire[c].at = "answer" /\ ~wire[c].changed
        /\ UNCHANGED <<call, made, late>>
        /\ wire' = [wire EXCEPT ![c] = Wire("answer", wire[c].token, Extended(wire[c].answer), TRUE)]
        /\ spoiled' = [spoiled EXCEPT ![c] = @ \cup {try}]
    BY <1>6 DEF Extend, Running
  <2>2. /\ wire'[c].at = "answer" /\ wire'[c].changed
        /\ \A d \in Calls \ {c} : wire'[d] = wire[d] /\ spoiled'[d] = spoiled[d]
        /\ spoiled'[c] = spoiled[c] \cup {try}
    BY <1>0, <2>1 DEF Wire
  <2>3. \A d \in Calls : Mades(d)' = Mades(d) /\ Lates(d)' = Lates(d)
    BY <2>1, <1>s
  <2>4. Counted(c)
    BY <1>0
  <2>5. Counted(c)'
    <3>1. CASE call[c].work.op \notin Creating
      BY <2>1, <2>2, <2>3, <2>4, <3>1 DEF Counted
    <3>2. CASE call[c].work.op \in Creating
      <4>1. /\ Asked(c) \in Nat /\ Spoilt(c) \in Nat /\ try \in 1..MaxTries
            /\ spoiled[c] \subseteq 1..try /\ try \notin spoiled[c]
            /\ Asked(c) <= try /\ Asked(c) <= Spoilt(c) + 1
            /\ \A t \in Lates(c) : t.try \in spoiled[c]
        BY <2>1, <3>2, Working DEF Changed
      <4>2. Spoilt(c)' = Spoilt(c) + 1
        <5>1. IsFiniteSet(spoiled[c])
          BY <1>0, Spoils
        <5>2. Cardinality(spoiled[c] \cup {try}) = Cardinality(spoiled[c]) + 1
          BY <4>1, <5>1, FS_AddElement
        <5> QED
          BY <2>2, <5>2 DEF Spoilt
      <4>3. Asked(c)' = Asked(c)
        BY <2>3 DEF Asked
      <4> HIDE DEF try
      <4>4. try \in 1..try
        BY <4>1, MaxTriesAssumption
      <4>5. Asked(c)' <= Spoilt(c)' /\ Asked(c)' <= Spoilt(c)' + 1 /\ Asked(c)' <= try
            /\ spoiled'[c] \subseteq 1..try
        BY <2>2, <4>1, <4>2, <4>3, <4>4
      <4>6. UnderWay(c)'
        BY <2>1, <2>2, <4>5 DEF UnderWay, Changed, try
      <4>7. Bounded(c)'
        BY <2>1, <2>2, <2>3, <4>1, <4>5, <4>6 DEF Bounded, try
      <4> QED
        BY <2>1, <2>2, <2>3, <2>4, <3>2, <4>7 DEF Counted
    <3> QED
      BY <3>1, <3>2
  <2> QED
    BY <1>a, <2>1, <2>2, <2>3, <2>5
<1>7. ASSUME NEW c \in Calls, Read(c) PROVE CountInv'
  <2> DEFINE v == Judgement(call[c].op, call[c].ended, wire[c].answer)
  <2>1. /\ call[c].phase = "running" /\ wire[c].at = "answer" /\ UNCHANGED <<made, late, spoiled>>
        /\ CASE v.end = "ok" -> End(c, "returned")
             [] v.end = "final" -> End(c, "failed")
             [] v.end = "again" -> EndAttempt(c)
             [] v.end = "poll" -> wire' = [wire EXCEPT ![c] = Silent] /\ UNCHANGED call
             [] v.end = "logs" ->
                   /\ wire' = [wire EXCEPT ![c] = Silent]
                   /\ call' = [call EXCEPT ![c].op = "exportLogs", ![c].ended = v.value]
    BY <1>7 DEF Read, Running
  <2>2. Counted(c) /\ CallInv(c) /\ call[c].op \in Ops
    BY <1>0, CallTypes DEF IInv
  <2>3. v.end \in {"ok", "final", "again", "poll", "logs"}
    BY <2>2, Verdicts
  <2>4. call[c].work.op \in Creating => call[c].op = call[c].work.op
                                        /\ v.end \in {"ok", "final", "again"}
    <3>1. call[c].work.op \in Creating => call[c].op = call[c].work.op
      BY <2>2 DEF CallInv, Creating
    <3> QED
      BY <3>1, CreatingJudges
  <2>5. \A d \in Calls : Mades(d)' = Mades(d) /\ Lates(d)' = Lates(d)
    BY <2>1, <1>s
  <2>6. v.end = "again" /\ call[c].work.op \in Creating => Asked(c) <= Spoilt(c)
    BY <2>1, <2>2 DEF Counted, Bounded, UnderWay
  <2> HIDE DEF v
  <2>7. CASE v.end \in {"ok", "final"}
    <3>1. End(c, "returned") \/ End(c, "failed")
      BY <2>1, <2>7
    <3> QED
      BY <1>e, <2>1, <3>1
  <2>8. CASE v.end = "again"
    <3>1. EndAttempt(c)
      BY <2>1, <2>8
    <3>2. \A d \in Calls \ {c} : call'[d] = call[d] /\ wire'[d] = wire[d]
      BY <1>0, <3>1, AttemptEnds
    <3>3. ASSUME call[c].work.op \in Creating
          PROVE  /\ \A s \in Lates(c)' : s.try \in spoiled'[c]
                 /\ spoiled'[c] \subseteq 1..call[c].try
                 /\ Asked(c)' <= Spoilt(c)' /\ Spoilt(c)' <= call[c].try
      <4>1. Asked(c)' = Asked(c) /\ Spoilt(c)' = Spoilt(c)
        BY <2>1, <2>5 DEF Asked, Spoilt
      <4> QED
        BY <2>1, <2>5, <2>6, <2>8, <3>3, <4>1, Working
    <3>4. /\ IsFiniteSet(Lates(c)')
          /\ \A s \in Lates(c)' : s.op = call[c].work.op \/ s.op = "exportLogs"
      BY <2>2, <2>5 DEF Counted
    <3>5. Counted(c)'
      BY <2>1, <2>5, <3>1, <3>3, <3>4, AttemptCounts
    <3> QED
      BY <1>a, <2>1, <2>5, <3>2, <3>5
  <2>9. CASE v.end \in {"poll", "logs"}
    <3>1. call[c].work.op \notin Creating
      BY <2>4, <2>9
    <3>2. /\ wire' = [wire EXCEPT ![c] = Silent]
          /\ \/ UNCHANGED call
             \/ call' = [call EXCEPT ![c].op = "exportLogs", ![c].ended = v.value]
      BY <2>1, <2>9
    <3>3. Silent.at = "none"
      BY DEF Silent, Wire
    <3>4. /\ wire'[c].at = "none" /\ call'[c].work = call[c].work
          /\ call'[c].phase = "running"
          /\ \A d \in Calls \ {c} : call'[d] = call[d] /\ wire'[d] = wire[d]
      <4>1. /\ wire'[c].at = "none"
            /\ \A d \in Calls \ {c} : call'[d] = call[d] /\ wire'[d] = wire[d]
        BY <1>0, <3>2, <3>3
      <4>2. call'[c].work = call[c].work /\ call'[c].phase = call[c].phase
        <5>1. CASE UNCHANGED call
          BY <5>1
        <5>2. CASE call' = [call EXCEPT ![c].op = "exportLogs", ![c].ended = v.value]
          BY <1>0, <5>2 DEF Call
        <5> QED
          BY <3>2, <5>1, <5>2
      <4>3. call[c].phase = "running"
        BY <2>1
      <4> QED
        BY <4>1, <4>2, <4>3
    <3>5. Counted(c)'
      BY <2>2, <2>5, <3>1, <3>4 DEF Counted
    <3> QED
      BY <1>a, <2>1, <2>5, <3>4, <3>5
  <2> QED
    BY <2>3, <2>7, <2>8, <2>9
<1>8. ASSUME NEW c \in Calls, Deadline(c) PROVE CountInv'
  <2> DEFINE s == SentBy(c)
             try == call[c].try
  <2>1. /\ call[c].phase = "running" /\ EndAttempt(c) /\ UNCHANGED made
        /\ \/ late' = late
           \/ wire[c].at = "request" /\ late' = late \cup {s}
        /\ spoiled' = [spoiled EXCEPT ![c] = IF wire[c].at = "none" THEN @ ELSE @ \cup {try}]
    BY <1>8 DEF Deadline
  <2>2. s \in Sent /\ s.by = c /\ s.op = call[c].op /\ s.try = try
    BY <2>1, Sends DEF SentBy
  <2> HIDE DEF s
  <2>3. Counted(c) /\ CallInv(c)
    BY <1>0 DEF IInv
  <2>4. s.op = call[c].work.op \/ s.op = "exportLogs"
    BY <2>2, <2>3 DEF CallInv
  <2>5. /\ \A d \in Calls : Mades(d)' = Mades(d)
        /\ \A d \in Calls \ {c} : Lates(d)' = Lates(d)
        /\ \/ Lates(c)' = Lates(c)
           \/ wire[c].at = "request" /\ Lates(c)' = Lates(c) \cup {s}
    BY <2>1, <2>2 DEF Mades, Lates
  <2>6. IsFiniteSet(Lates(c)')
    BY <2>3, <2>5, FS_AddElement DEF Counted
  <2>7. \A t \in Lates(c)' : t.op = call[c].work.op \/ t.op = "exportLogs"
    BY <2>3, <2>4, <2>5 DEF Counted
  <2>8. \A d \in Calls \ {c} : call'[d] = call[d] /\ wire'[d] = wire[d] /\ spoiled'[d] = spoiled[d]
    BY <1>0, <2>1, AttemptEnds
  <2>9. spoiled'[c] = IF wire[c].at = "none" THEN spoiled[c] ELSE spoiled[c] \cup {try}
    BY <1>0, <2>1
  <2>10. ASSUME call[c].work.op \in Creating
         PROVE  /\ \A t \in Lates(c)' : t.try \in spoiled'[c]
                /\ spoiled'[c] \subseteq 1..try
                /\ Asked(c)' <= Spoilt(c)' /\ Spoilt(c)' <= try
    <3>1. /\ Asked(c) \in Nat /\ Spoilt(c) \in Nat /\ try \in 1..MaxTries
          /\ spoiled[c] \subseteq 1..try /\ Spoilt(c) <= try
          /\ ~Changed(c) => /\ Spoilt(c) + 1 <= try /\ try \notin spoiled[c]
          /\ \A t \in Lates(c) : t.try \in spoiled[c]
          /\ Asked(c) <= Spoilt(c) + 1
          /\ wire[c].at # "answer" \/ Changed(c) => Asked(c) <= Spoilt(c)
      BY <2>1, <2>10, Working
    <3>2. IsFiniteSet(spoiled[c]) /\ IsFiniteSet(Lates(c))
          /\ Cardinality(Mades(c)) \in Nat /\ Cardinality(Lates(c)) \in Nat
      BY <1>0, <2>3, Spoils, AskedIsNat DEF Counted
    <3>3. wire[c].at \in {"none", "request", "answer"}
      BY <1>0 DEF TypeOK
    <3> HIDE DEF try
    <3>4. try \in 1..try
      BY <3>1, MaxTriesAssumption
    <3>5. \A t \in Lates(c)' : t.try \in spoiled'[c]
      BY <2>2, <2>5, <2>9, <3>1
    <3>6. spoiled'[c] \subseteq 1..try
      BY <2>9, <3>1, <3>4
    <3>7. CASE wire[c].at = "none"
      <4>1. Spoilt(c)' = Spoilt(c) /\ Asked(c)' = Asked(c)
        BY <2>5, <2>9, <3>7 DEF Spoilt, Asked
      <4> QED
        BY <3>1, <3>5, <3>6, <3>7, <4>1
    <3>8. CASE wire[c].at = "request"
      <4>1. Spoilt(c)' = Spoilt(c) + 1
        <5>1. try \notin spoiled[c] /\ spoiled'[c] = spoiled[c] \cup {try}
          BY <2>9, <3>1, <3>8 DEF Changed
        <5>2. Cardinality(spoiled[c] \cup {try}) = Cardinality(spoiled[c]) + 1
          BY <3>2, <5>1, FS_AddElement
        <5> QED
          BY <5>1, <5>2 DEF Spoilt
      <4>2. Asked(c)' \in {Asked(c), Asked(c) + 1}
        <5>1. Cardinality(Lates(c)') \in {Cardinality(Lates(c)), Cardinality(Lates(c)) + 1}
          BY <2>5, <3>2, FS_AddElement
        <5> QED
          BY <2>5, <3>2, <5>1 DEF Asked
      <4>3. Asked(c) <= Spoilt(c) /\ Spoilt(c) + 1 <= try
        BY <3>1, <3>8 DEF Changed
      <4>4. Asked(c)' <= Spoilt(c)' /\ Spoilt(c)' <= try
        BY <3>1, <4>1, <4>2, <4>3
      <4> QED
        BY <3>5, <3>6, <4>4
    <3>9. CASE wire[c].at = "answer" /\ ~Changed(c)
      <4>1. Spoilt(c)' = Spoilt(c) + 1
        <5>1. try \notin spoiled[c] /\ spoiled'[c] = spoiled[c] \cup {try}
          BY <2>9, <3>1, <3>9
        <5>2. Cardinality(spoiled[c] \cup {try}) = Cardinality(spoiled[c]) + 1
          BY <3>2, <5>1, FS_AddElement
        <5> QED
          BY <5>1, <5>2 DEF Spoilt
      <4>2. Asked(c)' = Asked(c)
        BY <2>5, <3>9 DEF Asked
      <4>3. Asked(c)' <= Spoilt(c)' /\ Spoilt(c)' <= try
        BY <3>1, <3>9, <4>1, <4>2
      <4> QED
        BY <3>5, <3>6, <4>3
    <3>10. CASE Changed(c)
      <4>1. wire[c].at = "answer" /\ Asked(c) <= Spoilt(c)
        BY <3>1, <3>10 DEF Changed
      <4>2. Asked(c)' = Asked(c)
        BY <2>5, <4>1 DEF Asked
      <4>3. Spoilt(c)' \in {Spoilt(c), Spoilt(c) + 1}
        BY <2>9, <3>2, <4>1, FS_AddElement DEF Spoilt
      <4>4. Spoilt(c)' <= try
        <5>1. IsFiniteSet(1..try) /\ Cardinality(1..try) = try
          BY <3>1, MaxTriesAssumption, FS_Interval
        <5> QED
          BY <3>6, <5>1, FS_Subset DEF Spoilt
      <4>5. Asked(c)' <= Spoilt(c)'
        BY <3>1, <4>1, <4>2, <4>3
      <4> QED
        BY <3>5, <3>6, <4>4, <4>5
    <3> QED
      BY <3>3, <3>7, <3>8, <3>9, <3>10
  <2>11. Counted(c)'
    BY <2>1, <2>5, <2>6, <2>7, <2>10, AttemptCounts
  <2> QED
    BY <1>a, <2>1, <2>5, <2>8, <2>11
<1>9. ASSUME (\E id \in ExportIds : ExportStep(id)) \/ UNCHANGED vars PROVE CountInv'
  <2>1. UNCHANGED <<call, wire, late, made, spoiled>>
    BY <1>9 DEF ExportStep, vars
  <2>2. \A d \in Calls : Mades(d)' = Mades(d) /\ Lates(d)' = Lates(d)
    BY <2>1, <1>s
  <2>3. ASSUME NEW d \in Calls PROVE Counted(d)'
    BY <1>0, <2>1, <2>2, CountedStays
  <2> QED
    BY <1>0, <2>1, <2>3 DEF CountInv
<1> QED
  BY <1>1, <1>2, <1>3, <1>4, <1>5, <1>6, <1>7, <1>8, <1>9 DEF Next

\* Nothing is asked for at first.
LEMMA CountInit == Init => CountInv
<1> SUFFICES ASSUME Init PROVE CountInv
  OBVIOUS
<1>1. made = {} /\ late = {} /\ IInv
  BY InitInv DEF Init
<1>2. ASSUME NEW c \in Calls PROVE Counted(c)
  <2>1. Mades(c) = {} /\ Lates(c) = {}
    BY <1>1 DEF Mades, Lates
  <2>2. wire[c].at = "none" /\ spoiled[c] = {}
    BY DEF Init, Silent, Wire
  <2>3. call[c].phase = "idle" /\ call[c].try = 0
    <3>1. PICK s \in Settings :
            call = [d \in Calls |-> [work |-> s.work[d], op |-> s.work[d].op, ended |-> "",
                                    phase |-> "idle", try |-> 0]]
      BY DEF Init
    <3> QED
      BY <3>1
  <2>4. Asked(c) = 0 /\ Spoilt(c) = 0 /\ IsFiniteSet(Mades(c)) /\ IsFiniteSet(Lates(c))
    BY <2>1, <2>2, FS_EmptySet DEF Asked, Spoilt
  <2> QED
    BY <2>1, <2>2, <2>3, <2>4 DEF Counted, Bounded
<1> QED
  BY <1>1, <1>2 DEF CountInv

\* Every second thing that an execution makes the service create follows an answer
\* that was lost, late or of a newer form, and there are no more of these.
THEOREM SpecCreationsAreAnswered == Spec => []CreationsAreAnswered
<1>1. ASSUME IInv, CountInv PROVE CreationsAreAnswered
  <2> SUFFICES ASSUME NEW c \in Calls PROVE Cardinality(Mades(c)) <= 1 + Spoilt(c)
    BY DEF CreationsAreAnswered, Mades, Spoilt
  <2>1. Counted(c) /\ Spoilt(c) \in Nat
    BY <1>1, Spoils DEF CountInv, IInv
  <2>2. Cardinality(Mades(c)) \in Nat /\ Cardinality(Lates(c)) \in Nat
    BY <2>1, AskedIsNat
  <2>3. CASE call[c].work.op \in Creating
    BY <2>1, <2>2, <2>3 DEF Counted, Bounded, Asked
  <2>4. CASE call[c].work.op \notin Creating
    <3>1. Cardinality(Mades(c)) = 0
      BY <2>1, <2>4, FS_EmptySet DEF Counted
    <3> QED
      BY <2>1, <3>1
  <2> QED
    BY <2>3, <2>4
<1> QED
  BY InitInv, StepInv, CountInit, CountStep, <1>1, PTL DEF Spec

(***************************************************************************)
(* The activities are remote calls.                                        *)
(***************************************************************************)

\* Sets have as many elements for a workflow as they have here.
LEMMA SameCardinality == \A S : Remote!Cardinality(S) = Cardinality(S)
BY DEF Remote!Cardinality, Cardinality

\* What was made for an execution are the creations among the facts.
LEMMA MadeAreCreations ==
    ASSUME CountInv', NEW c \in Calls
    PROVE  {f \in Facts' : Creation(f, c)} = Mades(c)'
<1>1. ASSUME NEW f \in Facts', Creation(f, c) PROVE f \in Mades(c)'
  <2>1. f[1] \in {"task", "run", "export"} /\ f[2] = c
    BY <1>1 DEF Creation
  <2>2. f \in made'
    BY <2>1 DEF Facts
  <2> QED
    BY <2>1, <2>2 DEF Mades
<1>2. ASSUME NEW f \in Mades(c)' PROVE f \in Facts' /\ Creation(f, c)
  BY <1>2 DEF Mades, Facts, Creation, Kinds, CountInv
<1> QED
  BY <1>1, <1>2

\* An attempt begins, the first one or the next.
LEMMA Begins ==
    ASSUME TypeOK, TypeOK', NEW c \in Calls, \A d \in Calls \ {c} : call'[d] = call[d],
           call[c].phase \in {"idle", "running"}, call'[c].phase = "running",
           call'[c].try = call[c].try + 1, Facts' = Facts, got' = got
    PROVE  Remote!Begin(c)
<1>1. call \in [Calls -> Call] /\ call' \in [Calls -> Call]
  BY DEF TypeOK
<1>2. call[c].try \in 0..MaxTries /\ call'[c].try \in 0..MaxTries
  BY <1>1 DEF Call
<1>3. call[c].try < MaxTries
  BY <1>2, MaxTriesAssumption
<1> QED
  BY <1>1, <1>3 DEF Remote!Begin

\* An execution fails.
LEMMA Fails ==
    ASSUME TypeOK, TypeOK', NEW c \in Calls, \A d \in Calls \ {c} : call'[d] = call[d],
           call[c].phase = "running", call'[c].phase = "failed", call'[c].try = call[c].try,
           Facts' = Facts, got' = got
    PROVE  Remote!Fail(c)
BY DEF Remote!Fail, TypeOK

\* An execution returns facts.
LEMMA Returns ==
    ASSUME TypeOK, TypeOK', NEW c \in Calls, \A d \in Calls \ {c} : call'[d] = call[d],
           call[c].phase = "running", call'[c].phase = "returned", call'[c].try = call[c].try,
           Facts' = Facts, NEW claim, claim \subseteq Facts, got' = [got EXCEPT ![c] = claim]
    PROVE  Remote!Return(c)
<1>1. got'[c] = claim /\ call \in [Calls -> Call] /\ call' \in [Calls -> Call]
  BY DEF TypeOK
<1> QED
  BY <1>1 DEF Remote!Return

\* A service goes on, and has made no more for an execution than it had attempts.
LEMMA Happens ==
    ASSUME TypeOK', CountInv', call' = call, got' = got, Facts \subseteq Facts'
    PROVE  Remote!Happen
<1>1. ASSUME NEW c \in Calls PROVE Remote!Made(c, Facts') <= call[c].try
  <2>1. Remote!Made(c, Facts') = Cardinality(Mades(c)')
    BY MadeAreCreations, SameCardinality DEF Remote!Made
  <2>2. Counted(c)' /\ IsFiniteSet(Mades(c)') /\ IsFiniteSet(Lates(c)')
    BY DEF CountInv, Counted
  <2>3. call[c].try \in Nat
    <3>1. call'[c] \in Call /\ call'[c] = call[c]
      BY DEF TypeOK
    <3>2. call[c].try \in 0..MaxTries
      BY <3>1 DEF Call
    <3> QED
      BY <3>2, MaxTriesAssumption
  <2>4. Cardinality(Mades(c)') \in Nat /\ Cardinality(Lates(c)') \in Nat
    BY <2>2, FS_CardinalityType
  <2>5. CASE call[c].work.op \in Creating
    <3>1. Cardinality(Mades(c)') + Cardinality(Lates(c)') <= call[c].try
      BY <2>2, <2>5 DEF Counted, Bounded, Asked
    <3> QED
      BY <2>1, <2>3, <2>4, <3>1
  <2>6. CASE call[c].work.op \notin Creating
    <3>1. Mades(c)' = {}
      BY <2>2, <2>6 DEF Counted
    <3> QED
      BY <2>1, <2>3, <3>1, FS_EmptySet
  <2> QED
    BY <2>5, <2>6
<1> QED
  BY <1>1 DEF Remote!Happen

\* Nothing that a workflow can tell.
LEMMA Stutters ==
    ASSUME TypeOK, TypeOK', Facts' = Facts, got' = got,
           \A c \in Calls : call'[c].phase = call[c].phase /\ call'[c].try = call[c].try
    PROVE  UNCHANGED Remote!vars
BY DEF Remote!vars

\* Every step is one that a workflow may expect of an activity, or none.
LEMMA StepImplements ==
    ASSUME IInv, IInv', CountInv, CountInv', [Next]_vars
    PROVE  [Remote!Next]_(Remote!vars)
<1>0. TypeOK /\ TypeOK' /\ call \in [Calls -> Call] /\ DOMAIN got = Calls
  BY DEF IInv, TypeOK
<1>s. ASSUME UNCHANGED <<apis, exports, made>> PROVE Facts' = Facts
  BY <1>s DEF Facts
<1>e. ASSUME NEW c \in Calls, call[c].phase = "running", EndAttempt(c), Facts' = Facts, got' = got
      PROVE  Remote!Begin(c) \/ Remote!Fail(c)
  <2>1. /\ \/ call'[c].phase = "failed" /\ call'[c].try = call[c].try
           \/ call'[c].phase = "running" /\ call'[c].try = call[c].try + 1
        /\ \A d \in Calls \ {c} : call'[d] = call[d]
    BY <1>0, <1>e, AttemptEnds
  <2> QED
    BY <1>0, <1>e, <2>1, Begins, Fails
<1>f. ASSUME NEW c \in Calls, NEW phase \in Phases, End(c, phase)
      PROVE  /\ call'[c].phase = phase /\ call'[c].try = call[c].try
             /\ \A d \in Calls \ {c} : call'[d] = call[d]
  BY <1>0, <1>f DEF End, Call
<1>1. ASSUME NEW c \in Calls, Start(c) PROVE Remote!Begin(c)
  <2>1. Facts' = Facts /\ got' = got /\ call[c].phase = "idle"
    BY <1>1, <1>s DEF Start
  <2>2. call'[c].phase = "running" /\ call'[c].try = 1 /\ \A d \in Calls \ {c} : call'[d] = call[d]
    BY <1>0, <1>1 DEF Start, Call
  <2>3. call[c].try = 0
    BY <2>1 DEF CountInv, Counted
  <2> QED
    BY <1>0, <2>1, <2>2, <2>3, Begins
<1>2. ASSUME NEW c \in Calls, Unprepared(c) PROVE Remote!Fail(c)
  <2>1. Facts' = Facts /\ got' = got /\ call[c].phase = "running" /\ End(c, "failed")
    BY <1>2, <1>s DEF Unprepared, Running
  <2> QED
    BY <1>0, <1>f, <2>1, Fails DEF Phases
<1>3. ASSUME NEW c \in Calls, Ask(c) \/ Extend(c) PROVE UNCHANGED Remote!vars
  <2>1. Facts' = Facts /\ got' = got /\ call' = call
    BY <1>3, <1>s DEF Ask, Extend
  <2> QED
    BY <1>0, <2>1, Stutters
<1>4. ASSUME NEW c \in Calls, Serve(c) PROVE Remote!Happen
  <2>1. PICK r \in Replies(SentBy(c)) : Do(c, r)
    BY <1>4 DEF Serve
  <2>2. SentBy(c) \in Sent /\ SentBy(c).by = c
    BY <1>4, Sends DEF Serve, Running, SentBy
  <2>3. Facts \subseteq Facts'
    BY <2>1, <2>2, Serves
  <2> QED
    BY <1>0, <1>4, <2>3, Happens DEF Serve
<1>5. ASSUME NEW s \in late, ServeLate(s) PROVE Remote!Happen
  <2>1. PICK r \in Replies(s) : Do(s.by, r)
    BY <1>5 DEF ServeLate
  <2>2. s \in Sent
    BY <1>0 DEF TypeOK
  <2>3. Facts \subseteq Facts'
    BY <2>1, <2>2, Serves
  <2> QED
    BY <1>0, <1>5, <2>3, Happens DEF ServeLate
<1>6. ASSUME NEW c \in Calls, Deadline(c) PROVE Remote!Begin(c) \/ Remote!Fail(c)
  <2>1. Facts' = Facts /\ got' = got /\ call[c].phase = "running" /\ EndAttempt(c)
    BY <1>6, <1>s DEF Deadline
  <2> QED
    BY <1>e, <2>1
<1>7. ASSUME NEW c \in Calls, Read(c)
      PROVE  Remote!Begin(c) \/ Remote!Fail(c) \/ Remote!Return(c) \/ UNCHANGED Remote!vars
  <2> DEFINE op == call[c].op
             v == Judgement(op, call[c].ended, wire[c].answer)
             claim == Claims(c, op, call[c].work.id, v.value)
  <2>1. Facts' = Facts /\ call[c].phase = "running" /\ op \in Ops
    BY <1>0, <1>7, <1>s, CallTypes DEF Read, Running
  <2>2. v.end \in {"ok", "final", "again", "poll", "logs"}
    BY <2>1, Verdicts
  <2>3. /\ v.end = "ok" => End(c, "returned") /\ got' = [got EXCEPT ![c] = claim]
        /\ v.end = "final" => End(c, "failed")
        /\ v.end = "again" => EndAttempt(c)
        /\ v.end = "poll" => UNCHANGED call
        /\ v.end = "logs" => call' = [call EXCEPT ![c].op = "exportLogs", ![c].ended = v.value]
        /\ v.end # "ok" => got' = got
    BY <1>7 DEF Read
  <2>4. v.end = "ok" => claim = got'[c] /\ got'[c] \subseteq Facts'
    BY <1>0, <2>3 DEF IInv, CallInv
  <2> HIDE DEF v, claim
  <2>5. CASE v.end = "ok"
    BY <1>0, <1>f, <2>1, <2>3, <2>4, <2>5, Returns DEF Phases
  <2>6. CASE v.end = "final"
    BY <1>0, <1>f, <2>1, <2>3, <2>6, Fails DEF Phases
  <2>7. CASE v.end = "again"
    BY <1>e, <2>1, <2>3, <2>7
  <2>8. CASE v.end = "poll"
    BY <1>0, <2>1, <2>3, <2>8, Stutters
  <2>9. CASE v.end = "logs"
    <3>0. call' = [call EXCEPT ![c].op = "exportLogs", ![c].ended = v.value]
      BY <2>3, <2>9
    <3>1. /\ call'[c].phase = call[c].phase /\ call'[c].try = call[c].try
          /\ \A d \in Calls \ {c} : call'[d] = call[d]
      BY <1>0, <3>0 DEF Call
    <3> QED
      BY <1>0, <2>1, <2>3, <2>9, <3>1, Stutters
  <2> QED
    BY <2>2, <2>5, <2>6, <2>7, <2>8, <2>9
<1>8. ASSUME NEW id \in ExportIds, ExportStep(id) PROVE Remote!Happen
  <2>1. UNCHANGED <<apis, call, made>> /\ got' = got
    BY <1>8 DEF ExportStep
  <2>2. \A i \in ExportIds : exports[i] \in Service!Ended => exports'[i] = exports[i]
    BY <1>0, <1>8 DEF ExportStep, TypeOK, Service!Exports, Service!Running, Service!Ended
  <2>3. Grows(apis, apis')
    BY <2>1 DEF Grows, Keeps
  <2>4. Facts \subseteq Facts'
    BY <2>1, <2>2, <2>3, FactsStay
  <2> QED
    BY <1>0, <2>1, <2>4, Happens
<1>9. ASSUME UNCHANGED vars PROVE UNCHANGED Remote!vars
  <2>1. Facts' = Facts /\ got' = got /\ call' = call
    BY <1>9, <1>s DEF vars
  <2> QED
    BY <1>0, <2>1, Stutters
<1> QED
  BY <1>1, <1>2, <1>3, <1>4, <1>5, <1>6, <1>7, <1>8, <1>9 DEF Next, Remote!Next

\* The activities are calls of a remote service as a workflow may think of them: tried
\* a bounded number of times, with facts for results, and with no more made for a
\* call than it had attempts, whatever is lost, late or repeated.
THEOREM SpecImplements == Spec => Implements
<1>1. Init => Remote!Init
  <2> SUFFICES ASSUME Init PROVE Remote!Init
    OBVIOUS
  <2>1. PICK s \in Settings :
          call = [c \in Calls |-> [work |-> s.work[c], op |-> s.work[c].op, ended |-> "",
                                  phase |-> "idle", try |-> 0]]
    BY DEF Init
  <2>2. \A c \in Calls : call[c].phase = "idle" /\ call[c].try = 0
    BY <2>1
  <2>3. ASSUME NEW c \in Calls, NEW f \in Facts, Creation(f, c) PROVE FALSE
    <3>1. f[1] \in {"task", "run", "export"} /\ made = {}
      BY <2>3 DEF Creation, Init
    <3> QED
      BY <3>1 DEF Facts
  <2>4. got = [c \in Calls |-> {}]
    BY DEF Init
  <2> QED
    BY <2>2, <2>3, <2>4 DEF Remote!Init
<1> QED
  BY InitInv, StepInv, CountInit, CountStep, StepImplements, <1>1, PTL
     DEF Spec, Implements, Remote!Spec
==============================================================================
