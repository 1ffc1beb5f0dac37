------------------------------ MODULE ApisServer ------------------------------
(***************************************************************************)
(* An APIS import task as the mock server keeps it                         *)
(* (hack/apis-mock/internal/mock/server.go), one function per endpoint.    *)
(* The handler's mutex makes a request one step.                           *)
(***************************************************************************)
EXTENDS Integers

AnalysisResults == {"AlleNeu", "AlleGleich", "Konflikte", "Fehler"}
ImportResults   == {"Erfolgreich", "Fehler"}
Behaviours      == {"AppendOnly", "OverwriteAndAppend"}

TaskStatus == {"none", "Neu", "InAnalyse", "Analysiert", "Abgebrochen",
               "WirdImportiert", "Importiert"}

\* run is the behaviour the import run was asked for; polls counts the status
\* requests in the phase at hand.  The results are fixed when the task and the
\* run are created; the first is shown from "Analysiert" on, the second with
\* "Importiert".
Task == [status: TaskStatus, polls: 0..2, analysis: AnalysisResults,
         import: ImportResults, run: Behaviours \cup {"none"}]

Unknown == [status |-> "none", polls |-> 0, analysis |-> "AlleNeu",
            import |-> "Erfolgreich", run |-> "none"]

\* POST /ImportTasks
Created(analysis) == [Unknown EXCEPT !.status = "Neu", !.analysis = analysis]

\* Faulty: a canceled task is analysed further.
AdvancedAlways(t) ==
    CASE t.status \in {"Neu", "InAnalyse", "Abgebrochen"} ->
            [t EXCEPT !.status = "Analysiert"]
      [] t.status = "WirdImportiert" -> [t EXCEPT !.status = "Importiert"]
      [] OTHER -> t

\* GET /ImportTasks/{id}/status advances the task and shows it.
Advanced(t) ==
    CASE t.status = "Neu" ->
            [t EXCEPT !.polls = @ + 1, !.status = IF t.polls = 0 THEN @ ELSE "InAnalyse"]
      [] t.status = "InAnalyse" -> [t EXCEPT !.status = "Analysiert"]
      [] t.status = "WirdImportiert" ->
            [t EXCEPT !.polls = @ + 1, !.status = IF t.polls = 0 THEN @ ELSE "Importiert"]
      [] OTHER -> t

\* POST /ImportTasks/{id}/cancel
Cancelable(t) == t.status \notin {"none", "Importiert"}
Canceled(t)   == [t EXCEPT !.status = "Abgebrochen"]

\* POST /ImportTasks/{id}/importRuns
RunAccepted(t) ==
    t.status = "Analysiert" /\ t.analysis # "Fehler" /\ t.run = "none"

WithRun(t, behaviour, import) ==
    [t EXCEPT !.run = behaviour, !.status = "WirdImportiert", !.polls = 0,
              !.import = import]
==============================================================================
