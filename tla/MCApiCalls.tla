------------------------------ MODULE MCApiCalls ------------------------------
(* Pairs of executions for TLC that meet at one service. *)
EXTENDS ApiCalls, TLC

CONSTANTS c1, c2

Of(op, id) == [op |-> op, id |-> id, run |-> 1, sipType |-> "DigitizedAIP",
               behaviour |-> "AppendOnly"]

Work2(v, w) == (c1 :> v) @@ (c2 :> w)

\* Two executions at a task that is there or not; a failed analysis has no run.
AtApis(v, w, id, stages, results) ==
    {[work |-> Work2(Of(v, id), Of(w, id)), analysis |-> r[1], import |-> r[2],
      stage |-> s, export |-> "none"] : r \in results, s \in stages}

AtActapro(v, w, id, export) ==
    {[work |-> Work2(Of(v, id), Of(w, id)), analysis |-> "AlleNeu", import |-> "Erfolgreich",
      stage |-> "none", export |-> export]}

Good    == {<<"AlleNeu", "Erfolgreich">>}
Decided == Good \cup {<<"Konflikte", "Fehler">>}
Every   == Decided \cup {<<"Fehler", "Erfolgreich">>}

MCSettings ==
    AtApis("createTask", "createTask", 1, {"none"}, Good)
    \cup AtApis("pollTask", "createRun", 1, {"Neu", "Analysiert"}, Every)
    \cup AtApis("pollTask", "cancel", 1, {"Neu"}, Good)
    \cup AtApis("pollRun", "createRun", 1, {"Analysiert"}, Decided)
    \cup AtApis("pollRun", "cancel", 1, {"WirdImportiert"}, Decided)
    \cup AtApis("createRun", "cancel", 1, {"Analysiert"}, Good)
    \cup AtApis("runStatus", "pollRun", 1, {"WirdImportiert", "Importiert"}, Good)
    \cup AtApis("runStatus", "createRun", 2, {"Neu"}, Good)
    \cup AtApis("health", "cancel", 1, {"Neu"}, Good)
    \cup AtActapro("createExport", "pollExport", 1, "none")
    \cup AtActapro("pollExport", "download", 1, "RUNNING")
    \cup AtActapro("document", "pollExport", 1, "none")
    \cup AtActapro("document", "download", 2, "none")
===============================================================================
