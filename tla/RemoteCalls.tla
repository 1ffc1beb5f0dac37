------------------------------ MODULE RemoteCalls ------------------------------
(***************************************************************************)
(* What a workflow can rely on when an activity asks a remote service: the *)
(* activity is tried a bounded number of times, whatever it returns is and *)
(* stays a fact of the service, and the service has made no more for a     *)
(* call than the call had attempts, though it may make some of it after    *)
(* the call has ended.                                                     *)
(***************************************************************************)
EXTENDS Integers, FiniteSets

CONSTANTS Calls,
          Creation(_, _), \* is this fact a thing made for that call
          MaxAttempts

VARIABLES phase,    \* of a call: "open" while an activity is tried
          attempts, \* of a call so far
          facts,    \* what the service knows
          claims    \* what a call has returned
vars == <<phase, attempts, facts, claims>>

Init ==
    /\ phase = [c \in Calls |-> "idle"]
    /\ attempts = [c \in Calls |-> 0]
    /\ claims = [c \in Calls |-> {}]
    /\ \A c \in Calls : ~\E f \in facts : Creation(f, c)

Made(c, known) == Cardinality({f \in known : Creation(f, c)})

Begin(c) ==
    /\ \/ phase[c] = "idle"
       \/ phase[c] = "open" /\ attempts[c] < MaxAttempts
    /\ phase' = [phase EXCEPT ![c] = "open"]
    /\ attempts' = [attempts EXCEPT ![c] = @ + 1]
    /\ UNCHANGED <<facts, claims>>

\* The service goes on, also for calls that have ended.
Happen ==
    /\ facts \subseteq facts'
    /\ \A c \in Calls : Made(c, facts') <= attempts[c]
    /\ UNCHANGED <<phase, attempts, claims>>

Return(c) ==
    /\ phase[c] = "open"
    /\ phase' = [phase EXCEPT ![c] = "returned"]
    /\ claims'[c] \subseteq facts
    /\ claims' = [claims EXCEPT ![c] = claims'[c]]
    /\ UNCHANGED <<attempts, facts>>

Fail(c) ==
    /\ phase[c] = "open"
    /\ phase' = [phase EXCEPT ![c] = "failed"]
    /\ UNCHANGED <<attempts, facts, claims>>

Next == Happen \/ \E c \in Calls : Begin(c) \/ Return(c) \/ Fail(c)

Spec == Init /\ [][Next]_vars
==============================================================================
