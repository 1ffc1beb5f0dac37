----------------------------- MODULE DipLifecycle -----------------------------
(***************************************************************************)
(* What the DIP service promises about one generation of a document,       *)
(* without handlers, workflows, retries or a bucket: its statuses          *)
(* (internal/dips/enums), its expiry, and the rule that a document has one *)
(* pending generation at a time.  DipService implements it.                *)
(***************************************************************************)
EXTENDS Integers

CONSTANTS Dips, Docs, NoDoc

VARIABLES phase,    \* the status of each generation, "unused" before and
                    \* "withdrawn" after its row exists
          document, \* its docKey
          expires,  \* when its archive expires, 0 if it does not
          now

lvars == <<phase, document, expires, now>>

Never == 0

PendingPhase == {"queued", "in progress"}

Start ==
    /\ phase = [d \in Dips |-> "unused"]
    /\ document = [d \in Dips |-> NoDoc]
    /\ expires = [d \in Dips |-> Never]
    /\ now = 1

Become(d, p) == phase' = [phase EXCEPT ![d] = p]

\* A generation is accepted only if its document has none that is pending.
Accept(d, doc) ==
    /\ phase[d] = "unused"
    /\ \A e \in Dips : phase[e] \in PendingPhase => document[e] # doc
    /\ Become(d, "queued")
    /\ document' = [document EXCEPT ![d] = doc]
    /\ UNCHANGED <<expires, now>>

Begin(d) ==
    /\ phase[d] = "queued"
    /\ Become(d, "in progress")
    /\ UNCHANGED <<document, expires, now>>

\* Only a generation in progress is stored, with an expiry in the future or none.
Store(d) ==
    /\ phase[d] = "in progress"
    /\ Become(d, "stored")
    /\ expires' = [expires EXCEPT ![d] = expires'[d]]
    /\ expires'[d] \in Nat /\ (expires'[d] = Never \/ expires'[d] > now)
    /\ UNCHANGED <<document, now>>

Fail(d) ==
    /\ phase[d] \in PendingPhase
    /\ Become(d, "failed")
    /\ UNCHANGED <<document, expires, now>>

\* A request extends the expiry of a stored generation that has not expired.
Renew(d) ==
    /\ phase[d] = "stored"
    /\ expires[d] > now
    /\ expires' = [expires EXCEPT ![d] = expires'[d]]
    /\ expires'[d] \in Nat /\ (expires'[d] = Never \/ expires'[d] > expires[d])
    /\ UNCHANGED <<phase, document, now>>

Expire(d) ==
    /\ phase[d] = "stored"
    /\ expires[d] # Never /\ expires[d] <= now
    /\ Become(d, "deleted")
    /\ UNCHANGED <<document, expires, now>>

\* The caller that created the generation is told that it could not be started.
Withdraw(d) ==
    /\ phase[d] \notin {"unused", "withdrawn"}
    /\ Become(d, "withdrawn")
    /\ document' = [document EXCEPT ![d] = NoDoc]
    /\ expires' = [expires EXCEPT ![d] = Never]
    /\ UNCHANGED now

Pass == now' = now + 1 /\ UNCHANGED <<phase, document, expires>>

Step ==
    \/ \E d \in Dips :
          \/ \E doc \in Docs : Accept(d, doc)
          \/ Begin(d) \/ Store(d) \/ Fail(d) \/ Renew(d) \/ Expire(d) \/ Withdraw(d)
    \/ Pass

Lifecycle == Start /\ [][Step]_lvars
==============================================================================
