------------------------------ MODULE DipRecord ------------------------------
(***************************************************************************)
(* The database record of one DIP generation and the pure functions that   *)
(* select, renew and update it: what RequestDIP and UpdateDIP              *)
(* (internal/dips/persistence/ent/client/dip.go) commit, with the updater  *)
(* of the update-dip activity (internal/dips/activities/update_dip.go).    *)
(*                                                                         *)
(* Times are natural numbers.  Zero is Go's zero time: an expiresAt of     *)
(* Never means that no expiry is recorded.                                 *)
(***************************************************************************)
EXTENDS Integers

CONSTANTS Docs,      \* ACTApro document keys
          NoDoc      \* the docKey of a row that does not exist

Never == 0

Pending   == {"queued", "in progress"}
Completed == {"stored", "failed", "deleted"}
Status    == Pending \cup Completed

\* The object key is a function of the UUID ("DIP_<uuid>.zip"), so a row only
\* tells whether it holds one.
Row == [status: Status \cup {"absent"}, docKey: Docs \cup {NoDoc},
        hasKey: BOOLEAN, createdAt: Nat, expiresAt: Nat]

Absent == [status |-> "absent", docKey |-> NoDoc, hasKey |-> FALSE,
           createdAt |-> 0, expiresAt |-> Never]

QueuedRow(doc, now) == [status |-> "queued", docKey |-> doc, hasKey |-> FALSE,
                        createdAt |-> now, expiresAt |-> Never]

\* Faulty: an archive is taken for expired one tick early.
ExpiredEarly(r, now) == r.expiresAt # Never /\ r.expiresAt <= now + 1

Expired(r, now) == r.expiresAt # Never /\ r.expiresAt <= now

(***************************************************************************)
(* RequestDIP: which rows a request may reuse, and what reuse does to the  *)
(* expiry of a completed one.                                              *)
(***************************************************************************)
\* Faulty: a queued generation is not found.
ReusableUnlessQueued(r, ignoreCache, now) ==
    \/ r.status = "in progress"
    \/ r.status = "stored" /\ ~ignoreCache /\ ~Expired(r, now)

Reusable(r, ignoreCache, now) ==
    \/ r.status \in Pending
    \/ r.status = "stored" /\ ~ignoreCache /\ ~Expired(r, now)

\* Faulty: an unlimited archive is given an expiry.
RenewedAlways(r, retention, now) ==
    IF r.status = "stored" /\ (retention = 0 \/ now + retention > r.expiresAt)
    THEN [r EXCEPT !.expiresAt = IF retention = 0 THEN Never ELSE now + retention]
    ELSE r

Renewed(r, retention, now) ==
    IF /\ r.status = "stored"
       /\ r.expiresAt # Never
       /\ retention = 0 \/ now + retention > r.expiresAt
    THEN [r EXCEPT !.expiresAt = IF retention = 0 THEN Never ELSE now + retention]
    ELSE r

(***************************************************************************)
(* The update-dip activity, one function per requested status.  A          *)
(* completed row is left alone by every update but the deletion.           *)
(***************************************************************************)
InProgressUpdate(r) ==
    IF r.status \in Completed THEN r ELSE [r EXCEPT !.status = "in progress"]

\* Faulty: a repeated final update stores the row again.
StoredUpdateRepeated(r, retention, now) ==
    [r EXCEPT !.status = "stored",
              !.hasKey = TRUE,
              !.expiresAt = IF retention > 0 /\ now + retention > @
                            THEN now + retention ELSE @]

StoredUpdate(r, retention, now) ==
    IF r.status \in Completed THEN r
    ELSE [r EXCEPT !.status = "stored",
                   !.hasKey = TRUE,
                   !.expiresAt = IF retention > 0 /\ now + retention > @
                                 THEN now + retention ELSE @]

FailedUpdate(r, key) ==
    IF r.status \in Completed THEN r
    ELSE [r EXCEPT !.status = "failed", !.hasKey = key]

\* Faulty: the expiry is not checked under the row lock.
DeletedUpdateUnchecked(r, now) ==
    IF r.status = "stored" THEN [r EXCEPT !.status = "deleted"] ELSE r

\* Faulty: the key goes before the object does.
DeletedUpdateClearsKey(r, now) ==
    IF r.status = "stored" /\ Expired(r, now)
    THEN [r EXCEPT !.status = "deleted", !.hasKey = FALSE] ELSE r

DeletedUpdate(r, now) ==
    IF r.status = "stored" /\ Expired(r, now)
    THEN [r EXCEPT !.status = "deleted"] ELSE r

ClearKeyUpdate(r) ==
    IF r.status \in {"failed", "deleted"} THEN [r EXCEPT !.hasKey = FALSE] ELSE r
==============================================================================
