---------------------------- MODULE DipTransactions ----------------------------
(***************************************************************************)
(* RequestDIP, UpdateDIP and DeleteDIP of the ent client                   *)
(* (internal/dips/persistence/ent/client/dip.go) statement by statement,   *)
(* in concurrent transactions of a MySQL database.                         *)
(*                                                                         *)
(* The locks are those InnoDB takes under repeatable read:                 *)
(*   - SELECT ... WHERE doc_key = ? FOR UPDATE walks the entries of the    *)
(*     doc_key index in the order of the primary key, locks each entry and *)
(*     then its row, whatever its status, and at last the gap the entries  *)
(*     end in.  The index holds 64 characters: documents with the same     *)
(*     beginning share their entries.                                      *)
(*   - A gap lock waits for nobody and nobody waits for it but an insertion.*)
(*     A key without entries lies in a gap it shares with its neighbours.  *)
(*   - A statement by UUID locks the row only; a deletion then also locks  *)
(*     the row's entry.  Nobody waits for the UUID index: whoever uses an  *)
(*     entry of it needs its row next.                                     *)
(*   - A transaction in a cycle of waits is rolled back.                   *)
(* All locks of a transaction are held until it ends.                      *)
(***************************************************************************)
EXTENDS DipTable, FiniteSets

CONSTANTS Key,          \* the index key of each document
          MaxFaults     \* bound: failed statements and lost answers

ASSUME IdAssumption     == /\ NoDip \notin Dips /\ NoDoc \notin Docs
                           /\ OldDips \cap Calls = {}
                           /\ Updates \cap (Requests \cup Deletions) = {}
                           /\ Requests \cap Deletions = {}
ASSUME NumberAssumption == /\ Key \in [Docs -> Nat]
                           /\ Retentions \subseteq Nat
                           /\ MaxTime \in Nat
                           /\ IsFiniteSet(OldDips)
                           /\ MaxFaults \in Nat

VARIABLES tx,       \* the transaction of each call
          id,       \* the primary key of each row, inserted or committed; 0: none
          lastId,   \* the last one given out
          faults

vars == <<row, call, clock, tx, id, lastId, faults>>

\* step is the statement of the transaction, entries, rows and gap its locks, and new
\* the version of row dip that its commit makes visible.
Step == {"none", "scan", "insert", "lock", "mark", "commit", "recover"}
Transaction == [step: Step, entries: SUBSET Dips, rows: SUBSET Dips, gap: BOOLEAN,
                dip: Dips \cup {NoDip}, new: Row]

NoTransaction == [step |-> "none", entries |-> {}, rows |-> {}, gap |-> FALSE,
                  dip |-> NoDip, new |-> Absent]

TypeOK ==
    /\ row \in [Dips -> Row]
    /\ call \in [Calls -> CallState]
    /\ clock \in Nat \ {0}
    /\ tx \in [Calls -> Transaction]
    /\ id \in [Dips -> Nat]
    /\ lastId \in Nat
    /\ faults \in 0..MaxFaults

TxInit ==
    /\ Init
    /\ tx = [c \in Calls |-> NoTransaction]
    /\ lastId = Cardinality(OldDips)
    /\ id \in [Dips -> 0..lastId]
    /\ \A d \in Dips : id[d] = 0 <=> row[d].status = "absent"
    /\ \A d, e \in OldDips : id[d] = id[e] /\ id[d] # 0 => d = e
    /\ faults = 0

Fault   == faults < MaxFaults /\ faults' = faults + 1
NoFault == UNCHANGED faults

(***************************************************************************)
(* Locks.                                                                  *)
(***************************************************************************)

\* The index entries of a key; an entry of a row that is not committed is that
\* of the request inserting it.
DocOf(d) == IF row[d].status = "absent" THEN call[d].ask.doc ELSE row[d].docKey

\* Faulty: SELECT without FOR UPDATE meets no entry it has to lock.
EntriesUnlocked(key) == {}

Entries(key) == {d \in Dips : id[d] # 0 /\ Key[DocOf(d)] = key}

KeyOf(c) == Key[call[c].ask.doc]

\* The next entry a scan locks.
NextEntries(c) ==
    LET left == Entries(KeyOf(c)) \ tx[c].entries
    IN  {d \in left : \A e \in left : id[d] <= id[e]}

\* A gap lock at key k covers the place where an entry of key new goes: after the
\* last one of its key.
Covers(k, new) ==
    \/ k = new
    \/ k < new /\ \A m \in k + 1 .. new : Entries(m) = {}
    \/ new < k /\ \A m \in new + 1 .. k - 1 : Entries(m) = {}

\* Faulty: at read committed, the default of other databases, there are no gap locks.
GapBlocksReadCommitted(x, c) == FALSE

GapBlocks(x, c) == x \in Requests /\ tx[x].gap /\ Covers(KeyOf(x), KeyOf(c))

\* Transaction x holds what the statement of c needs next.
Blocks(x, c) ==
    LET mine == tx[c] theirs == tx[x] IN
    \/ mine.step = "scan"   /\ (mine.entries \ mine.rows) \cap theirs.rows # {}
    \/ mine.step = "scan"   /\ mine.entries = mine.rows
                            /\ NextEntries(c) \cap theirs.entries # {}
    \/ mine.step = "insert" /\ GapBlocks(x, c)
    \/ mine.step = "lock"   /\ call[c].ask.dip \in theirs.rows
    \/ mine.step = "mark"   /\ call[c].ask.dip \in theirs.entries

Blockers(c) == {x \in Calls \ {c} : Blocks(x, c)}

\* A cycle of waits: a least set of calls of which each waits for another.
Waiting(S) == S # {} /\ \A c \in S : Blockers(c) \cap S # {}
IsCycle(S) == Waiting(S) /\ \A T \in SUBSET S : Waiting(T) => T = S
InCycle(c) ==
    /\ Blockers(c) # {}
    /\ \E S \in SUBSET {x \in Calls : Blockers(x) # {}} : c \in S /\ IsCycle(S)

(***************************************************************************)
(* The end of a transaction: its locks are released.                       *)
(***************************************************************************)
Ended(c, at, answer) ==
    /\ tx' = [tx EXCEPT ![c] = NoTransaction]
    /\ call' = [call EXCEPT ![c].at = at, ![c].answer = answer]

\* Faulty: an error is returned without a rollback.
ReturnError(c) ==
    /\ tx' = [tx EXCEPT ![c].step = "none"]
    /\ call' = [call EXCEPT ![c].at = "error"]
    /\ UNCHANGED <<row, clock, id, lastId>>

\* The error path of each statement: rollback(tx, err).
RollBack(c) ==
    /\ Ended(c, "error", NoDip)
    /\ UNCHANGED <<row, clock, id, lastId>>

(***************************************************************************)
(* The statements.                                                         *)
(***************************************************************************)
Start(c) ==
    /\ BeginCall(c)
    /\ tx' = [tx EXCEPT ![c].step = IF c \in Requests THEN "scan" ELSE "lock"]
    /\ UNCHANGED <<id, lastId, faults>>

\* SELECT ... FOR UPDATE of a request locks an entry, or the row of an entry.
ScanEntry(c) ==
    /\ tx[c].step = "scan" /\ tx[c].entries = tx[c].rows
    /\ \E d \in NextEntries(c) :
          /\ Blockers(c) = {}
          /\ tx' = [tx EXCEPT ![c].entries = @ \cup {d}]
    /\ UNCHANGED <<row, call, clock, id, lastId, faults>>

ScanRow(c) ==
    /\ tx[c].step = "scan" /\ tx[c].entries # tx[c].rows
    /\ Blockers(c) = {}
    /\ tx' = [tx EXCEPT ![c].rows = tx[c].entries]
    /\ UNCHANGED <<row, call, clock, id, lastId, faults>>

\* The scan is over and a row is selected.  A renewal is committed; otherwise the
\* transaction is rolled back, and the row returned unless the rollback fails.
\* Without a row to return, one is inserted.
Choose(c) ==
    /\ tx[c].step = "scan"
    /\ tx[c].entries = tx[c].rows /\ Entries(KeyOf(c)) \subseteq tx[c].entries
    /\ \E ignoreCache \in BOOLEAN :
         LET found == Candidates(call[c].ask.doc, ignoreCache, clock)
         IN  \/ \E d \in Newest(found), retention \in Retentions :
                  LET r == Renewed(row[d], retention, clock)
                  IN  IF r # row[d]
                      THEN /\ tx' = [tx EXCEPT ![c].step = "commit", ![c].gap = TRUE,
                                               ![c].dip = d, ![c].new = r]
                           /\ NoFault
                           /\ UNCHANGED call
                      ELSE \/ NoFault /\ Ended(c, "done", d)
                           \/ Fault /\ Ended(c, "error", NoDip)
             \/ /\ found = {}
                /\ tx' = [tx EXCEPT ![c].step = "insert", ![c].gap = TRUE,
                                    ![c].new = QueuedRow(call[c].ask.doc, clock)]
                /\ NoFault
                /\ UNCHANGED call
    /\ UNCHANGED <<row, clock, id, lastId>>

\* INSERT: the new row and its entry are locked.
Insert(c) ==
    /\ tx[c].step = "insert" /\ Blockers(c) = {}
    /\ id' = [id EXCEPT ![c] = lastId + 1]
    /\ lastId' = lastId + 1
    /\ tx' = [tx EXCEPT ![c].step = "commit", ![c].dip = c,
                        ![c].entries = @ \cup {c}, ![c].rows = @ \cup {c}]
    /\ UNCHANGED <<row, call, clock, faults>>

\* Faulty: the update also sets doc_key, and so touches the row's entry.
UpdateDocKey(c) ==
    LET d == call[c].ask.dip IN
    /\ tx[c].step = "lock" /\ c \in Updates
    /\ row[d].status # "absent" /\ Blockers(c) = {}
    /\ \E r \in UpdatedRows(call[c].ask.op, row[d], clock) :
          tx' = [tx EXCEPT ![c].step = "mark", ![c].rows = {d}, ![c].dip = d, ![c].new = r]
    /\ UNCHANGED <<row, call, clock, id, lastId, faults>>

\* SELECT ... WHERE uuid = ? FOR UPDATE, the updater and the UPDATE; the update changes
\* no indexed column.
LockForUpdate(c) ==
    LET d == call[c].ask.dip IN
    /\ tx[c].step = "lock" /\ c \in Updates
    /\ row[d].status # "absent" /\ Blockers(c) = {}
    /\ \E r \in UpdatedRows(call[c].ask.op, row[d], clock) :
          tx' = [tx EXCEPT ![c].step = "commit", ![c].rows = {d}, ![c].dip = d, ![c].new = r]
    /\ UNCHANGED <<row, call, clock, id, lastId, faults>>

\* DELETE ... WHERE uuid = ? locks the row, then its entry, and commits by itself.
LockForDelete(c) ==
    LET d == call[c].ask.dip IN
    /\ tx[c].step = "lock" /\ c \in Deletions
    /\ row[d].status # "absent" /\ Blockers(c) = {}
    /\ tx' = [tx EXCEPT ![c].step = "mark", ![c].rows = {d}, ![c].dip = d]
    /\ UNCHANGED <<row, call, clock, id, lastId, faults>>

MarkDeleted(c) ==
    /\ tx[c].step = "mark" /\ Blockers(c) = {}
    /\ tx' = [tx EXCEPT ![c].step = "commit", ![c].entries = {tx[c].dip}]
    /\ UNCHANGED <<row, call, clock, id, lastId, faults>>

\* Neither statement finds the row.
NotFound(c) ==
    /\ tx[c].step = "lock" /\ row[call[c].ask.dip].status = "absent"
    /\ RollBack(c)
    /\ NoFault

\* The answer to the commit may be lost whether or not it took effect.
Commit(c) ==
    LET d == tx[c].dip
        written == [row EXCEPT ![d] = tx[c].new]
    IN  /\ tx[c].step = "commit"
        /\ \/ NoFault /\ row' = written /\ Ended(c, "done", d)
           \/ /\ Fault /\ row' \in {row, written}
              /\ IF d = c
                 THEN /\ tx' = [tx EXCEPT ![c] = [NoTransaction EXCEPT !.step = "recover"]]
                      /\ call' = IF row' = row THEN call
                                 ELSE [call EXCEPT ![c].at = "committed"]
                 ELSE Ended(c, "error", NoDip)
        /\ id' = [e \in Dips |-> IF row'[e].status = "absent" /\ e = d THEN 0 ELSE id[e]]
        /\ UNCHANGED <<clock, lastId>>

\* ReadDIP after a commit without an answer: the row is there, or it is not, or
\* the read fails.
Recover(c) ==
    /\ tx[c].step = "recover"
    /\ \/ NoFault /\ row[c].status # "absent" /\ Ended(c, "done", c)
       \/ NoFault /\ row[c].status = "absent" /\ Ended(c, "error", NoDip)
       \/ Fault /\ Ended(c, "error", NoDip)
    /\ UNCHANGED <<row, clock, id, lastId>>

\* A statement fails, or the deadline of the call passes while it waits.
StatementFails(c) ==
    /\ tx[c].step \in {"scan", "insert", "lock", "mark"}
    /\ Fault
    /\ RollBack(c)

\* The database ends a deadlock.
Victim(c) ==
    /\ InCycle(c)
    /\ RollBack(c)
    /\ NoFault

Statement(c) ==
    \/ ScanEntry(c) \/ ScanRow(c) \/ Choose(c) \/ Insert(c) \/ LockForUpdate(c)
    \/ LockForDelete(c) \/ MarkDeleted(c) \/ NotFound(c) \/ Commit(c) \/ Recover(c)

TxTick == Tick /\ UNCHANGED <<tx, id, lastId, faults>>

TxNext ==
    \/ \E c \in Calls : Start(c) \/ Statement(c) \/ StatementFails(c) \/ Victim(c)
    \/ TxTick

Spec == TxInit /\ [][TxNext]_vars

\* The service carries a call on and the database looks for deadlocks; nobody has
\* to call.
FairSpec == Spec /\ \A c \in Calls : WF_vars(Statement(c)) /\ WF_vars(Victim(c))

(***************************************************************************)
(* Properties.                                                             *)
(***************************************************************************)

\* Two requests never both insert a generation of one document, also when both
\* found nothing and hold the gap: while a request is about to commit its row,
\* nobody else holds an uncommitted row of the document and no committed one is
\* pending.
InserterIsAlone ==
    \A c \in Requests :
        tx[c].step = "commit" /\ tx[c].dip = c =>
            /\ \A d \in Dips : ~(row[d].docKey = call[c].ask.doc /\ row[d].status \in Pending)
            /\ \A e \in Requests \ {c} :
                  ~ /\ tx[e].step = "commit" /\ tx[e].dip = e
                    /\ call[e].ask.doc = call[c].ask.doc

\* Only insertions and deletions meet in deadlocks: a request that finds a row
\* to return is not rolled back on account of other such requests and of updates,
\* however the index entries are shared.
DeadlocksAreOfInsertions ==
    \A c \in Calls :
        InCycle(c) => \/ tx[c].step = "insert"
                      \/ \E x \in Deletions : tx[x].step = "mark" /\ InCycle(x)

\* The transactions of the client, interleaved statement by statement, are the
\* atomic steps of DipTable: no renewal is lost, no row is selected that is gone
\* when the selection takes effect, and no document gets a second generation.
IsAtomic == Atomic

\* Each call comes to an end: no lock outlives its transaction, and no wait is for ever.
CallsEnd == \A c \in Calls : call[c].at = "running" ~> call[c].at \in {"done", "error"}
===============================================================================
