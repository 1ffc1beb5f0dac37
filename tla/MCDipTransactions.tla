-------------------------- MODULE MCDipTransactions --------------------------
(* Instances of DipTransactions for TLC. *)
EXTENDS DipTransactions, TLC

CONSTANTS d1, d2

\* Two documents that begin alike.
OneKey == [d \in Docs |-> 1]

\* Two documents with neighbouring index keys.
TwoKeys == [d \in Docs |-> IF d = d1 THEN 1 ELSE 2]

\* A row of the first document, withdrawn or stored until time 2.
StoredRow == [status |-> "stored", docKey |-> d1, hasKey |-> TRUE, createdAt |-> 1,
              expiresAt |-> 2]
MCOldTables == [OldDips -> {Absent, StoredRow}]
===============================================================================
