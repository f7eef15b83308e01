------------------------------ MODULE BoltStore ------------------------------
(***************************************************************************)
(* What bolt promises to the callers of Update, View and Begin             *)
(* (src/bolt-master/doc.go, README.md "Transactions"): one value per key,  *)
(* changed by one transaction at a time, all of it or nothing; every read  *)
(* transaction looks at the database as it was when it began; a crash      *)
(* keeps every transaction whose Commit returned, and at most one that was *)
(* being committed.                                                        *)
(***************************************************************************)
EXTENDS Naturals

CONSTANTS Keys, Readers

VARIABLES
  db,        \* [Keys -> Nat]: what a read transaction that begins now will see
  durable,   \* [Keys -> Nat]: what the last successful Commit left
  snap       \* [Readers -> [Keys -> Nat]]: what each read transaction sees, or NoSnap

vars == <<db, durable, snap>>

NoSnap == <<>>

Init ==
  /\ db \in [Keys -> Nat]
  /\ durable = db
  /\ snap = [r \in Readers |-> NoSnap]

Begin(r) ==
  /\ snap[r] = NoSnap
  /\ snap' = [snap EXCEPT ![r] = db]
  /\ UNCHANGED <<db, durable>>

End(r) ==
  /\ snap[r] # NoSnap
  /\ snap' = [snap EXCEPT ![r] = NoSnap]
  /\ UNCHANGED <<db, durable>>

\* All the keys a transaction wrote change together.
Publish ==
  /\ \E D \in SUBSET Keys :
       /\ \A k \in Keys \ D : db'[k] = db[k]
       /\ \A j, k \in D : db'[j] = db'[k]
  /\ UNCHANGED <<durable, snap>>

Settle ==
  /\ durable' = db
  /\ UNCHANGED <<db, snap>>

\* The transaction that was being committed is there or it is not.
Crash ==
  /\ db' \in {db, durable}
  /\ durable' = db'
  /\ snap' = [r \in Readers |-> NoSnap]

Next ==
  \/ \E r \in Readers : Begin(r) \/ End(r)
  \/ Publish \/ Settle \/ Crash

Spec == Init /\ [][Next]_vars
=============================================================================
