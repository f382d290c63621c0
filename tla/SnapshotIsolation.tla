------------------------- MODULE SnapshotIsolation -------------------------
(***************************************************************************)
(* What src/storage/mvcc.rs promises, without versions: snapshot           *)
(* isolation.  A transaction reads the committed database as of its start  *)
(* and its own writes; its writes become visible together when it commits, *)
(* and never if it rolls back; of two concurrent transactions only one can *)
(* write a key.  A read-only transaction may also read the snapshot that   *)
(* any earlier read-write transaction began with.                          *)
(***************************************************************************)
EXTENDS Naturals, Sequences

CONSTANTS Txn, Key, Value, Deleted, Absent

VARIABLES
    status,     \* of each transaction
    db,         \* the committed database: a value, or Deleted, for each key
    snap,       \* the database that each transaction began with
    seen,       \* the transactions that had committed when it began
    wrote,      \* its writes: a value, Deleted, or Absent if it wrote nothing
    past        \* the databases that the read-write transactions began with

siVars == <<status, db, snap, seen, wrote, past>>

EmptyDb == [k \in Key |-> Deleted]

NoWrites == [k \in Key |-> Absent]

SIInit ==
    /\ status = [t \in Txn |-> "idle"]
    /\ db = EmptyDb
    /\ snap = [t \in Txn |-> EmptyDb]
    /\ seen = [t \in Txn |-> {}]
    /\ wrote = [t \in Txn |-> NoWrites]
    /\ past = <<>>

SIBegin(t) ==
    /\ status[t] = "idle"
    /\ status' = [status EXCEPT ![t] = "active"]
    /\ snap' = [snap EXCEPT ![t] = db]
    /\ seen' = [seen EXCEPT ![t] = {u \in Txn : status[u] = "committed"}]
    /\ past' = Append(past, db)
    /\ UNCHANGED <<db, wrote>>

\* A read-only transaction on the database as it is, or as it was.
SIRead(t, d) ==
    /\ status[t] = "idle"
    /\ status' = [status EXCEPT ![t] = "reading"]
    /\ snap' = [snap EXCEPT ![t] = d]
    /\ UNCHANGED <<db, seen, wrote, past>>

SIWrite(t, k, x) ==
    /\ status[t] = "active" /\ UNCHANGED status
    /\ wrote' = [wrote EXCEPT ![t][k] = x]
    /\ \A u \in Txn \ {t} : wrote[u][k] # Absent => u \in seen[t]
    /\ UNCHANGED <<db, snap, seen, past>>

SICommit(t) ==
    /\ status[t] = "active"
    /\ status' = [status EXCEPT ![t] = "committed"]
    /\ db' = [k \in Key |-> IF wrote[t][k] = Absent THEN db[k] ELSE wrote[t][k]]
    /\ UNCHANGED <<snap, seen, wrote, past>>

SIRollback(t) ==
    /\ status[t] = "active"
    /\ status' = [status EXCEPT ![t] = "rolledback"]
    /\ wrote' = [wrote EXCEPT ![t] = NoWrites]
    /\ UNCHANGED <<db, snap, seen, past>>

SINext ==
    \E t \in Txn :
        \/ SIBegin(t)
        \/ SIRead(t, db)
        \/ SIRead(t, EmptyDb)
        \/ \E i \in 1..Len(past) : SIRead(t, past[i])
        \/ \E k \in Key, x \in Value \cup {Deleted} : SIWrite(t, k, x)
        \/ SICommit(t)
        \/ SIRollback(t)

SISpec == SIInit /\ [][SINext]_siVars
=============================================================================
