-------------------------------- MODULE MVCC --------------------------------
(***************************************************************************)
(* Multi-version concurrency control, src/storage/mvcc.rs: transactions    *)
(* over a key/value engine that holds a version of a key for every write,  *)
(* the set of active transactions, the active set that every read-write    *)
(* transaction began with, and the keys that every active one has written. *)
(*                                                                         *)
(* Every operation locks the engine for its whole duration, so operations  *)
(* of concurrent transactions interleave but do not overlap.  An operation *)
(* on a transaction that has ended fails in Transaction::resume, and one   *)
(* that writes in a read-only transaction fails with Error::ReadOnly:      *)
(* neither changes anything.                                               *)
(***************************************************************************)
EXTENDS Naturals, FiniteSets

CONSTANTS
    Txn,            \* transactions that clients run, each once
    Key,            \* user keys
    Value,          \* values that are written
    Deleted,        \* the tombstone, and the result of reading a missing key
    Absent,         \* no version of the key
    NoTxn,          \* a transaction that has not begun
    MaxVersion      \* bound: versions allocated

ASSUME ValueAssumption == Deleted \notin Value /\ Absent \notin Value /\ Absent # Deleted
ASSUME VersionAssumption == MaxVersion \in Nat
ASSUME NoTxnAssumption ==
    NoTxn \notin [version : Nat, readOnly : BOOLEAN, active : SUBSET Nat]

VARIABLES
    nextVersion,    \* Key::NextVersion
    active,         \* Key::TxnActive: the versions of active transactions
    snapshot,       \* Key::TxnActiveSnapshot: active sets by version, empty if absent
    writes,         \* Key::TxnWrite: pairs of a version and a key written at it
    data,           \* Key::Version: the value of each key at each version
    txn,            \* the TransactionState of each transaction
    outcome         \* what the clients were told of each transaction's end

engine == <<nextVersion, active, snapshot, writes, data>>

mvccVars == <<nextVersion, active, snapshot, writes, data, txn, outcome>>

Version == 1..MaxVersion

-----------------------------------------------------------------------------
(* Transaction states and what they see.                                   *)

IsVisible(s, v) ==
    /\ v \notin s.active
    /\ IF s.readOnly THEN v < s.version ELSE v <= s.version

\* The versions of k that Transaction::get may return to s.
VisibleVersions(s, k) ==
    {v \in Version : data[k][v] # Absent /\ v <= s.version /\ IsVisible(s, v)}

\* Transaction::get: the latest visible version.
Get(s, k) ==
    LET seen == VisibleVersions(s, k)
    IN  IF seen = {} THEN Deleted
        ELSE data[k][CHOOSE v \in seen : \A w \in seen : w <= v]

\* Mutant: only versions above the transaction's own are looked at.
ScannedForConflictsNewer(s, k) == {v \in Version : data[k][v] # Absent /\ v > s.version}

\* Mutant: the scan starts at the last active version, not at the first.
ScannedForConflictsFromLast(s, k) ==
    {v \in Version :
        /\ data[k][v] # Absent
        /\ IF s.active = {} THEN v > s.version ELSE \A a \in s.active : v >= a}

\* The versions of k that write_version scans: from the first that was active
\* when s began, or from the one after its own if none was.
ScannedForConflicts(s, k) ==
    {v \in Version :
        /\ data[k][v] # Absent
        /\ IF s.active = {} THEN v > s.version ELSE \E a \in s.active : v >= a}

\* The latest version that was scanned is not visible to s.
WriteConflict(s, k) ==
    \E v \in ScannedForConflicts(s, k) :
        /\ \A w \in ScannedForConflicts(s, k) : w <= v
        /\ ~IsVisible(s, v)

\* Transaction::resume accepts a read-write transaction that is still active.
IsOpen(t) ==
    txn[t] # NoTxn /\ ~txn[t].readOnly /\ txn[t].version \in active

-----------------------------------------------------------------------------
(* Operations.                                                             *)

\* Mutant: the next version is not stored.
BeginReusesVersion(t) ==
    /\ txn[t] = NoTxn /\ nextVersion <= MaxVersion
    /\ snapshot' = [snapshot EXCEPT ![nextVersion] = active]
    /\ active' = active \cup {nextVersion}
    /\ txn' = [txn EXCEPT ![t] = [version |-> nextVersion, readOnly |-> FALSE,
                                  active |-> active]]
    /\ UNCHANGED <<nextVersion, writes, data, outcome>>

\* Mutant: the active set is not stored for time travel.
BeginStoresNoSnapshot(t) ==
    /\ txn[t] = NoTxn /\ nextVersion <= MaxVersion
    /\ nextVersion' = nextVersion + 1
    /\ active' = active \cup {nextVersion}
    /\ txn' = [txn EXCEPT ![t] = [version |-> nextVersion, readOnly |-> FALSE,
                                  active |-> active]]
    /\ UNCHANGED <<snapshot, writes, data, outcome>>

Begin(t) ==
    /\ txn[t] = NoTxn /\ nextVersion <= MaxVersion
    /\ nextVersion' = nextVersion + 1
    /\ snapshot' = [snapshot EXCEPT ![nextVersion] = active]
    /\ active' = active \cup {nextVersion}
    /\ txn' = [txn EXCEPT ![t] = [version |-> nextVersion, readOnly |-> FALSE,
                                  active |-> active]]
    /\ UNCHANGED <<writes, data, outcome>>

BeginReadOnly(t) ==
    /\ txn[t] = NoTxn
    /\ txn' = [txn EXCEPT ![t] = [version |-> nextVersion, readOnly |-> TRUE,
                                  active |-> active]]
    /\ UNCHANGED <<engine, outcome>>

\* Time travel; a version that has not been allocated is an error.
BeginAsOf(t, v) ==
    /\ txn[t] = NoTxn /\ v < nextVersion
    /\ txn' = [txn EXCEPT ![t] = [version |-> v, readOnly |-> TRUE,
                                  active |-> IF v = 0 THEN {} ELSE snapshot[v]]]
    /\ UNCHANGED <<engine, outcome>>

\* Transaction::set and Transaction::delete.
Write(t, k, x) ==
    /\ IsOpen(t) /\ ~WriteConflict(txn[t], k)
    /\ writes' = writes \cup {<<txn[t].version, k>>}
    /\ data' = [data EXCEPT ![k][txn[t].version] = x]
    /\ UNCHANGED <<nextVersion, active, snapshot, txn, outcome>>

Commit(t) ==
    /\ IsOpen(t)
    /\ writes' = {w \in writes : w[1] # txn[t].version}
    /\ active' = active \ {txn[t].version}
    /\ outcome' = [outcome EXCEPT ![t] = "committed"]
    /\ UNCHANGED <<nextVersion, snapshot, data, txn>>

\* Mutant: the write records are left behind.
RollbackLeavesRecords(t) ==
    /\ IsOpen(t)
    /\ data' = [k \in Key |-> [data[k] EXCEPT ![txn[t].version] =
                                  IF <<txn[t].version, k>> \in writes THEN Absent ELSE @]]
    /\ active' = active \ {txn[t].version}
    /\ outcome' = [outcome EXCEPT ![t] = "rolledback"]
    /\ UNCHANGED <<nextVersion, snapshot, writes, txn>>

\* The recorded writes are undone; the active snapshot stays for time travel.
Rollback(t) ==
    /\ IsOpen(t)
    /\ data' = [k \in Key |-> [data[k] EXCEPT ![txn[t].version] =
                                  IF <<txn[t].version, k>> \in writes THEN Absent ELSE @]]
    /\ writes' = {w \in writes : w[1] # txn[t].version}
    /\ active' = active \ {txn[t].version}
    /\ outcome' = [outcome EXCEPT ![t] = "rolledback"]
    /\ UNCHANGED <<nextVersion, snapshot, txn>>

-----------------------------------------------------------------------------
MVCCInit ==
    /\ nextVersion = 1
    /\ active = {}
    /\ snapshot = [v \in Version |-> {}]
    /\ writes = {}
    /\ data = [k \in Key |-> [v \in Version |-> Absent]]
    /\ txn = [t \in Txn |-> NoTxn]
    /\ outcome = [t \in Txn |-> "none"]

MVCCNext ==
    \E t \in Txn :
        \/ Begin(t)
        \/ BeginReadOnly(t)
        \/ \E v \in 0..MaxVersion : BeginAsOf(t, v)
        \/ \E k \in Key, x \in Value \cup {Deleted} : Write(t, k, x)
        \/ Commit(t)
        \/ Rollback(t)

MVCCSpec == MVCCInit /\ [][MVCCNext]_mvccVars

-----------------------------------------------------------------------------
(* Properties.                                                             *)

TxnState == [version : 0..MaxVersion + 1, readOnly : BOOLEAN, active : SUBSET Version]

\* The stored keys and values decode to the types that mvcc.rs gives them, and
\* every version in use was allocated from Key::NextVersion.
MVCCTypeOK ==
    /\ nextVersion \in 1..MaxVersion + 1
    /\ active \subseteq 1..nextVersion - 1
    /\ snapshot \in [Version -> SUBSET Version]
    /\ writes \subseteq (1..nextVersion - 1) \X Key
    /\ data \in [Key -> [Version -> Value \cup {Deleted, Absent}]]
    /\ txn \in [Txn -> TxnState \cup {NoTxn}]
    /\ outcome \in [Txn -> {"none", "committed", "rolledback"}]

\* An uncommitted version of a key is its latest: transactions that began later
\* find it in their active set, and it could not have been written below theirs
\* (write_version's check of the latest version only).
UncommittedIsLatest ==
    \A k \in Key, v \in active :
        data[k][v] # Absent => \A w \in v + 1..MaxVersion : data[k][w] = Absent

\* Rollback undoes what TxnWrite records: the records are exactly the versions
\* of active transactions.
WriteRecordsAreExact ==
    writes = {w \in Version \X Key : w[1] \in active /\ data[w[2]][w[1]] # Absent}

\* "We can only conflict with the latest key": write_version refuses a write if
\* and only if some version of the key is invisible to the transaction.
ConflictsAreFound ==
    \A t \in Txn, k \in Key : IsOpen(t) =>
        (WriteConflict(txn[t], k) <=>
            \E v \in Version : data[k][v] # Absent /\ ~IsVisible(txn[t], v))

-----------------------------------------------------------------------------
(* MVCC implements snapshot isolation.                                     *)

\* The database that a read-only transaction at version v sees.
DbAt(v, act) == [k \in Key |-> Get([version |-> v, readOnly |-> TRUE, active |-> act], k)]

AbstractStatus(t) ==
    IF txn[t] = NoTxn THEN "idle"
    ELSE IF txn[t].readOnly THEN "reading"
    ELSE IF outcome[t] = "none" THEN "active"
    ELSE outcome[t]

AbstractSnap(t) == IF txn[t] = NoTxn THEN [k \in Key |-> Deleted]
                   ELSE DbAt(txn[t].version, txn[t].active)

AbstractSeen(t) ==
    {u \in Txn : /\ AbstractStatus(t) \in {"active", "committed", "rolledback"}
                 /\ outcome[u] = "committed"
                 /\ txn[u].version \notin txn[t].active
                 /\ txn[u].version < txn[t].version}

AbstractWrote(t) ==
    IF AbstractStatus(t) \in {"active", "committed"}
    THEN [k \in Key |-> data[k][txn[t].version]] ELSE [k \in Key |-> Absent]

SI == INSTANCE SnapshotIsolation WITH
        status <- [t \in Txn |-> AbstractStatus(t)],
        db <- DbAt(nextVersion, active),
        snap <- [t \in Txn |-> AbstractSnap(t)],
        seen <- [t \in Txn |-> AbstractSeen(t)],
        wrote <- [t \in Txn |-> AbstractWrote(t)],
        past <- [v \in 1..nextVersion - 1 |-> DbAt(v, snapshot[v])]

\* Every behaviour of MVCC is one of snapshot isolation: reads are those of the
\* database when the transaction began plus its own writes, commits are atomic,
\* rollbacks leave no trace, concurrent transactions do not write the same key,
\* and time-travel queries see what the transaction of that version saw.  A state
\* that is used after its transaction has ended (Transaction::resume) changes nothing.
ImplementsSnapshotIsolation == SI!SISpec
=============================================================================
