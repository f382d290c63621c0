---------------------------- MODULE MVCC_proofs ----------------------------
(***************************************************************************)
(* Proofs about MVCC, for any transactions, keys, values and number of     *)
(* versions: the inductive invariant with what it says of the engine's     *)
(* keys; then that MVCC implements snapshot isolation (initial states map  *)
(* to initial states, and every operation maps to the operation of that    *)
(* name); and last that scans read snapshots (MVCCScan).                   *)
(***************************************************************************)
EXTENDS MVCCScan, Extrema_proofs, SequenceTheorems

-----------------------------------------------------------------------------
(* The inductive invariant.                                                *)

IsReadWrite(t) == txn[t] # NoTxn /\ ~txn[t].readOnly

\* A transaction that has begun has a version that is allocated, or for a
\* read-only one the next that will be, and an active set below it; the active
\* set of a read-write transaction is the one stored for time travel.
StatesAreStored ==
    \A t \in Txn : txn[t] # NoTxn =>
        /\ txn[t].version <= nextVersion
        /\ txn[t].active \subseteq 0..txn[t].version - 1
        /\ ~txn[t].readOnly => /\ txn[t].version \in 1..nextVersion - 1
                               /\ txn[t].active = snapshot[txn[t].version]

\* Key::NextVersion never hands out a version twice.
VersionsAreUnique ==
    \A t, u \in Txn :
        IsReadWrite(t) /\ IsReadWrite(u) /\ txn[t].version = txn[u].version => t = u

\* A read-write transaction has no outcome as long as it is active; the others
\* have none at all.
OutcomesAreFinal ==
    \A t \in Txn :
        /\ IsReadWrite(t) => (outcome[t] = "none" <=> txn[t].version \in active)
        /\ ~IsReadWrite(t) => outcome[t] = "none"

\* The stored active sets are of earlier versions, and there is none for a
\* version that is not allocated.
SnapshotsAreBelow ==
    \A v \in Version : /\ snapshot[v] \subseteq 1..v - 1
                       /\ v >= nextVersion => snapshot[v] = {}

\* A version that is still active was active whenever a later one was allocated...
ActiveIsInLaterSnapshots ==
    \A v \in active : \A w \in v + 1..nextVersion - 1 : v \in snapshot[w]

\* ... and whenever a transaction, also a read-only one, took a later snapshot.
ActiveIsInLaterStates ==
    \A t \in Txn : txn[t] # NoTxn =>
        \A v \in active : v < txn[t].version => v \in txn[t].active

\* A version that was active when w began was active when any version between
\* the two began.
SnapshotsAreMonotone ==
    \A w \in 1..nextVersion - 1 : \A v \in snapshot[w] : \A m \in v + 1..w - 1 :
        v \in snapshot[m]

\* Only allocated versions are written.
DataIsAllocated ==
    \A k \in Key, v \in Version : data[k][v] # Absent => v < nextVersion

\* The versions of a key are a chain: whoever wrote one of them had begun after
\* the writers of the earlier ones had ended.
VersionsAreChained ==
    \A k \in Key, v, w \in Version :
        data[k][v] # Absent /\ data[k][w] # Absent /\ v < w => v \notin snapshot[w]

MVCCInv ==
    /\ MVCCTypeOK
    /\ StatesAreStored
    /\ VersionsAreUnique
    /\ OutcomesAreFinal
    /\ SnapshotsAreBelow
    /\ ActiveIsInLaterSnapshots
    /\ ActiveIsInLaterStates
    /\ SnapshotsAreMonotone
    /\ DataIsAllocated
    /\ WriteRecordsAreExact
    /\ VersionsAreChained

USE ValueAssumption, VersionAssumption, NoTxnAssumption DEF Version

-----------------------------------------------------------------------------
(* Lemmas.                                                                 *)

\* A transaction that has begun is a TransactionState.
LEMMA TxnStateType ==
    ASSUME MVCCTypeOK, NEW t \in Txn, txn[t] # NoTxn
    PROVE  /\ txn[t] \in TxnState
           /\ txn[t].version \in Nat
           /\ txn[t].readOnly \in BOOLEAN
           /\ txn[t].active \subseteq Version
BY DEF MVCCTypeOK, TxnState

\* Begin builds a TransactionState, which is not the state of no transaction.
LEMMA NewTxnState ==
    ASSUME NEW v \in 0..MaxVersion + 1, NEW r \in BOOLEAN, NEW a \in SUBSET Version
    PROVE  /\ [version |-> v, readOnly |-> r, active |-> a] \in TxnState
           /\ [version |-> v, readOnly |-> r, active |-> a] # NoTxn
<1>1. [version |-> v, readOnly |-> r, active |-> a]
        \in [version : Nat, readOnly : BOOLEAN, active : SUBSET Nat]
    OBVIOUS
<1> QED BY <1>1 DEF TxnState

\* The invariant that the run checks follows from the chain.
LEMMA ChainMeansLatest == MVCCInv => UncommittedIsLatest
BY DEF MVCCInv, MVCCTypeOK, VersionsAreChained, ActiveIsInLaterSnapshots, DataIsAllocated,
       UncommittedIsLatest

\* write_version finds every conflict although it looks at one version only.
LEMMA ChainMeansFound == MVCCInv => ConflictsAreFound
<1> SUFFICES ASSUME MVCCInv, NEW t \in Txn, NEW k \in Key, IsOpen(t)
             PROVE  WriteConflict(txn[t], k) <=>
                      \E v \in Version : data[k][v] # Absent /\ ~IsVisible(txn[t], v)
    BY DEF ConflictsAreFound
<1> DEFINE s == txn[t]
           S == ScannedForConflicts(s, k)
<1>1. WriteConflict(s, k) =>
        \E v \in Version : data[k][v] # Absent /\ ~IsVisible(s, v)
    BY DEF WriteConflict, ScannedForConflicts
<1>2. ASSUME NEW v \in Version, data[k][v] # Absent, ~IsVisible(s, v)
      PROVE  WriteConflict(s, k)
  <2>1. /\ s.version \in 1..nextVersion - 1 /\ s.version \in Version
        /\ s.active = snapshot[s.version]
        /\ s.active \subseteq 1..s.version - 1
        /\ ~s.readOnly
    BY TxnStateType
       DEF MVCCInv, MVCCTypeOK, StatesAreStored, SnapshotsAreBelow, IsOpen
  <2>2. v \in s.active \/ v > s.version
    BY <1>2, <2>1 DEF IsVisible
  <2>3. v \in S
    BY <1>2, <2>1, <2>2 DEF ScannedForConflicts
  <2>4. S \subseteq 0..MaxVersion
    BY DEF ScannedForConflicts
  <2>5. PICK m \in S : \A w \in S : w <= m
    BY <2>3, <2>4, HasMaximum
  <2>6. m \in Version /\ data[k][m] # Absent /\ m >= v
    BY <2>3, <2>5 DEF ScannedForConflicts
  <2>7. ASSUME IsVisible(s, m) PROVE FALSE
    <3>1. m <= s.version /\ m \notin s.active
      BY <2>1, <2>7 DEF IsVisible
    <3>2. v \in s.active /\ v < m
      BY <2>2, <2>6, <3>1, <2>1
    <3>3. v \notin snapshot[m]
      BY <1>2, <2>6, <3>2 DEF MVCCInv, VersionsAreChained
    <3>4. m < s.version
      BY <3>1, <3>2, <3>3, <2>1, <2>6
    <3> QED BY <2>1, <2>6, <3>2, <3>3, <3>4 DEF MVCCInv, MVCCTypeOK, SnapshotsAreMonotone
  <2> QED BY <2>5, <2>7 DEF WriteConflict
<1> QED BY <1>1, <1>2

-----------------------------------------------------------------------------
(* Every operation preserves the invariant.                                *)

\* A new store has no versions, and nothing has begun.
LEMMA InitInv == MVCCInit => MVCCInv
BY DEF MVCCInit, MVCCInv, MVCCTypeOK, StatesAreStored, VersionsAreUnique, IsReadWrite,
       OutcomesAreFinal, SnapshotsAreBelow, ActiveIsInLaterSnapshots, ActiveIsInLaterStates,
       SnapshotsAreMonotone, DataIsAllocated, WriteRecordsAreExact, VersionsAreChained

\* A new read-write transaction takes the next version and the active set.
LEMMA BeginInv ==
    ASSUME MVCCInv, NEW t \in Txn, Begin(t)
    PROVE  MVCCInv'
<1> DEFINE new == [version |-> nextVersion, readOnly |-> FALSE, active |-> active]
<1> USE DEF MVCCInv
<1>1. /\ nextVersion \in Version /\ active \subseteq Version /\ active \subseteq 1..nextVersion - 1
      /\ nextVersion' = nextVersion + 1
      /\ snapshot' = [snapshot EXCEPT ![nextVersion] = active]
      /\ active' = active \cup {nextVersion}
      /\ txn' = [txn EXCEPT ![t] = new]
      /\ txn[t] = NoTxn
      /\ writes' = writes /\ data' = data /\ outcome' = outcome
    BY DEF Begin, MVCCTypeOK
<1>2. new \in TxnState /\ new # NoTxn
  <2>1. nextVersion \in 0..MaxVersion + 1 /\ FALSE \in BOOLEAN /\ active \in SUBSET Version
    BY <1>1
  <2> QED BY <2>1, NewTxnState
<1>3. /\ new.version = nextVersion /\ ~new.readOnly /\ new.active = active
      /\ txn'[t] = new /\ \A u \in Txn \ {t} : txn'[u] = txn[u]
    BY <1>1 DEF MVCCTypeOK
<1>4. /\ snapshot'[nextVersion] = active
      /\ \A v \in Version \ {nextVersion} : snapshot'[v] = snapshot[v]
    BY <1>1 DEF MVCCTypeOK
<1> HIDE DEF new
<1>5. MVCCTypeOK'
    BY <1>1, <1>2 DEF MVCCTypeOK
<1>6. \A u \in Txn : txn[u] # NoTxn => txn[u].version \in 0..nextVersion
                                        /\ txn[u].readOnly \in BOOLEAN
    BY TxnStateType DEF StatesAreStored, MVCCTypeOK
<1>7. StatesAreStored'
  <2> SUFFICES ASSUME NEW u \in Txn, txn'[u] # NoTxn
               PROVE  /\ txn'[u].version <= nextVersion'
                      /\ txn'[u].active \subseteq 0..txn'[u].version - 1
                      /\ ~txn'[u].readOnly => /\ txn'[u].version \in 1..nextVersion' - 1
                                              /\ txn'[u].active = snapshot'[txn'[u].version]
    BY DEF StatesAreStored
  <2>1. CASE u = t
    <3>1. /\ txn'[u].version = nextVersion /\ txn'[u].active = active
          /\ snapshot'[nextVersion] = active
      BY <1>3, <1>4, <2>1
    <3>2. active \subseteq 0..nextVersion - 1
      BY <1>1
    <3>3. txn'[u].active \subseteq 0..txn'[u].version - 1
      BY <3>1, <3>2, Zenon
    <3> QED BY <1>1, <3>1, <3>3
  <2>2. CASE u # t
    <3>1. /\ txn'[u] = txn[u] /\ txn[u] # NoTxn
          /\ txn[u].version <= nextVersion
          /\ txn[u].active \subseteq 0..txn[u].version - 1
          /\ ~txn[u].readOnly => /\ txn[u].version \in 1..nextVersion - 1
                                 /\ txn[u].active = snapshot[txn[u].version]
      BY <1>3, <2>2 DEF StatesAreStored
    <3>2. txn[u].version <= nextVersion + 1
      BY <1>1, <1>6, <3>1
    <3>3. ~txn[u].readOnly => /\ txn[u].version \in 1..nextVersion
                              /\ txn[u].active = snapshot'[txn[u].version]
      BY <1>1, <1>4, <3>1
    <3> QED BY <1>1, <3>1, <3>2, <3>3
  <2> QED BY <2>1, <2>2
<1>8. VersionsAreUnique'
    BY <1>1, <1>2, <1>3, <1>6 DEF VersionsAreUnique, IsReadWrite, StatesAreStored, MVCCTypeOK
<1>9. OutcomesAreFinal'
    BY <1>1, <1>2, <1>3, <1>6 DEF OutcomesAreFinal, IsReadWrite, StatesAreStored, MVCCTypeOK
<1>10. SnapshotsAreBelow'
  <2> SUFFICES ASSUME NEW v \in Version
               PROVE  snapshot'[v] \subseteq 1..v - 1 /\ (v >= nextVersion' => snapshot'[v] = {})
    BY DEF SnapshotsAreBelow
  <2>1. CASE v = nextVersion
    <3>1. snapshot'[v] = active /\ active \subseteq 1..v - 1 /\ v < nextVersion'
      BY <1>1, <1>4, <2>1
    <3> QED BY <3>1, <1>1
  <2>2. CASE v # nextVersion
    BY <1>1, <1>4, <2>2 DEF SnapshotsAreBelow
  <2> QED BY <2>1, <2>2
<1>11. ActiveIsInLaterSnapshots'
    BY <1>1, <1>4 DEF ActiveIsInLaterSnapshots, MVCCTypeOK
<1>12. ActiveIsInLaterStates'
    BY <1>1, <1>3, <1>6 DEF ActiveIsInLaterStates, MVCCTypeOK
<1>13. SnapshotsAreMonotone'
  <2> SUFFICES ASSUME NEW w \in 1..nextVersion' - 1, NEW v \in snapshot'[w],
                      NEW m \in v + 1..w - 1
               PROVE  v \in snapshot'[m]
    BY DEF SnapshotsAreMonotone
  <2>0. v \in Version /\ w \in Version /\ v < w
    BY <1>1, <1>5, <1>10 DEF SnapshotsAreBelow, MVCCTypeOK
  <2>1. CASE w = nextVersion
    BY <1>1, <1>4, <2>0, <2>1 DEF ActiveIsInLaterSnapshots, MVCCTypeOK
  <2>2. CASE w # nextVersion
    BY <1>1, <1>4, <2>0, <2>2 DEF SnapshotsAreMonotone, MVCCTypeOK
  <2> QED BY <2>1, <2>2
<1>14. DataIsAllocated'
    BY <1>1 DEF DataIsAllocated, MVCCTypeOK
<1>15. WriteRecordsAreExact'
    BY <1>1 DEF WriteRecordsAreExact, DataIsAllocated, MVCCTypeOK
<1>16. VersionsAreChained'
    BY <1>1, <1>4 DEF VersionsAreChained, DataIsAllocated, MVCCTypeOK
<1> QED BY <1>5, <1>7, <1>8, <1>9, <1>10, <1>11, <1>12, <1>13, <1>14, <1>15, <1>16

\* A read-only transaction, at the present or in the past, changes no engine state.
LEMMA BeginReadInv ==
    ASSUME MVCCInv, NEW t \in Txn, NEW v \in 0..nextVersion, NEW a \in SUBSET Version,
           a \subseteq 0..v - 1, \A w \in active : w < v => w \in a,
           txn[t] = NoTxn,
           txn' = [txn EXCEPT ![t] = [version |-> v, readOnly |-> TRUE, active |-> a]],
           UNCHANGED <<engine, outcome>>
    PROVE  MVCCInv'
<1> DEFINE new == [version |-> v, readOnly |-> TRUE, active |-> a]
<1> USE DEF MVCCInv
<1>1. /\ nextVersion' = nextVersion /\ active' = active /\ snapshot' = snapshot
      /\ writes' = writes /\ data' = data /\ outcome' = outcome
    BY DEF engine
<1>2. new \in TxnState /\ new # NoTxn
  <2>1. v \in 0..MaxVersion + 1 /\ TRUE \in BOOLEAN
    BY DEF MVCCTypeOK
  <2> QED BY <2>1, NewTxnState
<1>3. /\ new.version = v /\ new.readOnly /\ new.active = a
      /\ txn'[t] = new /\ \A u \in Txn \ {t} : txn'[u] = txn[u]
    BY DEF MVCCTypeOK
<1>4. MVCCTypeOK'
    BY <1>1, <1>2 DEF MVCCTypeOK
<1> HIDE DEF new
<1>5. StatesAreStored'
  <2> SUFFICES ASSUME NEW u \in Txn, txn'[u] # NoTxn
               PROVE  /\ txn'[u].version <= nextVersion
                      /\ txn'[u].active \subseteq 0..txn'[u].version - 1
                      /\ ~txn'[u].readOnly => /\ txn'[u].version \in 1..nextVersion - 1
                                              /\ txn'[u].active = snapshot[txn'[u].version]
    BY <1>1 DEF StatesAreStored
  <2>1. CASE u = t
    <3>1. txn'[u].version = v /\ txn'[u].active = a /\ txn'[u].readOnly
      BY <1>3, <2>1
    <3>2. txn'[u].active \subseteq 0..txn'[u].version - 1
      BY <3>1, Zenon
    <3>3. v <= nextVersion
      BY DEF MVCCTypeOK
    <3> QED BY <3>1, <3>2, <3>3
  <2>2. CASE u # t
    BY <1>3, <2>2 DEF StatesAreStored
  <2> QED BY <2>1, <2>2
<1>6. \A u \in Txn : IsReadWrite(u)' <=> IsReadWrite(u) /\ u # t
    BY <1>3 DEF IsReadWrite
<1>7. VersionsAreUnique'
    BY <1>1, <1>3, <1>6 DEF VersionsAreUnique
<1>8. OutcomesAreFinal'
    BY <1>1, <1>3, <1>6 DEF OutcomesAreFinal, IsReadWrite
<1>9. ActiveIsInLaterStates'
    BY <1>1, <1>3 DEF ActiveIsInLaterStates
<1>10. /\ SnapshotsAreBelow' /\ ActiveIsInLaterSnapshots' /\ SnapshotsAreMonotone'
       /\ DataIsAllocated' /\ WriteRecordsAreExact' /\ VersionsAreChained'
    BY <1>1 DEF SnapshotsAreBelow, ActiveIsInLaterSnapshots, SnapshotsAreMonotone,
                DataIsAllocated, WriteRecordsAreExact, VersionsAreChained
<1> QED BY <1>4, <1>5, <1>7, <1>8, <1>9, <1>10

\* The state of an open transaction, as the proofs of its operations use it.
LEMMA OpenTxn ==
    ASSUME MVCCInv, NEW t \in Txn, IsOpen(t)
    PROVE  /\ IsReadWrite(t)
           /\ txn[t].version \in Version /\ txn[t].version \in 1..nextVersion - 1
           /\ txn[t].version \in active
           /\ txn[t].active = snapshot[txn[t].version]
BY TxnStateType DEF MVCCInv, MVCCTypeOK, StatesAreStored, IsOpen, IsReadWrite

\* What the invariant says of allocation and of the transactions' states does
\* not depend on what is written.
LEMMA AllocationInv ==
    ASSUME MVCCInv, UNCHANGED <<nextVersion, snapshot, txn>>, active' \subseteq active
    PROVE  /\ StatesAreStored' /\ VersionsAreUnique' /\ SnapshotsAreBelow'
           /\ ActiveIsInLaterSnapshots' /\ ActiveIsInLaterStates' /\ SnapshotsAreMonotone'
<1> USE DEF MVCCInv
<1>1. StatesAreStored' /\ VersionsAreUnique' /\ SnapshotsAreBelow' /\ SnapshotsAreMonotone'
    BY DEF StatesAreStored, VersionsAreUnique, IsReadWrite, SnapshotsAreBelow, SnapshotsAreMonotone
<1>2. ActiveIsInLaterSnapshots' /\ ActiveIsInLaterStates'
    BY DEF ActiveIsInLaterSnapshots, ActiveIsInLaterStates
<1> QED BY <1>1, <1>2

\* A write without a conflict extends the chain of versions of its key.
LEMMA WriteInv ==
    ASSUME MVCCInv, NEW t \in Txn, NEW k \in Key, NEW x \in Value \cup {Deleted}, Write(t, k, x)
    PROVE  MVCCInv'
<1> DEFINE n == txn[t].version
<1> USE DEF MVCCInv
<1>1. /\ IsOpen(t) /\ ~WriteConflict(txn[t], k)
      /\ writes' = writes \cup {<<n, k>>}
      /\ data' = [data EXCEPT ![k][n] = x]
      /\ nextVersion' = nextVersion /\ active' = active /\ snapshot' = snapshot
      /\ txn' = txn /\ outcome' = outcome
    BY DEF Write
<1>2. /\ n \in Version /\ n \in 1..nextVersion - 1 /\ n \in active
      /\ txn[t].active = snapshot[n] /\ ~txn[t].readOnly
    BY <1>1, OpenTxn DEF IsReadWrite
<1> HIDE DEF n
<1>3. x # Absent
    OBVIOUS
<1>4. MVCCTypeOK'
    BY <1>1, <1>2 DEF MVCCTypeOK
<1>5. /\ data'[k][n] = x
      /\ \A j \in Key, v \in Version : <<j, v>> # <<k, n>> => data'[j][v] = data[j][v]
    BY <1>1, <1>2 DEF MVCCTypeOK
<1>6. \A v \in Version : data[k][v] # Absent => v \notin snapshot[n] /\ v <= n
  <2>1. ConflictsAreFound
    BY ChainMeansFound
  <2>2. \A v \in Version : data[k][v] # Absent => IsVisible(txn[t], v)
    BY <1>1, <2>1 DEF ConflictsAreFound
  <2> QED BY <1>2, <2>2 DEF IsVisible, n
<1>7. DataIsAllocated'
  <2>1. n < nextVersion
    BY <1>2 DEF MVCCTypeOK
  <2> QED BY <1>1, <1>5, <2>1 DEF DataIsAllocated
<1>8. WriteRecordsAreExact'
  <2> SUFFICES ASSUME NEW j \in Key, NEW v \in Version
               PROVE  <<v, j>> \in writes' <=> v \in active /\ data'[j][v] # Absent
    BY <1>1, <1>4 DEF WriteRecordsAreExact, MVCCTypeOK
  <2>1. CASE j = k /\ v = n
    BY <1>1, <1>2, <1>3, <1>5, <2>1
  <2>2. CASE ~(j = k /\ v = n)
    BY <1>1, <1>5, <2>2 DEF WriteRecordsAreExact
  <2> QED BY <2>1, <2>2
<1>9. VersionsAreChained'
  <2> SUFFICES ASSUME NEW j \in Key, NEW v \in Version, NEW w \in Version,
                      data'[j][v] # Absent, data'[j][w] # Absent, v < w
               PROVE  v \notin snapshot[w]
    BY <1>1 DEF VersionsAreChained
  <2>1. CASE j = k /\ w = n
    BY <1>5, <1>6, <2>1
  <2>2. CASE j = k /\ v = n
    BY <1>5, <1>6, <2>2, <1>2
  <2>3. CASE ~(j = k /\ (v = n \/ w = n))
    BY <1>5, <2>3 DEF VersionsAreChained
  <2> QED BY <2>1, <2>2, <2>3
<1>10. OutcomesAreFinal'
    BY <1>1 DEF OutcomesAreFinal, IsReadWrite
<1> QED BY <1>1, <1>4, <1>7, <1>8, <1>9, <1>10, AllocationInv

\* A transaction that ends gives up its version and its write records.
LEMMA EndInv ==
    ASSUME MVCCInv, NEW t \in Txn, IsOpen(t), NEW o \in {"committed", "rolledback"},
           writes' = {w \in writes : w[1] # txn[t].version},
           active' = active \ {txn[t].version},
           outcome' = [outcome EXCEPT ![t] = o],
           UNCHANGED <<nextVersion, snapshot, txn>>,
           data' \in [Key -> [Version -> Value \cup {Deleted, Absent}]],
           \A k \in Key, v \in Version : v # txn[t].version => data'[k][v] = data[k][v],
           \A k \in Key, v \in Version : data'[k][v] # Absent => data[k][v] # Absent
    PROVE  MVCCInv'
<1> DEFINE n == txn[t].version
<1> USE DEF MVCCInv
<1>1. /\ n \in Version /\ n \in 1..nextVersion - 1 /\ n \in active /\ IsReadWrite(t)
      /\ writes' = {w \in writes : w[1] # n} /\ active' = active \ {n}
      /\ \A k \in Key, v \in Version : v # n => data'[k][v] = data[k][v]
    BY OpenTxn
<1>2. MVCCTypeOK'
    BY <1>1 DEF MVCCTypeOK
<1>3. OutcomesAreFinal'
  <2> SUFFICES ASSUME NEW u \in Txn
               PROVE  /\ IsReadWrite(u) => (outcome'[u] = "none" <=> txn[u].version \in active')
                      /\ ~IsReadWrite(u) => outcome'[u] = "none"
    BY DEF OutcomesAreFinal, IsReadWrite
  <2>1. CASE u = t
    BY <1>1, <2>1 DEF MVCCTypeOK
  <2>2. CASE u # t
    <3>1. outcome'[u] = outcome[u]
      BY <2>2 DEF MVCCTypeOK
    <3>2. IsReadWrite(u) => txn[u].version # n
      BY <1>1, <2>2 DEF VersionsAreUnique
    <3> QED BY <1>1, <3>1, <3>2 DEF OutcomesAreFinal
  <2> QED BY <2>1, <2>2
<1> HIDE DEF n
<1>4. DataIsAllocated' /\ VersionsAreChained'
    BY DEF DataIsAllocated, VersionsAreChained
<1>5. WriteRecordsAreExact'
    BY <1>1 DEF WriteRecordsAreExact
<1> QED BY <1>1, <1>2, <1>3, <1>4, <1>5, AllocationInv

\* The invariant is inductive.
LEMMA NextInv == MVCCInv /\ [MVCCNext]_mvccVars => MVCCInv'
<1> SUFFICES ASSUME MVCCInv, [MVCCNext]_mvccVars PROVE MVCCInv'
    OBVIOUS
<1> USE DEF MVCCInv
<1>1. CASE UNCHANGED mvccVars
    BY <1>1 DEF mvccVars, MVCCTypeOK, StatesAreStored, VersionsAreUnique, IsReadWrite,
       OutcomesAreFinal, SnapshotsAreBelow, ActiveIsInLaterSnapshots, ActiveIsInLaterStates,
       SnapshotsAreMonotone, DataIsAllocated, WriteRecordsAreExact, VersionsAreChained
<1>2. ASSUME NEW t \in Txn, Begin(t) PROVE MVCCInv'
    BY <1>2, BeginInv
<1>3. ASSUME NEW t \in Txn, BeginReadOnly(t) PROVE MVCCInv'
  <2>1. /\ nextVersion \in 0..nextVersion /\ active \in SUBSET Version
        /\ active \subseteq 0..nextVersion - 1
    BY DEF MVCCTypeOK
  <2> QED BY <1>3, <2>1, BeginReadInv DEF BeginReadOnly
<1>4. ASSUME NEW t \in Txn, NEW v \in 0..MaxVersion, BeginAsOf(t, v) PROVE MVCCInv'
  <2> DEFINE a == IF v = 0 THEN {} ELSE snapshot[v]
  <2>1. v \in 0..nextVersion /\ a \in SUBSET Version
    BY <1>4 DEF BeginAsOf, MVCCTypeOK
  <2>2. a \subseteq 0..v - 1
    BY DEF SnapshotsAreBelow
  <2>3. \A w \in active : w < v => w \in a
    BY <1>4 DEF BeginAsOf, MVCCTypeOK, ActiveIsInLaterSnapshots
  <2> QED BY <1>4, <2>1, <2>2, <2>3, BeginReadInv DEF BeginAsOf
<1>5. ASSUME NEW t \in Txn, NEW k \in Key, NEW x \in Value \cup {Deleted}, Write(t, k, x)
      PROVE MVCCInv'
    BY <1>5, WriteInv
<1>6. ASSUME NEW t \in Txn, Commit(t) PROVE MVCCInv'
    BY <1>6, EndInv DEF Commit, MVCCTypeOK
<1>7. ASSUME NEW t \in Txn, Rollback(t) PROVE MVCCInv'
  <2>1. \A k \in Key, v \in Version : v # txn[t].version => data'[k][v] = data[k][v]
    BY <1>7, OpenTxn DEF Rollback, MVCCTypeOK
  <2>2. \A k \in Key, v \in Version : data'[k][v] # Absent => data[k][v] # Absent
    BY <1>7, OpenTxn DEF Rollback, MVCCTypeOK
  <2>3. data' \in [Key -> [Version -> Value \cup {Deleted, Absent}]]
    BY <1>7, OpenTxn DEF Rollback, MVCCTypeOK
  <2> QED BY <1>7, <2>1, <2>2, <2>3, EndInv DEF Rollback
<1> QED BY <1>1, <1>2, <1>3, <1>4, <1>5, <1>6, <1>7 DEF MVCCNext

-----------------------------------------------------------------------------
\* Every reachable state satisfies the inductive invariant.
THEOREM InvHolds == MVCCSpec => []MVCCInv
BY InitInv, NextInv, PTL DEF MVCCSpec

\* The engine's keys and values stay well typed and every version in use was
\* allocated: Transaction::begin, set, delete, commit and rollback.
THEOREM MVCCTypeCorrect == MVCCSpec => []MVCCTypeOK
<1>1. MVCCInv => MVCCTypeOK
    BY DEF MVCCInv
<1> QED BY <1>1, InvHolds, PTL

\* No version of a key is ever written above an uncommitted one, so that the
\* latest version alone decides a conflict in write_version.
THEOREM UncommittedStaysLatest == MVCCSpec => []UncommittedIsLatest
BY ChainMeansLatest, InvHolds, PTL

\* Rollback removes exactly the versions that the transaction wrote.
THEOREM RecordsStayExact == MVCCSpec => []WriteRecordsAreExact
<1>1. MVCCInv => WriteRecordsAreExact
    BY DEF MVCCInv
<1> QED BY <1>1, InvHolds, PTL

\* write_version refuses a write if and only if some version of the key is
\* invisible to the transaction.
THEOREM ConflictsAreAlwaysFound == MVCCSpec => []ConflictsAreFound
BY ChainMeansFound, InvHolds, PTL

-----------------------------------------------------------------------------
(* The refinement of snapshot isolation.                                   *)

(* Reading a key at a version.                                             *)

\* Whether version w in a row (the versions of one key) is read at version v
\* with the active set act.
SeenAt(row, v, act, w) == row[w] # Absent /\ w < v /\ w \notin act

\* What Transaction::get of a read-only transaction at v finds in a row.
ReadAt(row, v, act) ==
    LET seen == {w \in Version : SeenAt(row, v, act, w)}
    IN  IF seen = {} THEN Deleted ELSE row[CHOOSE w \in seen : \A z \in seen : z <= w]

\* DbAt reads every key.
LEMMA DbAtReads ==
    ASSUME NEW v \in Nat, NEW act
    PROVE  DbAt(v, act) = [k \in Key |-> ReadAt(data[k], v, act)]
<1> DEFINE s == [version |-> v, readOnly |-> TRUE, active |-> act]
<1> SUFFICES ASSUME NEW k \in Key
             PROVE  Get(s, k) = ReadAt(data[k], v, act)
    BY DEF DbAt
<1>1. VisibleVersions(s, k) = {w \in Version : SeenAt(data[k], v, act, w)}
    BY DEF VisibleVersions, IsVisible, SeenAt
<1>2. Get(s, k) = LET seen == VisibleVersions(s, k)
                  IN  IF seen = {} THEN Deleted
                      ELSE data[k][CHOOSE w \in seen : \A z \in seen : z <= w]
    BY Zenon DEF Get
<1> QED BY <1>1, <1>2, Zenon DEF ReadAt

\* Two reads agree if the same versions are seen with the same values.
LEMMA SameRead ==
    ASSUME NEW r1, NEW v1, NEW a1, NEW r2, NEW v2, NEW a2,
           \A w \in Version : SeenAt(r1, v1, a1, w) <=> SeenAt(r2, v2, a2, w),
           \A w \in Version : SeenAt(r1, v1, a1, w) => r1[w] = r2[w]
    PROVE  ReadAt(r1, v1, a1) = ReadAt(r2, v2, a2)
<1> DEFINE seen == {w \in Version : SeenAt(r1, v1, a1, w)}
           best == CHOOSE w \in seen : \A z \in seen : z <= w
<1>1. seen = {w \in Version : SeenAt(r2, v2, a2, w)}
    OBVIOUS
<1>2. CASE seen = {}
    BY <1>1, <1>2 DEF ReadAt
<1>3. CASE seen # {}
  <2>1. \E w \in seen : \A z \in seen : z <= w
    <3>1. seen \subseteq 0..MaxVersion
      OBVIOUS
    <3> HIDE DEF seen
    <3> QED BY <1>3, <3>1, HasMaximum
  <2>2. best \in seen
    BY <2>1
  <2>3. ReadAt(r1, v1, a1) = r1[best]
    BY <1>3 DEF ReadAt
  <2>4. ReadAt(r2, v2, a2) = r2[best]
    BY <1>1, <1>3 DEF ReadAt
  <2> QED BY <2>2, <2>3, <2>4
<1> QED BY <1>2, <1>3

\* A version that is seen and the largest that is seen is read.
LEMMA ReadLatest ==
    ASSUME NEW r, NEW v, NEW a, NEW m \in Version, SeenAt(r, v, a, m),
           \A w \in Version : SeenAt(r, v, a, w) => w <= m
    PROVE  ReadAt(r, v, a) = r[m]
<1> DEFINE seen == {w \in Version : SeenAt(r, v, a, w)}
<1>1. m \in seen /\ \A z \in seen : z <= m
    OBVIOUS
<1>2. \A w \in seen : (\A z \in seen : z <= w) => w = m
    BY <1>1
<1>3. (CHOOSE w \in seen : \A z \in seen : z <= w) = m
    BY <1>1, <1>2
<1> QED BY <1>1, <1>3 DEF ReadAt

\* Nothing is seen at version 0.
LEMMA ReadNothing ==
    ASSUME NEW r, NEW a
    PROVE  ReadAt(r, 0, a) = Deleted
BY DEF ReadAt, SeenAt

-----------------------------------------------------------------------------
(* The mapped state.                                                       *)

absStatus == [t \in Txn |-> AbstractStatus(t)]
absDb     == DbAt(nextVersion, active)
absSnap   == [t \in Txn |-> AbstractSnap(t)]
absSeen   == [t \in Txn |-> AbstractSeen(t)]
absWrote  == [t \in Txn |-> AbstractWrote(t)]
absPast   == [v \in 1..nextVersion - 1 |-> DbAt(v, snapshot[v])]

\* What the mapped state reads, in terms of rows.
MappedReads ==
    /\ absDb = [k \in Key |-> ReadAt(data[k], nextVersion, active)]
    /\ \A t \in Txn : txn[t] # NoTxn =>
         AbstractSnap(t) = [k \in Key |-> ReadAt(data[k], txn[t].version, txn[t].active)]
    /\ \A v \in 1..nextVersion - 1 :
         absPast[v] = [k \in Key |-> ReadAt(data[k], v, snapshot[v])]

\* The abstract database and its snapshots are what reads of rows find.
LEMMA MappedReadsHold == MVCCInv => MappedReads
<1> SUFFICES ASSUME MVCCInv PROVE MappedReads
    OBVIOUS
<1>1. nextVersion \in Nat
    BY DEF MVCCInv, MVCCTypeOK
<1>2. absDb = [k \in Key |-> ReadAt(data[k], nextVersion, active)]
    BY <1>1, DbAtReads DEF absDb
<1>3. ASSUME NEW t \in Txn, txn[t] # NoTxn
      PROVE  AbstractSnap(t) = [k \in Key |-> ReadAt(data[k], txn[t].version, txn[t].active)]
  <2>1. txn[t].version \in Nat
    BY <1>3, TxnStateType DEF MVCCInv
  <2> QED BY <1>3, <2>1, DbAtReads DEF AbstractSnap
<1>4. ASSUME NEW v \in 1..nextVersion - 1
      PROVE  absPast[v] = [k \in Key |-> ReadAt(data[k], v, snapshot[v])]
  <2>1. absPast[v] = DbAt(v, snapshot[v])
    BY DEF absPast
  <2> QED BY <2>1, DbAtReads, <1>1
<1> QED BY <1>2, <1>3, <1>4 DEF MappedReads

\* The same in the next state.
LEMMA MappedReadsNext == MVCCInv' => MappedReads'
BY MappedReadsHold, PTL

-----------------------------------------------------------------------------
(* What a step leaves alone.                                               *)

\* No transaction that has begun, and no stored snapshot, sees an active
\* version: changing or ending it changes none of them.
LEMMA SnapshotsAreStable ==
    ASSUME MVCCInv, MVCCInv', NEW n \in active,
           nextVersion' = nextVersion, snapshot' = snapshot, txn' = txn,
           \A k \in Key, v \in Version : v # n => data'[k][v] = data[k][v]
    PROVE  absSnap' = absSnap /\ absPast' = absPast
<1>1. MappedReads /\ MappedReads' /\ n \in Version
    BY MappedReadsHold, MappedReadsNext DEF MVCCInv, MVCCTypeOK
<1>2. ASSUME NEW k \in Key, NEW v \in Nat, NEW a, n < v => n \in a
      PROVE  ReadAt(data'[k], v, a) = ReadAt(data[k], v, a)
  <2>1. \A w \in Version : SeenAt(data'[k], v, a, w) <=> SeenAt(data[k], v, a, w)
    BY <1>1, <1>2 DEF SeenAt
  <2>2. \A w \in Version : SeenAt(data'[k], v, a, w) => data'[k][w] = data[k][w]
    BY <1>1, <1>2 DEF SeenAt
  <2> QED BY <2>1, <2>2, SameRead
<1>3. ASSUME NEW t \in Txn
      PROVE  AbstractSnap(t)' = AbstractSnap(t)
  <2>1. CASE txn[t] = NoTxn
    BY <2>1 DEF AbstractSnap
  <2>2. CASE txn[t] # NoTxn
    <3>1. txn[t].version \in Nat /\ (n < txn[t].version => n \in txn[t].active)
      BY <2>2, TxnStateType DEF MVCCInv, ActiveIsInLaterStates
    <3>2. \A k \in Key : ReadAt(data'[k], txn[t].version, txn[t].active)
                           = ReadAt(data[k], txn[t].version, txn[t].active)
      BY <1>2, <3>1
    <3> QED BY <1>1, <2>2, <3>2 DEF MappedReads
  <2> QED BY <2>1, <2>2
<1>4. ASSUME NEW v \in 1..nextVersion - 1
      PROVE  absPast'[v] = absPast[v]
  <2>1. v \in Nat /\ (n < v => n \in snapshot[v])
    BY DEF MVCCInv, MVCCTypeOK, ActiveIsInLaterSnapshots
  <2>2. \A k \in Key : ReadAt(data'[k], v, snapshot[v]) = ReadAt(data[k], v, snapshot[v])
    BY <1>2, <2>1
  <2>3. absPast[v] = [k \in Key |-> ReadAt(data[k], v, snapshot[v])]
    BY <1>1 DEF MappedReads
  <2>4. absPast'[v] = [k \in Key |-> ReadAt(data'[k], v, snapshot[v])]
    BY <1>1 DEF MappedReads
  <2> QED BY <2>2, <2>3, <2>4
<1>5. absSnap' = absSnap
    BY <1>3 DEF absSnap
<1>6. absPast' = absPast
  <2>1. absPast = [v \in 1..nextVersion - 1 |-> absPast[v]]
    BY DEF absPast
  <2>2. absPast' = [v \in 1..nextVersion - 1 |-> absPast'[v]]
    BY DEF absPast
  <2> QED BY <1>4, <2>1, <2>2
<1> QED BY <1>5, <1>6

-----------------------------------------------------------------------------
(* The initial states.                                                     *)

\* An empty engine is the empty database.
LEMMA InitRefines == MVCCInit => SI!SIInit
<1> SUFFICES ASSUME MVCCInit PROVE SI!SIInit
    OBVIOUS
<1>1. MappedReads
    BY InitInv, MappedReadsHold
<1>2. absDb = [k \in Key |-> Deleted]
  <2>1. ASSUME NEW k \in Key PROVE ReadAt(data[k], nextVersion, active) = Deleted
    BY DEF MVCCInit, ReadAt, SeenAt
  <2> QED BY <1>1, <2>1 DEF MappedReads
<1>3. \A t \in Txn : AbstractStatus(t) = "idle" /\ AbstractSnap(t) = [k \in Key |-> Deleted]
                     /\ AbstractSeen(t) = {} /\ AbstractWrote(t) = [k \in Key |-> Absent]
    BY DEF MVCCInit, AbstractStatus, AbstractSnap, AbstractSeen, AbstractWrote
<1>4. absPast = <<>>
    BY DEF MVCCInit, absPast
<1> QED BY <1>2, <1>3, <1>4
        DEF SI!SIInit, SI!EmptyDb, SI!NoWrites, absDb, absPast

-----------------------------------------------------------------------------
(* Every operation is the abstract operation of its name.                  *)

\* Begin takes the committed database as the snapshot.
LEMMA BeginRefines ==
    ASSUME MVCCInv, MVCCInv', NEW t \in Txn, Begin(t)
    PROVE  SI!SIBegin(t)
<1> DEFINE new == [version |-> nextVersion, readOnly |-> FALSE, active |-> active]
<1>1. /\ nextVersion \in Version /\ active \subseteq 1..nextVersion - 1
      /\ nextVersion' = nextVersion + 1
      /\ snapshot' = [snapshot EXCEPT ![nextVersion] = active]
      /\ active' = active \cup {nextVersion}
      /\ txn' = [txn EXCEPT ![t] = new]
      /\ txn[t] = NoTxn
      /\ data' = data /\ outcome' = outcome
    BY DEF Begin, MVCCInv, MVCCTypeOK
<1>2. new # NoTxn
  <2>1. nextVersion \in 0..MaxVersion + 1 /\ FALSE \in BOOLEAN /\ active \in SUBSET Version
    BY <1>1
  <2> QED BY <2>1, NewTxnState
<1>3. /\ new.version = nextVersion /\ ~new.readOnly /\ new.active = active
      /\ txn'[t] = new /\ \A u \in Txn \ {t} : txn'[u] = txn[u]
    BY <1>1 DEF MVCCInv, MVCCTypeOK
<1> HIDE DEF new
<1>4. MappedReads /\ MappedReads'
    BY MappedReadsHold, MappedReadsNext
<1>5. outcome[t] = "none"
    BY <1>1 DEF MVCCInv, OutcomesAreFinal, IsReadWrite
<1>6. \A u \in Txn \ {t} : AbstractStatus(u)' = AbstractStatus(u)
    BY <1>1, <1>3 DEF AbstractStatus
<1>7. AbstractStatus(t) = "idle" /\ AbstractStatus(t)' = "active"
    BY <1>1, <1>2, <1>3, <1>5 DEF AbstractStatus
<1>8. absStatus' = [absStatus EXCEPT ![t] = "active"]
    BY <1>6, <1>7 DEF absStatus
<1>9. absDb' = absDb
  <2>1. ASSUME NEW k \in Key
        PROVE  ReadAt(data[k], nextVersion + 1, active \cup {nextVersion})
                 = ReadAt(data[k], nextVersion, active)
    <3>1. \A w \in Version : SeenAt(data[k], nextVersion + 1, active \cup {nextVersion}, w)
                               <=> SeenAt(data[k], nextVersion, active, w)
      BY <1>1 DEF SeenAt
    <3>2. PICK row, v1, v2, a1, a2 :
            /\ row = data[k] /\ v1 = nextVersion + 1 /\ a1 = active \cup {nextVersion}
            /\ v2 = nextVersion /\ a2 = active
      OBVIOUS
    <3>3. \A w \in Version : SeenAt(row, v1, a1, w) <=> SeenAt(row, v2, a2, w)
      BY <3>1, <3>2
    <3>4. ReadAt(row, v1, a1) = ReadAt(row, v2, a2)
      BY <3>3, SameRead
    <3> QED BY <3>2, <3>4
  <2> QED BY <1>1, <1>4, <2>1 DEF MappedReads
<1>10. absSnap' = [absSnap EXCEPT ![t] = absDb]
  <2>1. AbstractSnap(t)' = absDb
    BY <1>1, <1>2, <1>3, <1>4 DEF MappedReads
  <2>2. \A u \in Txn \ {t} : AbstractSnap(u)' = AbstractSnap(u)
    BY <1>1, <1>3 DEF AbstractSnap, DbAt, Get, VisibleVersions, IsVisible
  <2> QED BY <2>1, <2>2 DEF absSnap
<1>11. absSeen' = [absSeen EXCEPT ![t] = {u \in Txn : absStatus[u] = "committed"}]
  <2>1. ASSUME NEW u \in Txn, outcome[u] = "committed"
        PROVE  /\ u # t /\ txn'[u] = txn[u] /\ AbstractStatus(u) = "committed"
               /\ txn[u].version \notin active /\ txn[u].version < nextVersion
    BY <1>1, <1>3, <1>5, <2>1, TxnStateType
       DEF MVCCInv, MVCCTypeOK, OutcomesAreFinal, IsReadWrite, StatesAreStored, AbstractStatus
  <2>2. \A u \in Txn : AbstractStatus(u) = "committed" => outcome[u] = "committed"
    BY DEF AbstractStatus
  <2>3. AbstractSeen(t)' = {u \in Txn : absStatus[u] = "committed"}
    BY <1>1, <1>3, <1>7, <2>1, <2>2 DEF AbstractSeen, absStatus
  <2>4. ASSUME NEW u \in Txn \ {t} PROVE AbstractSeen(u)' = AbstractSeen(u)
    BY <1>1, <1>3, <1>6, <2>1 DEF AbstractSeen
  <2> QED BY <2>3, <2>4 DEF absSeen
<1>12. absWrote' = absWrote
  <2>1. \A k \in Key : data[k][nextVersion] = Absent
    BY <1>1 DEF MVCCInv, MVCCTypeOK, DataIsAllocated
  <2>2. AbstractWrote(t)' = AbstractWrote(t)
    BY <1>1, <1>3, <1>7, <2>1 DEF AbstractWrote
  <2>3. \A u \in Txn \ {t} : AbstractWrote(u)' = AbstractWrote(u)
    BY <1>1, <1>3, <1>6 DEF AbstractWrote
  <2> QED BY <2>2, <2>3 DEF absWrote
<1>13. absPast' = Append(absPast, absDb)
  <2> DEFINE S == {absPast[v] : v \in 1..nextVersion - 1} \cup {absDb}
  <2>1. nextVersion - 1 \in Nat /\ absPast \in [1..nextVersion - 1 -> S]
    BY <1>1 DEF absPast
  <2>2. absPast \in Seq(S) /\ Len(absPast) = nextVersion - 1
    BY <2>1
  <2>3. absPast' = [v \in 1..nextVersion |-> absPast'[v]]
    BY <1>1 DEF absPast
  <2>4. absPast'[nextVersion] = absDb
    <3>1. nextVersion \in 1..nextVersion' - 1 /\ snapshot'[nextVersion] = active
      BY <1>1 DEF MVCCInv, MVCCTypeOK
    <3>2. absPast'[nextVersion]
            = [k \in Key |-> ReadAt(data'[k], nextVersion, snapshot'[nextVersion])]
      BY <1>4, <3>1 DEF MappedReads
    <3> QED BY <1>1, <1>4, <3>1, <3>2 DEF MappedReads
  <2>5. ASSUME NEW v \in 1..nextVersion - 1 PROVE absPast'[v] = absPast[v]
    <3>1. v \in 1..nextVersion' - 1 /\ snapshot'[v] = snapshot[v]
      BY <1>1 DEF MVCCInv, MVCCTypeOK
    <3>2. absPast'[v] = [k \in Key |-> ReadAt(data'[k], v, snapshot'[v])]
      BY <1>4, <3>1 DEF MappedReads
    <3> QED BY <1>1, <1>4, <3>1, <3>2 DEF MappedReads
  <2>6. absDb \in S
    OBVIOUS
  <2> HIDE DEF S
  <2>7. /\ Append(absPast, absDb) \in Seq(S) /\ Len(Append(absPast, absDb)) = nextVersion
        /\ \A v \in 1..nextVersion - 1 : Append(absPast, absDb)[v] = absPast[v]
        /\ Append(absPast, absDb)[nextVersion] = absDb
    BY <1>1, <2>2, <2>6, AppendProperties
  <2>8. Append(absPast, absDb) = [v \in 1..nextVersion |-> Append(absPast, absDb)[v]]
    BY <2>7, LenProperties
  <2>9. \A v \in 1..nextVersion : absPast'[v] = Append(absPast, absDb)[v]
    BY <1>1, <2>4, <2>5, <2>7
  <2> QED BY <2>3, <2>8, <2>9
<1> QED BY <1>7, <1>8, <1>9, <1>10, <1>11, <1>12, <1>13
        DEF SI!SIBegin, absStatus, absDb, absSnap, absSeen, absWrote, absPast

\* A read-only transaction at the present or in the past reads a snapshot.
LEMMA ReadRefines ==
    ASSUME MVCCInv, MVCCInv', NEW t \in Txn, NEW v \in 0..nextVersion, NEW a \in SUBSET Version,
           txn[t] = NoTxn,
           txn' = [txn EXCEPT ![t] = [version |-> v, readOnly |-> TRUE, active |-> a]],
           UNCHANGED <<engine, outcome>>
    PROVE  SI!SIRead(t, [k \in Key |-> ReadAt(data[k], v, a)])
<1> DEFINE new == [version |-> v, readOnly |-> TRUE, active |-> a]
           d == [k \in Key |-> ReadAt(data[k], v, a)]
<1>1. /\ nextVersion' = nextVersion /\ active' = active /\ snapshot' = snapshot
      /\ data' = data /\ outcome' = outcome
    BY DEF engine
<1>2. new # NoTxn
  <2>1. v \in 0..MaxVersion + 1 /\ TRUE \in BOOLEAN
    BY DEF MVCCInv, MVCCTypeOK
  <2> QED BY <2>1, NewTxnState
<1>3. /\ new.version = v /\ new.readOnly /\ new.active = a
      /\ txn'[t] = new /\ \A u \in Txn \ {t} : txn'[u] = txn[u]
    BY DEF MVCCInv, MVCCTypeOK
<1> HIDE DEF new
<1>4. MappedReads'
    BY MappedReadsNext
<1>5. outcome[t] = "none"
    BY DEF MVCCInv, OutcomesAreFinal, IsReadWrite
<1>6. \A u \in Txn \ {t} : AbstractStatus(u)' = AbstractStatus(u)
    BY <1>1, <1>3 DEF AbstractStatus
<1>7. AbstractStatus(t) = "idle" /\ AbstractStatus(t)' = "reading"
    BY <1>2, <1>3 DEF AbstractStatus
<1>8. absStatus' = [absStatus EXCEPT ![t] = "reading"]
    BY <1>6, <1>7 DEF absStatus
<1>9. absDb' = absDb /\ absPast' = absPast
    BY <1>1 DEF absDb, absPast, DbAt, Get, VisibleVersions, IsVisible
<1>10. absSnap' = [absSnap EXCEPT ![t] = d]
  <2>0. AbstractSnap(t)' = [k \in Key |-> ReadAt(data'[k], txn'[t].version, txn'[t].active)]
    BY <1>2, <1>3, <1>4 DEF MappedReads
  <2>1. AbstractSnap(t)' = d
    BY <1>1, <1>3, <2>0
  <2>2. \A u \in Txn \ {t} : AbstractSnap(u)' = AbstractSnap(u)
    BY <1>1, <1>3 DEF AbstractSnap, DbAt, Get, VisibleVersions, IsVisible
  <2> QED BY <2>1, <2>2 DEF absSnap
<1>11. absSeen' = absSeen
  <2>1. \A u \in Txn : outcome[u] = "committed" => u # t
    BY <1>5
  <2>2. AbstractSeen(t)' = AbstractSeen(t)
    BY <1>7 DEF AbstractSeen
  <2>3. ASSUME NEW u \in Txn \ {t} PROVE AbstractSeen(u)' = AbstractSeen(u)
    BY <1>1, <1>3, <1>6, <2>1 DEF AbstractSeen
  <2> QED BY <2>2, <2>3 DEF absSeen
<1>12. absWrote' = absWrote
  <2>1. AbstractWrote(t)' = AbstractWrote(t)
    BY <1>7 DEF AbstractWrote
  <2>2. \A u \in Txn \ {t} : AbstractWrote(u)' = AbstractWrote(u)
    BY <1>1, <1>3, <1>6 DEF AbstractWrote
  <2> QED BY <2>1, <2>2 DEF absWrote
<1> HIDE DEF d
<1> QED BY <1>7, <1>8, <1>9, <1>10, <1>11, <1>12
        DEF SI!SIRead, absStatus, absDb, absSnap, absSeen, absWrote, absPast, d

\* A write that finds no conflict is of a key that no concurrent transaction wrote.
LEMMA WriteRefines ==
    ASSUME MVCCInv, MVCCInv', NEW t \in Txn, NEW k \in Key, NEW x \in Value \cup {Deleted},
           Write(t, k, x)
    PROVE  SI!SIWrite(t, k, x)
<1> DEFINE n == txn[t].version
<1>1. /\ IsOpen(t) /\ ~WriteConflict(txn[t], k)
      /\ data' = [data EXCEPT ![k][n] = x]
      /\ nextVersion' = nextVersion /\ active' = active /\ snapshot' = snapshot
      /\ txn' = txn /\ outcome' = outcome
    BY DEF Write
<1>2. /\ n \in Version /\ n \in active /\ IsReadWrite(t)
    BY <1>1, OpenTxn
<1>3. /\ data'[k][n] = x
      /\ \A j \in Key, v \in Version : <<j, v>> # <<k, n>> => data'[j][v] = data[j][v]
    BY <1>1, <1>2 DEF MVCCInv, MVCCTypeOK
<1>4. absSnap' = absSnap /\ absPast' = absPast
    BY <1>1, <1>2, <1>3, SnapshotsAreStable
<1>5. absDb' = absDb
  <2>1. ASSUME NEW j \in Key
        PROVE  ReadAt(data'[j], nextVersion, active) = ReadAt(data[j], nextVersion, active)
    <3>1. \A w \in Version : w # n => data'[j][w] = data[j][w]
      BY <1>3
    <3>2. \A w \in Version : SeenAt(data'[j], nextVersion, active, w)
                               <=> SeenAt(data[j], nextVersion, active, w)
      BY <1>2, <3>1 DEF SeenAt
    <3>3. \A w \in Version : SeenAt(data'[j], nextVersion, active, w) => data'[j][w] = data[j][w]
      BY <1>2, <3>1 DEF SeenAt
    <3> QED BY <3>2, <3>3, SameRead
  <2> QED BY <1>1, <2>1, MappedReadsHold, MappedReadsNext DEF MappedReads
<1>6. absStatus' = absStatus /\ absSeen' = absSeen
    BY <1>1 DEF absStatus, absSeen, AbstractStatus, AbstractSeen
<1>7. absStatus[t] = "active"
    BY <1>2 DEF absStatus, AbstractStatus, IsReadWrite, MVCCInv, OutcomesAreFinal
<1>8. absWrote' = [absWrote EXCEPT ![t][k] = x]
  <2>1. \A u \in Txn : AbstractStatus(u)' = AbstractStatus(u)
    BY <1>1 DEF AbstractStatus
  <2>2. \A u \in Txn \ {t} : AbstractWrote(u)' = AbstractWrote(u)
    <3> SUFFICES ASSUME NEW u \in Txn \ {t}, AbstractStatus(u) \in {"active", "committed"}
                 PROVE  \A j \in Key : data'[j][txn[u].version] = data[j][txn[u].version]
      BY <1>1, <2>1 DEF AbstractWrote
    <3>1. IsReadWrite(u)
      BY DEF AbstractStatus, IsReadWrite
    <3>2. txn[u].version # n /\ txn[u].version \in Version
      BY <1>2, <3>1, TxnStateType
         DEF MVCCInv, MVCCTypeOK, VersionsAreUnique, StatesAreStored, IsReadWrite
    <3> QED BY <1>3, <3>2
  <2>3. AbstractWrote(t) = [j \in Key |-> data[j][n]]
    BY <1>7 DEF AbstractWrote, absStatus
  <2>4. AbstractWrote(t)' = [j \in Key |-> data'[j][n]]
    BY <1>1, <1>7, <2>1 DEF AbstractWrote, absStatus
  <2>5. AbstractWrote(t)' = [AbstractWrote(t) EXCEPT ![k] = x]
    BY <1>2, <1>3, <2>3, <2>4
  <2> QED BY <2>2, <2>5 DEF absWrote
<1>9. ASSUME NEW u \in Txn \ {t}, absWrote[u][k] # Absent
      PROVE  u \in absSeen[t]
  <2>1. AbstractStatus(u) \in {"active", "committed"} /\ data[k][txn[u].version] # Absent
    BY <1>9 DEF absWrote, AbstractWrote
  <2>2. IsReadWrite(u)
    BY <2>1 DEF AbstractStatus, IsReadWrite
  <2>3. txn[u].version # n /\ txn[u].version \in Version
    BY <1>2, <2>2, TxnStateType
       DEF MVCCInv, MVCCTypeOK, VersionsAreUnique, StatesAreStored, IsReadWrite
  <2>4. IsVisible(txn[t], txn[u].version)
    BY <1>1, <2>1, <2>3, ChainMeansFound DEF ConflictsAreFound
  <2>5. txn[u].version \notin txn[t].active /\ txn[u].version < n
    BY <1>2, <2>3, <2>4 DEF IsVisible, IsReadWrite
  <2>6. txn[u].version \notin active
    BY <2>5, <1>2 DEF MVCCInv, ActiveIsInLaterStates, IsReadWrite
  <2>7. outcome[u] = "committed"
    BY <2>1, <2>2, <2>6 DEF AbstractStatus, IsReadWrite, MVCCInv, MVCCTypeOK, OutcomesAreFinal
  <2> QED BY <1>7, <2>5, <2>7 DEF absSeen, AbstractSeen, absStatus
<1> QED BY <1>4, <1>5, <1>6, <1>7, <1>8, <1>9
        DEF SI!SIWrite, absStatus, absDb, absSnap, absSeen, absWrote, absPast

\* The statuses of a transaction that ends and of the others.
LEMMA EndStatus ==
    ASSUME MVCCInv, NEW t \in Txn, IsOpen(t), NEW o \in {"committed", "rolledback"},
           txn' = txn, outcome' = [outcome EXCEPT ![t] = o]
    PROVE  /\ outcome'[t] = o /\ \A u \in Txn \ {t} : outcome'[u] = outcome[u]
           /\ outcome[t] = "none"
           /\ AbstractStatus(t) = "active" /\ AbstractStatus(t)' = o
           /\ \A u \in Txn \ {t} : AbstractStatus(u)' = AbstractStatus(u)
           /\ absStatus' = [absStatus EXCEPT ![t] = o]
<1>1. IsReadWrite(t) /\ txn[t].version \in active
    BY OpenTxn
<1>2. outcome'[t] = o /\ \A u \in Txn \ {t} : outcome'[u] = outcome[u]
    BY DEF MVCCInv, MVCCTypeOK
<1>3. outcome[t] = "none"
    BY <1>1 DEF MVCCInv, OutcomesAreFinal
<1>4. AbstractStatus(t) = "active" /\ AbstractStatus(t)' = o
    BY <1>1, <1>2, <1>3 DEF AbstractStatus, IsReadWrite
<1>5. \A u \in Txn \ {t} : AbstractStatus(u)' = AbstractStatus(u)
    BY <1>2 DEF AbstractStatus
<1>6. absStatus' = [absStatus EXCEPT ![t] = o]
    BY <1>4, <1>5 DEF absStatus
<1> QED BY <1>2, <1>3, <1>4, <1>5, <1>6

\* Whoever ends, no transaction that has begun comes to have seen its writes.
LEMMA EndSeen ==
    ASSUME MVCCInv, NEW t \in Txn, IsOpen(t), NEW o \in {"committed", "rolledback"},
           txn' = txn, outcome' = [outcome EXCEPT ![t] = o]
    PROVE  absSeen' = absSeen
<1> SUFFICES ASSUME NEW u \in Txn PROVE AbstractSeen(u)' = AbstractSeen(u)
    BY DEF absSeen
<1> DEFINE ended == {"active", "committed", "rolledback"}
<1>1. AbstractStatus(u)' \in ended <=> AbstractStatus(u) \in ended
    BY EndStatus
<1>2. AbstractStatus(u) \in ended =>
        ~(txn[t].version \notin txn[u].active /\ txn[t].version < txn[u].version)
    BY OpenTxn DEF AbstractStatus, MVCCInv, ActiveIsInLaterStates
<1>3. \A w \in Txn \ {t} : outcome'[w] = "committed" <=> outcome[w] = "committed"
    BY EndStatus
<1>4. outcome[t] # "committed"
    BY EndStatus
<1> HIDE DEF ended
<1>5. ASSUME NEW w \in Txn
      PROVE  w \in AbstractSeen(u)' <=> w \in AbstractSeen(u)
  <2>1. CASE w = t
    BY <1>1, <1>2, <1>4, <2>1 DEF AbstractSeen, ended
  <2>2. CASE w # t
    BY <1>1, <1>3, <2>2 DEF AbstractSeen, ended
  <2> QED BY <2>1, <2>2
<1>6. AbstractSeen(u) \subseteq Txn /\ AbstractSeen(u)' \subseteq Txn
    BY DEF AbstractSeen
<1> QED BY <1>5, <1>6

\* Commit makes the transaction's writes, all of them the latest versions of
\* their keys, part of the database at once.
LEMMA CommitRefines ==
    ASSUME MVCCInv, MVCCInv', NEW t \in Txn, Commit(t)
    PROVE  SI!SICommit(t)
<1> DEFINE n == txn[t].version
<1>1. /\ IsOpen(t) /\ active' = active \ {n}
      /\ outcome' = [outcome EXCEPT ![t] = "committed"]
      /\ nextVersion' = nextVersion /\ snapshot' = snapshot /\ data' = data /\ txn' = txn
    BY DEF Commit
<1>2. n \in Version /\ n \in active /\ n \in 1..nextVersion - 1 /\ nextVersion \in Nat
    BY <1>1, OpenTxn DEF MVCCInv, MVCCTypeOK
<1>3. /\ AbstractStatus(t) = "active" /\ AbstractStatus(t)' = "committed"
      /\ \A u \in Txn \ {t} : AbstractStatus(u)' = AbstractStatus(u)
      /\ absStatus' = [absStatus EXCEPT ![t] = "committed"]
    BY <1>1, EndStatus
<1>4. absSnap' = absSnap /\ absPast' = absPast
    BY <1>1, <1>2, SnapshotsAreStable
<1>5. absSeen' = absSeen
    BY <1>1, EndSeen
<1>6. absWrote' = absWrote
    BY <1>1, <1>3 DEF absWrote, AbstractWrote
<1>7. absWrote[t] = [k \in Key |-> data[k][n]]
    BY <1>3 DEF absWrote, AbstractWrote
<1> HIDE DEF n
<1>8. ASSUME NEW k \in Key
      PROVE  ReadAt(data[k], nextVersion, active \ {n})
               = IF data[k][n] = Absent THEN ReadAt(data[k], nextVersion, active) ELSE data[k][n]
  <2>1. CASE data[k][n] = Absent
    <3>1. \A w \in Version : SeenAt(data[k], nextVersion, active \ {n}, w)
                               <=> SeenAt(data[k], nextVersion, active, w)
      BY <2>1 DEF SeenAt
    <3> QED BY <2>1, <3>1, SameRead
  <2>2. CASE data[k][n] # Absent
    <3>1. SeenAt(data[k], nextVersion, active \ {n}, n)
      BY <1>2, <2>2 DEF SeenAt
    <3>2. \A w \in Version : data[k][w] # Absent => w <= n
      BY <1>2, <2>2, ChainMeansLatest DEF UncommittedIsLatest
    <3>3. \A w \in Version : SeenAt(data[k], nextVersion, active \ {n}, w) => w <= n
      BY <3>2 DEF SeenAt
    <3> QED BY <1>2, <2>2, <3>1, <3>3, ReadLatest
  <2> QED BY <2>1, <2>2
<1>9. absDb' = [k \in Key |-> IF absWrote[t][k] = Absent THEN absDb[k] ELSE absWrote[t][k]]
  <2>1. absDb = [k \in Key |-> ReadAt(data[k], nextVersion, active)]
    BY MappedReadsHold DEF MappedReads
  <2>2. absDb' = [k \in Key |-> ReadAt(data[k], nextVersion, active \ {n})]
    BY <1>1, MappedReadsNext DEF MappedReads
  <2> QED BY <1>7, <1>8, <2>1, <2>2
<1>10. absStatus[t] = "active"
    BY <1>3 DEF absStatus
<1> QED BY <1>3, <1>4, <1>5, <1>6, <1>9, <1>10
        DEF SI!SICommit, absStatus, absDb, absSnap, absSeen, absWrote, absPast

\* Rollback leaves nothing of the transaction's writes.
LEMMA RollbackRefines ==
    ASSUME MVCCInv, MVCCInv', NEW t \in Txn, Rollback(t)
    PROVE  SI!SIRollback(t)
<1> DEFINE n == txn[t].version
<1>1. /\ IsOpen(t) /\ active' = active \ {n}
      /\ outcome' = [outcome EXCEPT ![t] = "rolledback"]
      /\ nextVersion' = nextVersion /\ snapshot' = snapshot /\ txn' = txn
    BY DEF Rollback
<1>2. n \in Version /\ n \in active /\ IsReadWrite(t)
    BY <1>1, OpenTxn
<1>3. /\ AbstractStatus(t) = "active" /\ AbstractStatus(t)' = "rolledback"
      /\ \A u \in Txn \ {t} : AbstractStatus(u)' = AbstractStatus(u)
      /\ absStatus' = [absStatus EXCEPT ![t] = "rolledback"]
    BY <1>1, EndStatus
<1>4. /\ \A k \in Key, v \in Version : v # n => data'[k][v] = data[k][v]
      /\ \A k \in Key : data'[k][n] = Absent
  <2>1. data' = [k \in Key |-> [data[k] EXCEPT ![n] = IF <<n, k>> \in writes THEN Absent ELSE @]]
    BY DEF Rollback
  <2>2. \A k \in Key : n \in DOMAIN data[k]
    BY <1>2 DEF MVCCInv, MVCCTypeOK
  <2>3. \A k \in Key : <<n, k>> \notin writes => data[k][n] = Absent
    BY <1>2 DEF MVCCInv, WriteRecordsAreExact
  <2> HIDE DEF n
  <2> QED BY <2>1, <2>2, <2>3
<1>5. absSnap' = absSnap /\ absPast' = absPast
    BY <1>1, <1>2, <1>4, SnapshotsAreStable
<1>6. absSeen' = absSeen
    BY <1>1, EndSeen
<1>7. absDb' = absDb
  <2>1. ASSUME NEW k \in Key
        PROVE  ReadAt(data'[k], nextVersion, active \ {n}) = ReadAt(data[k], nextVersion, active)
    <3>1. \A w \in Version : SeenAt(data'[k], nextVersion, active \ {n}, w)
                               <=> SeenAt(data[k], nextVersion, active, w)
      BY <1>2, <1>4 DEF SeenAt
    <3>2. \A w \in Version : SeenAt(data'[k], nextVersion, active \ {n}, w)
                               => data'[k][w] = data[k][w]
      BY <1>4 DEF SeenAt
    <3>3. PICK row, act : row = data'[k] /\ act = active \ {n}
      OBVIOUS
    <3>4. PICK old, v, open : old = data[k] /\ v = nextVersion /\ open = active
      OBVIOUS
    <3>5. \A w \in Version : SeenAt(row, v, act, w) <=> SeenAt(old, v, open, w)
      BY <3>1, <3>3, <3>4
    <3>6. \A w \in Version : SeenAt(row, v, act, w) => row[w] = old[w]
      BY <3>2, <3>3, <3>4
    <3>7. ReadAt(row, v, act) = ReadAt(old, v, open)
      BY <3>5, <3>6, SameRead
    <3> QED BY <3>3, <3>4, <3>7
  <2>2. absDb = [k \in Key |-> ReadAt(data[k], nextVersion, active)]
    BY MappedReadsHold DEF MappedReads
  <2>3. absDb' = [k \in Key |-> ReadAt(data'[k], nextVersion, active \ {n})]
    BY <1>1, MappedReadsNext DEF MappedReads
  <2> QED BY <2>1, <2>2, <2>3
<1>8. absWrote' = [absWrote EXCEPT ![t] = [k \in Key |-> Absent]]
  <2>1. AbstractWrote(t)' = [k \in Key |-> Absent]
    BY <1>3 DEF AbstractWrote
  <2>2. \A u \in Txn \ {t} : AbstractWrote(u)' = AbstractWrote(u)
    <3> SUFFICES ASSUME NEW u \in Txn \ {t}, AbstractStatus(u) \in {"active", "committed"}
                 PROVE  \A j \in Key : data'[j][txn[u].version] = data[j][txn[u].version]
      BY <1>1, <1>3 DEF AbstractWrote
    <3>1. IsReadWrite(u)
      BY DEF AbstractStatus, IsReadWrite
    <3>2. txn[u].version # n /\ txn[u].version \in Version
      BY <1>2, <3>1, TxnStateType
         DEF MVCCInv, MVCCTypeOK, VersionsAreUnique, StatesAreStored, IsReadWrite
    <3> QED BY <1>4, <3>2
  <2> QED BY <2>1, <2>2 DEF absWrote
<1>9. absStatus[t] = "active"
    BY <1>3 DEF absStatus
<1> QED BY <1>3, <1>5, <1>6, <1>7, <1>8, <1>9
        DEF SI!SIRollback, SI!NoWrites, absStatus, absDb, absSnap, absSeen, absWrote, absPast

-----------------------------------------------------------------------------
(* The refinement.                                                         *)

\* Every step maps to a step of snapshot isolation, or to none.
LEMMA NextRefines ==
    ASSUME MVCCInv, MVCCInv', [MVCCNext]_mvccVars
    PROVE  [SI!SINext]_(SI!siVars)
<1>1. CASE UNCHANGED mvccVars
  <2>1. /\ absStatus' = absStatus /\ absDb' = absDb /\ absSnap' = absSnap
        /\ absSeen' = absSeen /\ absWrote' = absWrote /\ absPast' = absPast
    BY <1>1 DEF mvccVars, absStatus, absDb, absSnap, absSeen, absWrote, absPast,
                AbstractStatus, AbstractSnap, AbstractSeen, AbstractWrote,
                DbAt, Get, VisibleVersions, IsVisible
  <2> QED BY <2>1 DEF SI!siVars, absStatus, absDb, absSnap, absSeen, absWrote, absPast
<1>2. ASSUME NEW t \in Txn, Begin(t) PROVE SI!SINext
    BY <1>2, BeginRefines DEF SI!SINext
<1>3. ASSUME NEW t \in Txn, BeginReadOnly(t) PROVE SI!SINext
  <2>1. nextVersion \in 0..nextVersion /\ active \in SUBSET Version
    BY DEF MVCCInv, MVCCTypeOK
  <2>2. SI!SIRead(t, [k \in Key |-> ReadAt(data[k], nextVersion, active)])
    BY <1>3, <2>1, ReadRefines DEF BeginReadOnly
  <2>3. SI!SIRead(t, DbAt(nextVersion, active))
    BY <2>2, MappedReadsHold DEF MappedReads, absDb
  <2> QED BY <2>3 DEF SI!SINext
<1>4. ASSUME NEW t \in Txn, NEW v \in 0..MaxVersion, BeginAsOf(t, v) PROVE SI!SINext
  <2>1. v \in 0..nextVersion /\ v < nextVersion /\ nextVersion \in Nat
    BY <1>4 DEF BeginAsOf, MVCCInv, MVCCTypeOK
  <2>2. CASE v = 0
    <3>1. SI!SIRead(t, [k \in Key |-> ReadAt(data[k], 0, {})])
      BY <1>4, <2>1, <2>2, ReadRefines DEF BeginAsOf
    <3>2. [k \in Key |-> ReadAt(data[k], 0, {})] = SI!EmptyDb
      BY ReadNothing DEF SI!EmptyDb
    <3> QED BY <3>1, <3>2 DEF SI!SINext
  <2>3. CASE v # 0
    <3>1. v \in 1..nextVersion - 1 /\ snapshot[v] \in SUBSET Version
      BY <2>1, <2>3 DEF MVCCInv, MVCCTypeOK
    <3>2. SI!SIRead(t, [k \in Key |-> ReadAt(data[k], v, snapshot[v])])
      BY <1>4, <2>1, <2>3, <3>1, ReadRefines DEF BeginAsOf
    <3>3. SI!SIRead(t, absPast[v])
      BY <3>1, <3>2, MappedReadsHold DEF MappedReads
    <3>4. Len(absPast) = nextVersion - 1
      BY <2>1 DEF absPast
    <3> QED BY <3>1, <3>3, <3>4 DEF SI!SINext, absPast
  <2> QED BY <2>2, <2>3
<1>5. ASSUME NEW t \in Txn, NEW k \in Key, NEW x \in Value \cup {Deleted}, Write(t, k, x)
      PROVE SI!SINext
    BY <1>5, WriteRefines DEF SI!SINext
<1>6. ASSUME NEW t \in Txn, Commit(t) PROVE SI!SINext
    BY <1>6, CommitRefines DEF SI!SINext
<1>7. ASSUME NEW t \in Txn, Rollback(t) PROVE SI!SINext
    BY <1>7, RollbackRefines DEF SI!SINext
<1> QED BY <1>1, <1>2, <1>3, <1>4, <1>5, <1>6, <1>7 DEF MVCCNext

\* MVCC is snapshot isolation: reads are of the committed database at the
\* transaction's start, commits are atomic, rollbacks leave no trace, of two
\* concurrent writers of a key only one can write it, and time-travel reads are
\* of what the transaction of that version saw.
THEOREM MVCCIsSnapshotIsolation == MVCCSpec => ImplementsSnapshotIsolation
<1>1. MVCCInit => SI!SIInit
    BY InitRefines
<1>2. MVCCInv /\ MVCCInv' /\ [MVCCNext]_mvccVars => [SI!SINext]_(SI!siVars)
    BY NextRefines
<1> QED BY <1>1, <1>2, InvHolds, PTL DEF MVCCSpec, ImplementsSnapshotIsolation, SI!SISpec

-----------------------------------------------------------------------------
(* Scans (MVCCScan).  A listing is a sequence of keys with their values;   *)
(* a scan has listed the live keys before the place where it goes on.      *)

\* The members of a finite set of keys in order: each once, smaller ones first.
LEMMA SortedFacts ==
    ASSUME NEW S, S \subseteq Nat, IsFiniteSet(S)
    PROVE  /\ Cardinality(S) \in Nat
           /\ Sorted(S) = [i \in 1..Cardinality(S) |-> Sorted(S)[i]]
           /\ \A i \in 1..Cardinality(S) : Sorted(S)[i] \in S
           /\ \A k \in S : \E i \in 1..Cardinality(S) : Sorted(S)[i] = k
           /\ \A i, j \in 1..Cardinality(S) : i < j => Sorted(S)[i] < Sorted(S)[j]
<1> DEFINE rank(p) == Cardinality({m \in S : m <= p})
           at(i) == CHOOSE k \in S : rank(k) = i
<1>1. PICK c : c = Cardinality(S)
    OBVIOUS
<1>2. /\ c \in Nat
      /\ \A p \in S : rank(p) \in 1..c
      /\ \A p, q \in S : p < q => rank(p) < rank(q)
      /\ \A p, q \in S : rank(p) = rank(q) => p = q
      /\ \A i \in 1..c : \E p \in S : rank(p) = i
    BY <1>1, Ranks
<1>3. Sorted(S) = [i \in 1..c |-> at(i)]
    BY <1>1 DEF Sorted
<1> HIDE DEF rank
<1>4. \A i \in 1..c : at(i) \in S /\ rank(at(i)) = i
    BY <1>2
<1>5. ASSUME NEW k \in S PROVE at(rank(k)) = k
  <2>1. rank(k) \in 1..c
    BY <1>2
  <2> QED BY <1>2, <1>4, <2>1
<1> HIDE DEF at
<1>6. ASSUME NEW i \in 1..c, NEW j \in 1..c, i < j PROVE at(i) < at(j)
  <2>1. PICK p \in S, q \in S : p = at(i) /\ q = at(j) /\ rank(p) = i /\ rank(q) = j
    BY <1>4
  <2>2. p \in Int /\ q \in Int /\ i \in Int /\ j \in Int
    BY <1>2
  <2>3. p # q /\ ~(q < p)
    <3>1. q < p => j < i
      BY <1>2, <2>1
    <3> QED BY <1>6, <2>1, <2>2, <3>1
  <2> QED BY <2>1, <2>2, <2>3
<1>7. \A i \in 1..c : Sorted(S)[i] = at(i)
    BY <1>3
<1>8. Sorted(S) = [i \in 1..c |-> Sorted(S)[i]]
    BY <1>3, <1>7
<1>9. \A i, j \in 1..c : i < j => Sorted(S)[i] < Sorted(S)[j]
    BY <1>6, <1>7
<1>10. \A k \in S : \E i \in 1..c : Sorted(S)[i] = k
    BY <1>2, <1>5, <1>7
<1> QED BY <1>1, <1>2, <1>4, <1>7, <1>8, <1>9, <1>10, Zenon

-----------------------------------------------------------------------------
\* q lists the keys in L, in order, with the values that g gives them.
Listing(q, L, g) ==
    /\ q \in Seq(L \X {g[k] : k \in L})
    /\ \A i \in 1..Len(q) : q[i][1] \in L /\ q[i] = <<q[i][1], g[q[i][1]]>>
    /\ \A i, j \in 1..Len(q) : i < j => q[i][1] < q[j][1]
    /\ \A k \in L : \E i \in 1..Len(q) : q[i][1] = k

\* A function of the first numbers is a sequence.
LEMMA FunctionIsSeq ==
    ASSUME NEW S, NEW n \in Nat, NEW f \in [1..n -> S]
    PROVE  f \in Seq(S) /\ Len(f) = n
OBVIOUS

\* The keys of a set in order, each with its value, list the set.
LEMMA ListingOfSorted ==
    ASSUME NEW S, S \subseteq Nat, IsFiniteSet(S), NEW g, NEW q,
           q = [i \in DOMAIN Sorted(S) |-> <<Sorted(S)[i], g[Sorted(S)[i]]>>]
    PROVE  Listing(q, S, g)
<1>1. PICK c, o : c = Cardinality(S) /\ o = Sorted(S)
    OBVIOUS
<1>2. /\ c \in Nat /\ o = [i \in 1..c |-> o[i]]
      /\ \A i \in 1..c : o[i] \in S
      /\ \A k \in S : \E i \in 1..c : o[i] = k
      /\ \A i, j \in 1..c : i < j => o[i] < o[j]
    BY <1>1, SortedFacts
<1>3. q = [i \in 1..c |-> <<o[i], g[o[i]]>>]
    BY <1>1, <1>2
<1>4. q \in [1..c -> S \X {g[k] : k \in S}]
    BY <1>2, <1>3
<1>5. q \in Seq(S \X {g[k] : k \in S}) /\ Len(q) = c
  <2>1. PICK T : T = S \X {g[k] : k \in S}
    OBVIOUS
  <2>2. q \in [1..c -> T] /\ c \in Nat
    BY <1>2, <1>4, <2>1
  <2>3. q \in Seq(T) /\ Len(q) = c
    BY <2>2, FunctionIsSeq
  <2> QED BY <2>1, <2>3
<1>6. ASSUME NEW i \in 1..c PROVE q[i] = <<o[i], g[o[i]]>> /\ q[i][1] = o[i]
    BY <1>3
<1>7. \A i \in 1..c : q[i][1] \in S /\ q[i] = <<q[i][1], g[q[i][1]]>>
    BY <1>2, <1>6, Zenon
<1>8. \A i, j \in 1..c : i < j => q[i][1] < q[j][1]
  <2> SUFFICES ASSUME NEW i \in 1..c, NEW j \in 1..c, i < j PROVE q[i][1] < q[j][1]
    OBVIOUS
  <2>1. q[i][1] = o[i] /\ q[j][1] = o[j]
    BY <1>6
  <2>2. o[i] < o[j]
    BY <1>2
  <2> QED BY <2>1, <2>2, Zenon
<1>9. ASSUME NEW k \in S PROVE \E i \in 1..c : q[i][1] = k
  <2>1. PICK i \in 1..c : o[i] = k
    BY <1>2
  <2> QED BY <1>6, <2>1, Zenon
<1> QED BY <1>5, <1>7, <1>8, <1>9, Zenon DEF Listing

\* Two listings with the second beginning after the first make a listing.
LEMMA ListingConcat ==
    ASSUME NEW L, NEW M, NEW g, NEW p, NEW q, Listing(p, L, g), Listing(q, M, g),
           L \subseteq Nat, M \subseteq Nat, \A k \in L, m \in M : k < m
    PROVE  Listing(p \o q, L \cup M, g)
<1> DEFINE T == (L \cup M) \X {g[k] : k \in L \cup M}
           r == p \o q
<1>1. p \in Seq(T) /\ q \in Seq(T)
  <2>1. p \in Seq(L \X {g[k] : k \in L}) /\ q \in Seq(M \X {g[k] : k \in M})
    BY DEF Listing
  <2>2. L \X {g[k] : k \in L} \subseteq T /\ M \X {g[k] : k \in M} \subseteq T
    OBVIOUS
  <2> HIDE DEF T
  <2> QED BY <2>1, <2>2, SeqMonotonic
<1> HIDE DEF T
<1>2. PICK a, b : a = Len(p) /\ b = Len(q) /\ a \in Nat /\ b \in Nat
    BY <1>1, LenProperties
<1>3. /\ r \in Seq(T) /\ Len(r) = a + b
      /\ \A i \in 1..a + b : r[i] = IF i <= a THEN p[i] ELSE q[i - a]
    BY <1>1, <1>2, ConcatProperties
<1> HIDE DEF r
<1>4. /\ \A i \in 1..a : p[i][1] \in L /\ p[i] = <<p[i][1], g[p[i][1]]>>
      /\ \A i, j \in 1..a : i < j => p[i][1] < p[j][1]
      /\ \A k \in L : \E i \in 1..a : p[i][1] = k
    BY <1>2 DEF Listing
<1>5. /\ \A i \in 1..b : q[i][1] \in M /\ q[i] = <<q[i][1], g[q[i][1]]>>
      /\ \A i, j \in 1..b : i < j => q[i][1] < q[j][1]
      /\ \A k \in M : \E i \in 1..b : q[i][1] = k
    BY <1>2 DEF Listing
<1>6. \A i \in 1..a : i \in 1..a + b /\ r[i] = p[i]
    BY <1>2, <1>3
<1>7. ASSUME NEW i \in 1..b PROVE a + i \in 1..a + b /\ r[a + i] = q[i]
  <2>1. a + i \in 1..a + b /\ ~(a + i <= a) /\ a + i - a = i
    BY <1>2
  <2>2. PICK n \in 1..a + b : n = a + i
    BY <2>1
  <2>3. r[n] = IF n <= a THEN p[n] ELSE q[n - a]
    BY <1>3
  <2>4. ~(n <= a) /\ n - a = i
    BY <1>2, <2>1, <2>2
  <2> QED BY <2>1, <2>2, <2>3, <2>4
<1>8. \A i \in 1..a + b : i \in 1..a \/ (i - a \in 1..b /\ r[i] = q[i - a])
    BY <1>2, <1>3
<1>9. \A i \in 1..a + b : r[i][1] \in L \cup M /\ r[i] = <<r[i][1], g[r[i][1]]>>
    BY <1>4, <1>5, <1>6, <1>8
<1>10. ASSUME NEW i \in 1..a + b, NEW j \in 1..a + b, i < j PROVE r[i][1] < r[j][1]
  <2>1. CASE i \in 1..a /\ j \in 1..a
    BY <1>4, <1>6, <1>10, <2>1
  <2>2. CASE i \in 1..a /\ j \notin 1..a
    <3>1. r[i][1] \in L
      BY <1>4, <1>6, <2>2
    <3>2. r[j][1] \in M
      BY <1>5, <1>8, <2>2
    <3> QED BY <3>1, <3>2
  <2>3. CASE i \notin 1..a /\ j \notin 1..a
    <3>1. PICK m \in 1..b, n \in 1..b : m = i - a /\ n = j - a /\ r[i] = q[m] /\ r[j] = q[n]
      BY <1>8, <2>3
    <3>2. m < n
      BY <1>2, <1>10, <3>1
    <3> QED BY <1>5, <3>1, <3>2
  <2>4. CASE i \notin 1..a /\ j \in 1..a
    BY <1>2, <1>10, <2>4
  <2> QED BY <2>1, <2>2, <2>3, <2>4
<1>11. \A k \in L \cup M : \E i \in 1..a + b : r[i][1] = k
    BY <1>4, <1>5, <1>6, <1>7
<1> QED BY <1>3, <1>9, <1>10, <1>11 DEF Listing, r, T

UpTo(L, last) == {k \in L : k <= last}

\* r lists the keys of L up to the one at position n of q.
IsStart(r, q, n, L, g) == Listing(r, UpTo(L, q[n][1]), g) /\ Len(r) = n

\* The beginning of a listing is one of the keys up to its last.
LEMMA ListingStart ==
    ASSUME NEW L, NEW g, NEW q, NEW n,
           Listing(q, L, g), L \subseteq Nat, n \in 1..Len(q)
    PROVE  IsStart(SubSeq(q, 1, n), q, n, L, g)
<1>1. PICK last, r, c : last = q[n][1] /\ r = SubSeq(q, 1, n) /\ c = Len(q)
    OBVIOUS
<1>2. PICK M : M = {k \in L : k <= last} /\ M = UpTo(L, q[n][1])
    BY <1>1 DEF UpTo
<1>3. /\ q \in Seq(L \X {g[k] : k \in L}) /\ c \in Nat /\ n \in 1..c
      /\ \A i \in 1..c : q[i][1] \in L /\ q[i] = <<q[i][1], g[q[i][1]]>>
      /\ \A i, j \in 1..c : i < j => q[i][1] < q[j][1]
      /\ \A k \in L : \E i \in 1..c : q[i][1] = k
    BY <1>1, LenProperties DEF Listing
<1>4. \A i \in 1..n : i \in 1..c /\ q[i][1] \in M
  <2> SUFFICES ASSUME NEW i \in 1..n PROVE i \in 1..c /\ q[i][1] \in M
    OBVIOUS
  <2>1. i \in 1..c /\ (i < n \/ i = n)
    BY <1>3
  <2>2. q[i][1] \in L /\ last \in L /\ (q[i][1] < last \/ q[i][1] = last)
    BY <1>1, <1>3, <2>1
  <2>3. q[i][1] <= last
    <3>1. q[i][1] \in Nat /\ last \in Nat
      BY <2>2
    <3> QED BY <2>2, <3>1
  <2> QED BY <1>2, <2>1, <2>2, <2>3
<1>5. \A i \in 1..n : q[i] \in M \X {g[k] : k \in M}
  <2> SUFFICES ASSUME NEW i \in 1..n PROVE q[i] \in M \X {g[k] : k \in M}
    OBVIOUS
  <2>1. PICK k \in M : q[i] = <<k, g[k]>>
    BY <1>3, <1>4
  <2> QED BY <2>1
<1>6. /\ r \in Seq(M \X {g[k] : k \in M}) /\ Len(r) = n
      /\ \A i \in 1..n : r[i] = q[i]
  <2>1. n \in Int /\ 1 \in Int /\ 1 <= n /\ n - 1 + 1 = n
    BY <1>3
  <2>2. /\ r \in Seq(M \X {g[k] : k \in M}) /\ Len(r) = n - 1 + 1
        /\ \A i \in 1..n - 1 + 1 : r[i] = q[1 + i - 1]
    BY <1>1, <1>5, <2>1, SubSeqProperties
  <2>3. \A i \in 1..n : 1 + i - 1 = i
    OBVIOUS
  <2> QED BY <2>1, <2>2, <2>3
<1>7. \A k \in M : \E i \in 1..n : q[i][1] = k
  <2> SUFFICES ASSUME NEW k \in M PROVE \E i \in 1..n : q[i][1] = k
    OBVIOUS
  <2>1. k \in L /\ k <= last
    BY <1>2
  <2>2. PICK i \in 1..c : q[i][1] = k
    BY <1>3, <2>1
  <2>3. n < i => last < k
    BY <1>1, <1>3, <2>2
  <2>4. last \in Nat /\ k \in Nat
    BY <1>1, <1>3, <2>1
  <2>5. i \in 1..n
    BY <1>3, <2>1, <2>3, <2>4
  <2> QED BY <2>2, <2>5
<1>8. \A i \in 1..n : r[i][1] \in M /\ r[i] = <<r[i][1], g[r[i][1]]>>
    BY <1>3, <1>4, <1>6
<1>9. \A i, j \in 1..n : i < j => r[i][1] < r[j][1]
    BY <1>3, <1>4, <1>6
<1>10. Listing(r, M, g)
    BY <1>6, <1>7, <1>8, <1>9 DEF Listing
<1> QED BY <1>1, <1>2, <1>6, <1>10 DEF IsStart

IsBeginning(q, r) == Len(q) <= Len(r) /\ q = SubSeq(r, 1, Len(q))

\* A listing of the first keys of S is the beginning of the listing of S.
LEMMA ListingIsStart ==
    ASSUME NEW S, S \subseteq Nat, NEW L \in SUBSET S, NEW g, NEW q, NEW r,
           Listing(q, L, g), Listing(r, S, g),
           \A k \in L, m \in S : m < k => m \in L
    PROVE  IsBeginning(q, r) /\ (L = S => q = r)
<1>1. PICK a, b : a = Len(q) /\ b = Len(r)
    OBVIOUS
<1>2. /\ q \in Seq(L \X {g[k] : k \in L}) /\ a \in Nat
      /\ \A i \in 1..a : q[i][1] \in L /\ q[i] = <<q[i][1], g[q[i][1]]>>
      /\ \A i, j \in 1..a : i < j => q[i][1] < q[j][1]
      /\ \A k \in L : \E i \in 1..a : q[i][1] = k
    BY <1>1, LenProperties DEF Listing
<1>3. /\ r \in Seq(S \X {g[k] : k \in S}) /\ b \in Nat
      /\ \A i \in 1..b : r[i][1] \in S /\ r[i] = <<r[i][1], g[r[i][1]]>>
      /\ \A i, j \in 1..b : i < j => r[i][1] < r[j][1]
      /\ \A k \in S : \E i \in 1..b : r[i][1] = k
    BY <1>1, LenProperties DEF Listing
<1>4. \A i \in 1..a : i <= b /\ q[i][1] = r[i][1]
  <2> DEFINE bad == {i \in 1..a : ~(i <= b /\ q[i][1] = r[i][1])}
  <2> SUFFICES ASSUME bad # {} PROVE FALSE
    OBVIOUS
  <2>1. PICK i \in bad : \A j \in bad : i <= j
    <3>1. bad \subseteq Nat
      BY <1>2
    <3> HIDE DEF bad
    <3> QED BY <3>1, HasMinimum
  <2>2. i \in 1..a /\ ~(i <= b /\ q[i][1] = r[i][1])
    OBVIOUS
  <2>3. \A j \in 1..a : j < i => j <= b /\ q[j][1] = r[j][1]
    BY <1>2, <2>1
  <2> HIDE DEF bad
  <2>4. q[i][1] \in S /\ q[i][1] \in Nat
    BY <1>2, <2>2
  <2>5. PICK j \in 1..b : r[j][1] = q[i][1]
    BY <1>3, <2>4
  <2>6. ~(j < i)
    <3> SUFFICES ASSUME j < i PROVE FALSE
      OBVIOUS
    <3>1. j \in 1..a
      BY <1>2, <1>3, <2>2
    <3>2. q[j][1] = q[i][1] /\ q[j][1] < q[i][1]
      BY <1>2, <2>2, <2>3, <2>5, <3>1
    <3> QED BY <2>4, <3>2
  <2>7. i < j /\ i \in 1..b
    BY <1>2, <1>3, <2>2, <2>5, <2>6
  <2>8. r[i][1] < q[i][1] /\ r[i][1] \in S
    BY <1>3, <2>5, <2>7
  <2>9. PICK m \in 1..a : q[m][1] = r[i][1]
    BY <1>2, <2>2, <2>8
  <2>10. m < i
    <3>1. i < m => q[i][1] < q[m][1]
      BY <1>2, <2>2
    <3>2. q[m][1] < q[i][1] /\ q[m][1] \in Nat
      BY <2>8, <2>9
    <3>3. ~(i < m) /\ i # m
      BY <2>4, <3>1, <3>2
    <3> QED BY <1>2, <2>2, <3>3
  <2>11. m \in 1..b /\ r[m][1] = r[i][1] /\ r[m][1] < r[i][1]
    BY <1>3, <2>3, <2>7, <2>9, <2>10
  <2>12. r[i][1] \in Nat
    BY <2>8
  <2> QED BY <2>11, <2>12
<1>5. a <= b
  <2>1. CASE a = 0
    BY <1>3, <2>1
  <2>2. CASE a # 0
    <3>1. a \in 1..a
      BY <1>2, <2>2
    <3> QED BY <1>4, <3>1
  <2> QED BY <2>1, <2>2
<1>6. ASSUME NEW i \in 1..a PROVE q[i] = r[i] /\ i \in 1..b
  <2>1. i \in 1..b /\ q[i][1] = r[i][1]
    BY <1>2, <1>3, <1>4
  <2>2. q[i] = <<q[i][1], g[q[i][1]]>> /\ r[i] = <<r[i][1], g[r[i][1]]>>
    BY <1>2, <1>3, <2>1
  <2> QED BY <2>1, <2>2, Zenon
<1>7. /\ SubSeq(r, 1, a) \in Seq(S \X {g[k] : k \in S}) /\ Len(SubSeq(r, 1, a)) = a
      /\ \A i \in 1..a : SubSeq(r, 1, a)[i] = r[i]
  <2>1. \A i \in 1..a : r[i] \in S \X {g[k] : k \in S}
    BY <1>1, <1>3, <1>6, ElementOfSeq
  <2>2. a \in Int /\ a - 1 + 1 = a /\ (IF 1 <= a THEN a - 1 + 1 ELSE 0) = a
    BY <1>2
  <2>3. /\ SubSeq(r, 1, a) \in Seq(S \X {g[k] : k \in S})
        /\ Len(SubSeq(r, 1, a)) = (IF 1 <= a THEN a - 1 + 1 ELSE 0)
        /\ \A i \in 1..a - 1 + 1 : SubSeq(r, 1, a)[i] = r[1 + i - 1]
    BY <2>1, <2>2, SubSeqProperties
  <2>4. \A i \in 1..a : 1 + i - 1 = i
    OBVIOUS
  <2> QED BY <2>2, <2>3, <2>4
<1>8. q \in Seq(S \X {g[k] : k \in S})
  <2>1. PICK T, U : T = L \X {g[k] : k \in L} /\ U = S \X {g[k] : k \in S}
    OBVIOUS
  <2>2. T \subseteq U
    BY <2>1
  <2>3. q \in Seq(T)
    BY <1>2, <2>1
  <2>4. q \in Seq(U)
    BY <2>2, <2>3, SeqMonotonic
  <2> QED BY <2>1, <2>4
<1>9. q = SubSeq(r, 1, a)
    BY <1>1, <1>6, <1>7, <1>8, SeqEqual
<1>10. ASSUME L = S PROVE q = r
  <2>1. a = b
    <3> SUFFICES ASSUME a < b PROVE FALSE
      BY <1>2, <1>3, <1>5
    <3>0. a + 1 \in 1..b
      BY <1>2, <1>3
    <3>1. r[a + 1][1] \in L /\ r[a + 1][1] \in Nat
      BY <1>3, <1>10, <3>0
    <3>2. PICK i \in 1..a : q[i][1] = r[a + 1][1]
      BY <1>2, <3>1
    <3>3. i \in 1..b /\ i < a + 1 /\ r[i][1] = r[a + 1][1]
      BY <1>2, <1>6, <3>2
    <3>4. r[i][1] < r[a + 1][1]
      BY <1>3, <3>0, <3>3
    <3> QED BY <3>1, <3>3, <3>4
  <2> QED BY <1>1, <1>3, <1>6, <1>8, <2>1, SeqEqual
<1> QED BY <1>1, <1>5, <1>9, <1>10 DEF IsBeginning

-----------------------------------------------------------------------------
(* What a scan lists.                                                      *)

USE KeyAssumption

\* A scan that is promised the snapshot: of a read-only transaction, or of one
\* that goes on and has not written.
Eligible(t) == txn[t] # NoTxn /\ (txn[t].readOnly \/ (IsOpen(t) /\ ~HasWritten(t)))

Sees(s, k, v) == data[k][v] # Absent /\ IsVisible(s, v)

\* The keys that have versions: finitely many, however many keys there are.
DataKeys == {k \in Key : \E v \in Version : data[k][v] # Absent}

LiveKeys(s) == {k \in Key : Get(s, k) # Deleted}

Reads(s) == [k \in Key |-> Get(s, k)]

\* The keys of S that a scan has buffered when it goes on at r.
Before(S, r) == {k \in S : r # End => k < r[1]}

\* r is an engine key, and the transaction sees no version of its user key
\* before it.
IsPosition(s, r) ==
    /\ r \in Nat \X Nat
    /\ r[1] \in Key => \A v \in Version : Sees(s, r[1], v) => r[2] <= v

Pair == Key \X (Value \cup {Deleted, Absent})

\* A scan has pulled the live keys before the place where it goes on.
ScanOf(s, it) ==
    /\ it.size \in Nat \ {0}
    /\ it.out \in Seq(Pair) /\ it.buffer \in Seq(Pair)
    /\ it.remainder # End => IsPosition(s, it.remainder)
    /\ Listing(it.out \o it.buffer, Before(LiveKeys(s), it.remainder), Reads(s))

ScanInv ==
    /\ MVCCInv
    /\ IsFiniteSet(DataKeys)
    /\ iter = [t \in Scanner |-> iter[t]]
    /\ \A t \in Scanner : iter[t] # End => txn[t] # NoTxn
    /\ \A t \in Scanner : iter[t] # End /\ Eligible(t) => ScanOf(txn[t], iter[t])

\* Transaction::get finds the versions that a scan sees.
LEMMA VisibleIsSeen ==
    ASSUME NEW s \in TxnState, NEW k
    PROVE  VisibleVersions(s, k) = {v \in Version : Sees(s, k, v)}
<1>1. s.version \in Nat /\ s.readOnly \in BOOLEAN
    BY DEF TxnState
<1>2. \A v \in Version : IsVisible(s, v) => v <= s.version
    BY <1>1 DEF IsVisible
<1> QED BY <1>2, Zenon DEF VisibleVersions, Sees

\* A read finds the latest version that the transaction sees.
LEMMA GetFacts ==
    ASSUME MVCCTypeOK, NEW s \in TxnState, NEW k \in Key
    PROVE  /\ Get(s, k) \in Value \cup {Deleted}
           /\ (\A v \in Version : ~Sees(s, k, v)) => Get(s, k) = Deleted
           /\ \A m \in Version :
                 Sees(s, k, m) /\ (\A v \in Version : Sees(s, k, v) => v <= m)
                   => Get(s, k) = data[k][m]
           /\ (\E v \in Version : Sees(s, k, v)) =>
                 \E m \in Version : Sees(s, k, m) /\ \A v \in Version : Sees(s, k, v) => v <= m
<1> DEFINE seen == {v \in Version : Sees(s, k, v)}
<1>1. VisibleVersions(s, k) = seen
    BY VisibleIsSeen
<1>2. PICK S : S = seen
    OBVIOUS
<1>3. /\ S = {} => Get(s, k) = Deleted
      /\ S # {} => Get(s, k) = data[k][CHOOSE v \in S : \A w \in S : w <= v]
    BY <1>1, <1>2 DEF Get
<1>4. S # {} => \E m \in S : \A v \in S : v <= m
    BY <1>2, HasMaximum
<1>5. \A m \in S : (\A v \in S : v <= m) => (CHOOSE v \in S : \A w \in S : w <= v) = m
  <2> SUFFICES ASSUME NEW m \in S, \A v \in S : v <= m
               PROVE  (CHOOSE v \in S : \A w \in S : w <= v) = m
    OBVIOUS
  <2>1. \A v \in S : v \in Int
    BY <1>2
  <2>2. \A v \in S : (\A w \in S : w <= v) => v = m
    BY <2>1
  <2> QED BY <2>2
<1>6. \A v \in S : v \in Version /\ data[k][v] \in Value \cup {Deleted}
    BY <1>2 DEF Sees, MVCCTypeOK
<1>7. \A m \in S : (\A v \in S : v <= m) => Get(s, k) = data[k][m]
    BY <1>3, <1>5
<1>8. Get(s, k) \in Value \cup {Deleted}
    BY <1>3, <1>4, <1>6, <1>7
<1> QED BY <1>2, <1>3, <1>4, <1>7, <1>8

\* What a transaction sees decides what it reads and where its scans are.
LEMMA SeenDecides ==
    ASSUME MVCCTypeOK, MVCCTypeOK', NEW s \in TxnState,
           \A k \in Key, v \in Version : Sees(s, k, v)' <=> Sees(s, k, v),
           \A k \in Key, v \in Version : Sees(s, k, v) => data'[k][v] = data[k][v]
    PROVE  /\ LiveKeys(s)' = LiveKeys(s) /\ Reads(s)' = Reads(s)
           /\ \A r : IsPosition(s, r) => IsPosition(s, r)'
<1>1. ASSUME NEW k \in Key PROVE Get(s, k)' = Get(s, k)
  <2>1. VisibleVersions(s, k) = {v \in Version : Sees(s, k, v)}
    BY VisibleIsSeen
  <2>2. VisibleVersions(s, k)' = {v \in Version : Sees(s, k, v)}
    <3>1. s.version \in Nat /\ s.readOnly \in BOOLEAN
      BY DEF TxnState
    <3>2. \A v \in Version : IsVisible(s, v) => v <= s.version
      BY <3>1 DEF IsVisible
    <3>3. \A v \in Version : Sees(s, k, v) <=> data'[k][v] # Absent /\ IsVisible(s, v)
      BY DEF Sees, IsVisible
    <3>4. VisibleVersions(s, k)' =
            {v \in Version : data'[k][v] # Absent /\ v <= s.version /\ IsVisible(s, v)}
      BY DEF VisibleVersions, IsVisible
    <3> QED BY <3>2, <3>3, <3>4
  <2>3. PICK S : S = {v \in Version : Sees(s, k, v)}
    OBVIOUS
  <2>4. CASE S = {}
    BY <2>1, <2>2, <2>3, <2>4 DEF Get
  <2>5. CASE S # {}
    <3>1. PICK best : best = CHOOSE v \in S : \A w \in S : w <= v
      OBVIOUS
    <3>2. Get(s, k) = data[k][best] /\ Get(s, k)' = data'[k][best]
      BY <2>1, <2>2, <2>3, <2>5, <3>1 DEF Get
    <3>3. \E m \in S : \A v \in S : v <= m
      BY <2>3, <2>5, HasMaximum
    <3>4. best \in S
      BY <3>1, <3>3
    <3> QED BY <2>3, <3>2, <3>4
  <2> QED BY <2>4, <2>5
<1>2. LiveKeys(s)' = LiveKeys(s) /\ Reads(s)' = Reads(s)
    BY <1>1 DEF LiveKeys, Reads
<1>3. \A r : IsPosition(s, r) => IsPosition(s, r)'
    BY DEF IsPosition
<1> QED BY <1>2, <1>3

\* The live keys are finitely many numbers.
LEMMA LiveKeysAreFinite ==
    ASSUME MVCCTypeOK, IsFiniteSet(DataKeys), NEW s \in TxnState, NEW K \in SUBSET LiveKeys(s)
    PROVE  IsFiniteSet(K) /\ K \subseteq Nat /\ K \subseteq Key
<1>1. ASSUME NEW k \in K PROVE k \in DataKeys /\ k \in Nat /\ k \in Key
  <2>1. k \in Key /\ Get(s, k) # Deleted
    BY DEF LiveKeys
  <2>2. PICK v \in Version : Sees(s, k, v)
    BY <2>1, GetFacts
  <2> QED BY <2>1, <2>2 DEF DataKeys, Sees
<1>2. K \in SUBSET DataKeys
    BY <1>1
<1> QED BY <1>1, <1>2, FS_Subset

\* Single reads list the live keys.
LEMMA ReferenceFacts ==
    ASSUME MVCCTypeOK, IsFiniteSet(DataKeys), NEW s \in TxnState
    PROVE  Listing(Reference(s), LiveKeys(s), Reads(s))
<1>1. PICK K, g, o : K = LiveKeys(s) /\ g = Reads(s) /\ o = Sorted(K)
    OBVIOUS
<1>2. IsFiniteSet(K) /\ K \subseteq Nat /\ K \subseteq Key
    BY <1>1, LiveKeysAreFinite
<1>3. o = [i \in 1..Cardinality(K) |-> o[i]] /\ \A i \in 1..Cardinality(K) : o[i] \in K
    BY <1>1, <1>2, SortedFacts
<1>4. \A i \in DOMAIN o : Get(s, o[i]) = g[o[i]]
    BY <1>1, <1>2, <1>3 DEF Reads
<1>5. Reference(s) = [i \in DOMAIN o |-> <<o[i], Get(s, o[i])>>]
    BY <1>1 DEF Reference, LiveKeys
<1>6. Reference(s) = [i \in DOMAIN Sorted(K) |-> <<Sorted(K)[i], g[Sorted(K)[i]]>>]
    BY <1>1, <1>4, <1>5
<1> QED BY <1>1, <1>2, <1>6, ListingOfSorted

\* VersionIterator finds all that the transaction sees from its position on.
LEMMA VisibleFromFacts ==
    ASSUME NEW s, NEW r, IsPosition(s, r)
    PROVE  VisibleFrom(s, r) = {p \in Key \X Version : p[1] >= r[1] /\ Sees(s, p[1], p[2])}
<1>1. r[1] \in Nat /\ r[2] \in Nat
    BY DEF IsPosition
<1>2. ASSUME NEW p \in Key \X Version, Sees(s, p[1], p[2])
      PROVE  AtOrAfter(p, r) <=> p[1] >= r[1]
  <2>1. p[1] \in Key /\ p[1] \in Nat /\ p[2] \in Version /\ p[2] \in Nat
    <3>1. PICK a, b : a = p[1] /\ b = p[2]
      OBVIOUS
    <3>2. a \in Key /\ b \in Version
      BY <3>1
    <3> QED BY <3>1, <3>2
  <2>2. p[1] = r[1] => p[2] >= r[2]
    BY <1>1, <1>2, <2>1 DEF IsPosition
  <2> QED BY <1>1, <2>1, <2>2 DEF AtOrAfter
<1> QED BY <1>2 DEF VisibleFrom, Sees

\* A batch lists the live keys from the position of the scan on.
LEMMA PairsFacts ==
    ASSUME MVCCTypeOK, IsFiniteSet(DataKeys), NEW s \in TxnState, NEW r, IsPosition(s, r)
    PROVE  Listing(Pairs(LiveFrom(s, r)), {k \in LiveKeys(s) : k >= r[1]}, Reads(s))
<1>1. PICK live, K, g, o :
         /\ live = LiveFrom(s, r) /\ K = {k \in LiveKeys(s) : k >= r[1]}
         /\ g = Reads(s) /\ o = Sorted(K)
    OBVIOUS
<1>2. /\ \A p \in live : /\ p \in Key \X Version /\ p[1] >= r[1] /\ Sees(s, p[1], p[2])
                         /\ data[p[1]][p[2]] # Deleted
                         /\ \A v \in Version : Sees(s, p[1], v) => v <= p[2]
      /\ \A k \in Key, m \in Version :
            /\ k >= r[1] /\ Sees(s, k, m) /\ data[k][m] # Deleted
            /\ \A v \in Version : Sees(s, k, v) => v <= m
            => <<k, m>> \in live
  <2>1. PICK V : V = VisibleFrom(s, r)
    OBVIOUS
  <2>2. V = {p \in Key \X Version : p[1] >= r[1] /\ Sees(s, p[1], p[2])}
    BY <2>1, VisibleFromFacts
  <2>3. live = {p \in V : /\ \A q \in V : q[1] = p[1] => q[2] <= p[2]
                          /\ data[p[1]][p[2]] # Deleted}
    BY <1>1, <2>1 DEF LiveFrom
  <2>4. /\ \A k \in Key, v \in Version : <<k, v>> \in V <=> k >= r[1] /\ Sees(s, k, v)
        /\ \A p \in V : p[1] \in Key /\ p[2] \in Version /\ p = <<p[1], p[2]>>
    BY <2>2
  <2>5. ASSUME NEW p \in live
        PROVE  /\ p \in Key \X Version /\ p[1] >= r[1] /\ Sees(s, p[1], p[2])
               /\ data[p[1]][p[2]] # Deleted
               /\ \A v \in Version : Sees(s, p[1], v) => v <= p[2]
    <3>1. /\ p \in V /\ data[p[1]][p[2]] # Deleted
          /\ \A q \in V : q[1] = p[1] => q[2] <= p[2]
      BY <2>3
    <3>2. p[1] \in Key /\ p[1] >= r[1] /\ Sees(s, p[1], p[2]) /\ p \in Key \X Version
      BY <2>2, <3>1
    <3>3. ASSUME NEW v \in Version, Sees(s, p[1], v) PROVE v <= p[2]
      <4>1. PICK q : q = <<p[1], v>>
        OBVIOUS
      <4>2. q \in V /\ q[1] = p[1] /\ q[2] = v
        BY <2>4, <3>2, <3>3, <4>1
      <4> QED BY <3>1, <4>2
    <3> QED BY <3>1, <3>2, <3>3
  <2>6. ASSUME NEW k \in Key, NEW m \in Version, k >= r[1], Sees(s, k, m),
               data[k][m] # Deleted, \A v \in Version : Sees(s, k, v) => v <= m
        PROVE  <<k, m>> \in live
    <3>1. PICK p : p = <<k, m>>
      OBVIOUS
    <3>2. p \in V /\ p[1] = k /\ p[2] = m
      BY <2>4, <2>6, <3>1
    <3>3. \A q \in V : q[1] = p[1] => q[2] <= p[2]
      BY <2>2, <2>6, <3>2
    <3> QED BY <2>3, <2>6, <3>1, <3>2, <3>3
  <2> QED BY <2>5, <2>6
<1>3. ASSUME NEW p \in live PROVE p[1] \in K /\ g[p[1]] = data[p[1]][p[2]]
  <2>1. /\ p[1] \in Key /\ p[2] \in Version /\ p[1] >= r[1] /\ Sees(s, p[1], p[2])
        /\ data[p[1]][p[2]] # Deleted
        /\ \A v \in Version : Sees(s, p[1], v) => v <= p[2]
    BY <1>2
  <2>2. Get(s, p[1]) = data[p[1]][p[2]]
    BY <2>1, GetFacts
  <2> QED BY <1>1, <2>1, <2>2 DEF LiveKeys, Reads
<1>4. ASSUME NEW k \in K PROVE \E p \in live : p[1] = k
  <2>1. k \in Key /\ k >= r[1] /\ Get(s, k) # Deleted
    BY <1>1 DEF LiveKeys
  <2>2. PICK m \in Version : Sees(s, k, m) /\ \A v \in Version : Sees(s, k, v) => v <= m
    BY <2>1, GetFacts
  <2>3. Get(s, k) = data[k][m]
    BY <2>1, <2>2, GetFacts
  <2>4. <<k, m>> \in live
    BY <1>2, <2>1, <2>2, <2>3
  <2> QED BY <2>4
<1>5. K = {p[1] : p \in live}
    BY <1>3, <1>4
<1>6. IsFiniteSet(K) /\ K \subseteq Nat /\ K \subseteq Key
  <2>1. K \in SUBSET LiveKeys(s)
    BY <1>1
  <2> QED BY <2>1, LiveKeysAreFinite
<1>7. o = [i \in 1..Cardinality(K) |-> o[i]] /\ \A i \in 1..Cardinality(K) : o[i] \in K
  <2>1. o = Sorted(K)
    BY <1>1
  <2> QED BY <1>6, <2>1, SortedFacts
<1>8. ASSUME NEW k \in K PROVE data[k][(CHOOSE p \in live : p[1] = k)[2]] = g[k]
  <2>1. PICK p : p = CHOOSE q \in live : q[1] = k
    OBVIOUS
  <2>2. p \in live /\ p[1] = k
    BY <1>4, <2>1
  <2>3. data[k][p[2]] = g[k]
    BY <1>3, <2>2
  <2> QED BY <2>1, <2>3
<1>9. Pairs(live) = [i \in DOMAIN o |-> <<o[i], data[o[i]][(CHOOSE p \in live : p[1] = o[i])[2]]>>]
  <2>1. o = Sorted({p[1] : p \in live})
    BY <1>1, <1>5
  <2> QED BY <2>1 DEF Pairs
<1>10. \A i \in DOMAIN o : data[o[i]][(CHOOSE p \in live : p[1] = o[i])[2]] = g[o[i]]
    BY <1>7, <1>8
<1>11. Pairs(live) = [i \in DOMAIN Sorted(K) |-> <<Sorted(K)[i], g[Sorted(K)[i]]>>]
    BY <1>1, <1>9, <1>10
<1> QED BY <1>1, <1>6, <1>11, ListingOfSorted

\* A scan goes on behind the last key of its batch, and skips no live key.
LEMMA RemainderFacts ==
    ASSUME MVCCTypeOK, NEW s \in TxnState, NEW r, IsPosition(s, r),
           NEW last \in Key, last >= r[1], NEW n, n = Remainder(s, r, last)
    PROVE  /\ n # End => IsPosition(s, n)
           /\ Before(LiveKeys(s), n) = {k \in LiveKeys(s) : k <= last}
<1>1. last \in Nat /\ r[1] \in Nat
    BY DEF IsPosition
<1>2. PICK rest : rest = {p \in VisibleFrom(s, r) : p[1] > last}
    OBVIOUS
<1>3. /\ \A p \in rest : /\ p \in Key \X Version /\ p[1] \in Key /\ p[1] \in Nat
                         /\ p[2] \in Version /\ p[2] \in Nat
                         /\ p[1] > last /\ Sees(s, p[1], p[2])
      /\ \A k \in Key, v \in Version : k > last /\ Sees(s, k, v) => <<k, v>> \in rest
  <2>1. rest = {p \in Key \X Version : p[1] >= r[1] /\ Sees(s, p[1], p[2]) /\ p[1] > last}
    BY <1>2, VisibleFromFacts
  <2>2. \A k \in Key : k > last => k >= r[1]
    BY <1>1
  <2>3. ASSUME NEW p \in rest
        PROVE  /\ p \in Key \X Version /\ p[1] \in Key /\ p[2] \in Version
               /\ p[1] > last /\ Sees(s, p[1], p[2])
    BY <2>1
  <2>4. ASSUME NEW p \in rest PROVE p[1] \in Nat /\ p[2] \in Nat
    <3>1. PICK a, b : a = p[1] /\ b = p[2]
      OBVIOUS
    <3>2. a \in Key /\ b \in Version
      BY <2>3, <3>1
    <3> QED BY <3>1, <3>2
  <2>5. ASSUME NEW k \in Key, NEW v \in Version, k > last, Sees(s, k, v)
        PROVE  <<k, v>> \in rest
    BY <2>1, <2>2, <2>5
  <2> QED BY <2>3, <2>4, <2>5
<1>4. \A k \in LiveKeys(s) : k \in Key /\ k \in Nat /\ \E v \in Version : Sees(s, k, v)
    BY GetFacts DEF LiveKeys
<1>5. n = IF rest = {} THEN End ELSE CHOOSE p \in rest : \A q \in rest : AtOrAfter(q, p)
    BY <1>2 DEF Remainder
<1>6. CASE rest = {}
  <2>1. n = End
    BY <1>5, <1>6
  <2>2. \A k \in LiveKeys(s) : ~(k > last)
    BY <1>3, <1>4, <1>6
  <2>3. \A k \in LiveKeys(s) : k <= last
    BY <1>1, <1>4, <2>2
  <2> QED BY <2>1, <2>3 DEF Before
<1>7. CASE rest # {}
  <2>1. \E p \in rest : \A q \in rest : AtOrAfter(q, p)
    <3>1. PICK F : F = {p[1] : p \in rest}
      OBVIOUS
    <3>2. F \subseteq Nat /\ F # {}
      BY <1>3, <1>7, <3>1
    <3>3. PICK k \in F : \A j \in F : k <= j
      BY <3>2, HasMinimum
    <3>4. PICK G : G = {v \in Version : <<k, v>> \in rest}
      OBVIOUS
    <3>5. PICK p0 \in rest : p0[1] = k
      BY <3>1, <3>3
    <3>6. p0 = <<k, p0[2]>> /\ p0[2] \in G
      BY <1>3, <3>4, <3>5
    <3>7. G \subseteq Nat /\ G # {}
      BY <3>4, <3>6
    <3>8. PICK v \in G : \A w \in G : v <= w
      BY <3>7, HasMinimum
    <3>9. PICK p \in rest : p = <<k, v>> /\ p[1] = k /\ p[2] = v /\ k \in Nat /\ v \in Nat
      BY <1>3, <3>4, <3>8
    <3>10. ASSUME NEW q \in rest PROVE AtOrAfter(q, p)
      <4>1. q[1] \in Nat /\ q[2] \in Nat /\ k <= q[1]
        BY <1>3, <3>1, <3>3
      <4>2. q[1] = k => v <= q[2]
        <5>1. q[1] = k => q = <<k, q[2]>> /\ q[2] \in Version
          BY <1>3
        <5> QED BY <3>4, <3>8, <5>1
      <4>3. q[1] > k \/ (q[1] = k /\ q[2] >= v)
        BY <3>9, <4>1, <4>2
      <4> QED BY <3>9, <4>3 DEF AtOrAfter
    <3> QED BY <3>10
  <2>2. n \in rest /\ \A q \in rest : AtOrAfter(q, n)
    BY <1>5, <1>7, <2>1
  <2>3. /\ n \in Key \X Version /\ n[1] \in Key /\ n[1] \in Nat /\ n[2] \in Nat /\ n[1] > last
        /\ n \in Nat \X Nat
    BY <1>3, <2>2
  <2>4. n # End
    BY <2>3, ScanAssumption
  <2>5. ASSUME NEW v \in Version, Sees(s, n[1], v) PROVE n[2] <= v
    <3>1. PICK q \in rest : q = <<n[1], v>> /\ q[1] = n[1] /\ q[2] = v
      BY <1>3, <2>3, <2>5
    <3>2. AtOrAfter(q, n)
      BY <2>2
    <3> QED BY <2>3, <3>1, <3>2 DEF AtOrAfter
  <2>6. ASSUME NEW k \in LiveKeys(s) PROVE k < n[1] <=> k <= last
    <3>1. k \in Key /\ k \in Nat
      BY <1>4
    <3>2. k <= last => k < n[1]
      BY <1>1, <2>3, <3>1
    <3>3. ASSUME k > last PROVE k >= n[1]
      <4>1. PICK v \in Version : Sees(s, k, v)
        BY <1>4
      <4>2. PICK q \in rest : q = <<k, v>> /\ q[1] = k
        BY <1>3, <3>1, <3>3, <4>1
      <4>3. AtOrAfter(q, n)
        BY <2>2
      <4> QED BY <2>3, <3>1, <4>2, <4>3 DEF AtOrAfter
    <3> QED BY <1>1, <2>3, <3>1, <3>2, <3>3
  <2> QED BY <2>3, <2>4, <2>5, <2>6 DEF Before, IsPosition
<1> QED BY <1>6, <1>7

-----------------------------------------------------------------------------
(* Steps of the scans.                                                     *)

\* The same reads and the same positions make the same scan.
LEMMA SameScan ==
    ASSUME NEW s, NEW i, ScanOf(s, i), LiveKeys(s)' = LiveKeys(s), Reads(s)' = Reads(s),
           \A r : IsPosition(s, r) => IsPosition(s, r)'
    PROVE  ScanOf(s, i)'
<1>1. PICK L, g : L = Before(LiveKeys(s), i.remainder) /\ g = Reads(s)
    OBVIOUS
<1>2. L = {k \in LiveKeys(s)' : i.remainder # End => k < i.remainder[1]} /\ g = Reads(s)'
    BY <1>1 DEF Before
<1>3. PICK q : q = i.out \o i.buffer /\ Listing(q, L, g)
    BY <1>1 DEF ScanOf
<1>4. Listing(q, {k \in LiveKeys(s)' : i.remainder # End => k < i.remainder[1]}, Reads(s)')
    BY <1>2, <1>3, Zenon
<1>5. Listing(i.out \o i.buffer, Before(LiveKeys(s), i.remainder), Reads(s))'
    BY <1>3, <1>4 DEF Listing, Before
<1> QED BY <1>5 DEF ScanOf

\* A pull of one scan concerns no other.
LEMMA ScanActs ==
    ASSUME ScanInv, UNCHANGED mvccVars, NEW t \in Scanner, txn[t] # NoTxn, NEW it,
           iter' = [iter EXCEPT ![t] = it],
           Eligible(t) => ScanOf(txn[t], it)
    PROVE  ScanInv'
<1>1. /\ MVCCInv /\ IsFiniteSet(DataKeys) /\ iter = [u \in Scanner |-> iter[u]]
      /\ \A u \in Scanner : iter[u] # End => txn[u] # NoTxn
      /\ \A u \in Scanner : iter[u] # End /\ Eligible(u) => ScanOf(txn[u], iter[u])
    BY DEF ScanInv
<1>2. MVCCInv'
    BY <1>1, NextInv
<1>3. /\ data' = data /\ txn' = txn /\ active' = active /\ writes' = writes
      /\ MVCCTypeOK /\ MVCCTypeOK'
    BY <1>1, <1>2 DEF mvccVars, MVCCInv
<1>4. iter'[t] = it /\ \A u \in Scanner : u # t => iter'[u] = iter[u]
    BY <1>1
<1>5. DataKeys' = DataKeys
    BY <1>3 DEF DataKeys
<1>6. iter' = [u \in Scanner |-> iter'[u]]
  <2>1. PICK f : f = iter
    OBVIOUS
  <2>2. f = [u \in Scanner |-> f[u]] /\ iter' = [f EXCEPT ![t] = it]
    BY <1>1, <2>1
  <2> QED BY <2>2
<1>7. \A u \in Scanner : iter'[u] # End => txn'[u] # NoTxn
    BY <1>1, <1>3, <1>4
<1>8. ASSUME NEW u \in Scanner, iter'[u] # End, Eligible(u)'
      PROVE  ScanOf(txn[u], iter[u])'
  <2>1. PICK s, i : s = txn[u] /\ i = iter'[u]
    OBVIOUS
  <2>2. Eligible(u)
    BY <1>3, <1>8 DEF Eligible, IsOpen, HasWritten
  <2>3. ScanOf(s, i)
    BY <1>1, <1>4, <1>8, <2>1, <2>2
  <2>4. s \in TxnState
    BY <1>3, <2>1, <2>2, TxnStateType, ScanAssumption DEF Eligible
  <2>5. /\ LiveKeys(s)' = LiveKeys(s) /\ Reads(s)' = Reads(s)
        /\ \A r : IsPosition(s, r) => IsPosition(s, r)'
    <3>1. \A k \in Key, v \in Version : Sees(s, k, v)' <=> Sees(s, k, v)
      BY <1>3 DEF Sees, IsVisible
    <3> QED BY <1>3, <2>4, <3>1, SeenDecides
  <2>6. ScanOf(s, i)'
    BY <2>3, <2>5, SameScan
  <2>7. ScanOf(s, i)' <=> ScanOf(txn[u], iter[u])'
    BY <1>3, <2>1
  <2> QED BY <2>6, <2>7
<1> QED BY <1>1, <1>2, <1>5, <1>6, <1>7, <1>8 DEF ScanInv

\* A new scan has pulled nothing, and there is nothing before its position.
LEMMA StartOfScan ==
    ASSUME NEW s, NEW size \in BufferSizes
    PROVE  ScanOf(s, [size |-> size, remainder |-> <<0, 0>>, buffer |-> <<>>, out |-> <<>>])
<1>1. PICK it : it = [size |-> size, remainder |-> <<0, 0>>, buffer |-> <<>>, out |-> <<>>]
    OBVIOUS
<1>2. it.size = size /\ it.remainder = <<0, 0>> /\ it.buffer = <<>> /\ it.out = <<>>
    BY <1>1
<1>3. size \in Nat \ {0}
    BY ScanAssumption
<1>4. <<>> \in Seq(Pair)
    OBVIOUS
<1>5. IsPosition(s, <<0, 0>>) /\ <<0, 0>> # End
    BY ScanAssumption DEF IsPosition
<1>6. Before(LiveKeys(s), <<0, 0>>) = {}
  <2>1. ASSUME NEW k \in LiveKeys(s) PROVE ~(k < <<0, 0>>[1])
    <3>1. k \in Nat
      BY DEF LiveKeys
    <3> QED BY <3>1
  <2> QED BY <1>5, <2>1 DEF Before
<1>7. Listing(<<>> \o <<>>, {}, Reads(s))
  <2>1. PICK T : T = {} \X {Reads(s)[k] : k \in {}}
    OBVIOUS
  <2>2. <<>> \o <<>> = <<>> /\ <<>> \in Seq(T) /\ Len(<<>>) = 0
    OBVIOUS
  <2> QED BY <2>1, <2>2 DEF Listing
<1>8. ScanOf(s, it)
    BY <1>2, <1>3, <1>4, <1>5, <1>6, <1>7 DEF ScanOf
<1> QED BY <1>1, <1>8

\* Popping moves the first pair of the buffer behind those that were returned.
LEMMA PopConcat ==
    ASSUME NEW S, NEW a \in Seq(S), NEW b \in Seq(S), b # <<>>
    PROVE  /\ Append(a, b[1]) \in Seq(S) /\ Tail(b) \in Seq(S)
           /\ Append(a, b[1]) \o Tail(b) = a \o b
<1>1. Len(b) \in Nat /\ Len(b) # 0 /\ Len(a) \in Nat
    BY EmptySeq
<1>2. b[1] \in S /\ Tail(b) \in Seq(S) /\ Len(Tail(b)) = Len(b) - 1
      /\ \A i \in 1..Len(Tail(b)) : Tail(b)[i] = b[i + 1]
    BY <1>1, HeadTailProperties, ElementOfSeq
<1>3. PICK x, y, c : x = Append(a, b[1]) /\ y = Tail(b) /\ c = a \o b
    OBVIOUS
<1>4. /\ x \in Seq(S) /\ Len(x) = Len(a) + 1 /\ x[Len(a) + 1] = b[1]
      /\ \A i \in 1..Len(a) : x[i] = a[i]
    BY <1>2, <1>3, AppendProperties
<1>5. /\ x \o y \in Seq(S) /\ Len(x \o y) = Len(x) + Len(y)
      /\ \A i \in 1..Len(x) + Len(y) : (x \o y)[i] = IF i <= Len(x) THEN x[i] ELSE y[i - Len(x)]
    BY <1>2, <1>3, <1>4, ConcatProperties
<1>6. /\ c \in Seq(S) /\ Len(c) = Len(a) + Len(b)
      /\ \A i \in 1..Len(a) + Len(b) : c[i] = IF i <= Len(a) THEN a[i] ELSE b[i - Len(a)]
    BY <1>3, ConcatProperties
<1>7. PICK m, n, z : m = Len(a) /\ n = Len(b) /\ z = x \o y
    OBVIOUS
<1>8. /\ m \in Nat /\ n \in Nat /\ n # 0 /\ Len(x) = m + 1 /\ Len(y) = n - 1
      /\ Len(z) = m + n /\ Len(c) = m + n /\ z \in Seq(S) /\ c \in Seq(S)
    BY <1>1, <1>2, <1>3, <1>4, <1>5, <1>6, <1>7
<1>9. ASSUME NEW i \in 1..m + n PROVE z[i] = c[i]
  <2>1. z[i] = IF i <= m + 1 THEN x[i] ELSE y[i - (m + 1)]
    BY <1>5, <1>7, <1>8
  <2>2. c[i] = IF i <= m THEN a[i] ELSE b[i - m]
    BY <1>6, <1>7, <1>8
  <2>3. CASE i <= m
    <3>1. i \in 1..m /\ i <= m + 1
      BY <1>8, <2>3
    <3>2. x[i] = a[i]
      BY <1>4, <1>7, <3>1
    <3> QED BY <2>1, <2>2, <2>3, <3>1, <3>2
  <2>4. CASE i = m + 1
    <3>1. i <= m + 1 /\ ~(i <= m) /\ i - m = 1
      BY <1>8, <2>4
    <3>2. x[i] = b[1]
      BY <1>4, <1>7, <2>4
    <3> QED BY <2>1, <2>2, <3>1, <3>2
  <2>5. CASE i > m + 1
    <3>1. PICK j : j = i - (m + 1)
      OBVIOUS
    <3>2. j \in 1..n - 1 /\ j + 1 = i - m /\ ~(i <= m) /\ ~(i <= m + 1)
      BY <1>8, <2>5, <3>1
    <3>3. y[j] = b[j + 1]
      BY <1>2, <1>3, <1>8, <3>2
    <3> QED BY <2>1, <2>2, <3>1, <3>2, <3>3
  <2> QED BY <1>8, <2>3, <2>4, <2>5
<1>10. z = c
    BY <1>8, <1>9, SeqEqual
<1> QED BY <1>2, <1>3, <1>4, <1>7, <1>10

\* A pair that is read is a pair of a key and a value.
LEMMA ListedPairs ==
    ASSUME MVCCTypeOK, NEW s \in TxnState, NEW L \in SUBSET Key, NEW q, Listing(q, L, Reads(s))
    PROVE  q \in Seq(Pair)
<1>0. PICK g : g = Reads(s)
    OBVIOUS
<1>1. PICK T : g = Reads(s) /\ T = L \X {g[k] : k \in L}
    BY <1>0
<1>2. \A k \in L : g[k] \in Value \cup {Deleted}
    BY <1>1, GetFacts DEF Reads
<1>3. T \subseteq Pair
    BY <1>1, <1>2 DEF Pair
<1>4. q \in Seq(T)
    BY <1>1 DEF Listing
<1> QED BY <1>3, <1>4, SeqMonotonic

\* The pairs that fill_buffer takes, and where it leaves the remaining range.
Batch(pairs, size) == IF Len(pairs) >= size THEN SubSeq(pairs, 1, size) ELSE pairs

NextPosition(s, r, pairs, size) ==
    IF Len(pairs) >= size THEN Remainder(s, r, pairs[size][1]) ELSE End

\* A batch lists live keys from r on, all of those before the next position n.
BatchDone(s, r, pairs, batch, n) ==
    /\ n # End => IsPosition(s, n)
    /\ pairs \in Seq(Pair) /\ batch \in Seq(Pair) /\ (pairs = <<>> <=> batch = <<>>)
    /\ \E B \in SUBSET LiveKeys(s) :
          /\ \A k \in B : k >= r[1]
          /\ Listing(batch, B, Reads(s))
          /\ Before(LiveKeys(s), n) = Before(LiveKeys(s), r) \cup B

\* What FillAndPop makes of a scan.
Filled(s, it) ==
    LET pairs == Pairs(LiveFrom(s, it.remainder))
    IN  [size |-> it.size, remainder |-> NextPosition(s, it.remainder, pairs, it.size),
         buffer |-> IF pairs = <<>> THEN <<>> ELSE Tail(Batch(pairs, it.size)),
         out |-> IF pairs = <<>> THEN it.out ELSE Append(it.out, Batch(pairs, it.size)[1])]

\* fill_buffer: a batch begins where the last one ended, and the next one will
\* begin where it ends.
LEMMA BatchFacts ==
    ASSUME MVCCTypeOK, IsFiniteSet(DataKeys), NEW s \in TxnState, NEW r, IsPosition(s, r), r # End,
           NEW size \in Nat \ {0}, NEW pairs, pairs = Pairs(LiveFrom(s, r))
    PROVE  BatchDone(s, r, pairs, Batch(pairs, size), NextPosition(s, r, pairs, size))
<1> DEFINE full == Len(pairs) >= size
<1>0. PICK batch, n : batch = Batch(pairs, size) /\ n = NextPosition(s, r, pairs, size)
    OBVIOUS
<1>1. PICK M, g : M = {k \in LiveKeys(s) : k >= r[1]} /\ g = Reads(s)
    OBVIOUS
<1>2. Listing(pairs, M, g)
    BY <1>1, PairsFacts
<1>3. /\ \A k \in LiveKeys(s) : k \in Nat /\ k \in Key
      /\ M \in SUBSET LiveKeys(s) /\ M \in SUBSET Key /\ M \subseteq Nat /\ r[1] \in Nat
  <2>1. \A k \in LiveKeys(s) : k \in Key /\ k \in Nat
    BY DEF LiveKeys
  <2>2. r[1] \in Nat
    BY DEF IsPosition
  <2> QED BY <1>1, <2>1, <2>2
<1>4. pairs \in Seq(Pair) /\ Len(pairs) \in Nat
    BY <1>1, <1>2, <1>3, ListedPairs, LenProperties
<1>5. Before(LiveKeys(s), r) = {k \in LiveKeys(s) : k < r[1]}
    BY DEF Before
<1>6. CASE full
  <2>1. size \in 1..Len(pairs)
    <3>1. PICK c : c = Len(pairs)
      OBVIOUS
    <3>2. c >= size /\ c \in Nat
      BY <1>4, <1>6, <3>1
    <3> QED BY <3>1, <3>2
  <2>2. PICK last : last = pairs[size][1]
    OBVIOUS
  <2>3. last \in M
    BY <1>2, <2>1, <2>2 DEF Listing
  <2>4. last \in Key /\ last \in Nat /\ last >= r[1]
    BY <1>1, <1>3, <2>3
  <2>5. n = Remainder(s, r, last) /\ batch = SubSeq(pairs, 1, size)
    BY <1>0, <1>6, <2>2 DEF Batch, NextPosition
  <2>6. /\ n # End => IsPosition(s, n)
        /\ Before(LiveKeys(s), n) = {k \in LiveKeys(s) : k <= last}
    BY <2>4, <2>5, RemainderFacts
  <2>7. PICK B : B = {k \in M : k <= last}
    OBVIOUS
  <2>8. Listing(batch, B, g) /\ Len(batch) = size
    <3>1. Listing(pairs, M, g) /\ M \subseteq Nat /\ size \in 1..Len(pairs)
      BY <1>2, <1>3, <2>1
    <3>2. IsStart(SubSeq(pairs, 1, size), pairs, size, M, g)
      BY <3>1, ListingStart, Zenon
    <3>3. B = UpTo(M, pairs[size][1])
      BY <2>2, <2>7 DEF UpTo
    <3> QED BY <2>5, <3>2, <3>3, Zenon DEF IsStart
  <2>9. B \in SUBSET LiveKeys(s) /\ B \in SUBSET Key /\ \A k \in B : k >= r[1]
    BY <1>1, <1>3, <2>7
  <2>10. batch \in Seq(Pair)
    BY <1>1, <2>8, <2>9, ListedPairs
  <2>11. pairs # <<>> /\ batch # <<>>
    BY <2>1, <2>8, EmptySeq
  <2>12. ASSUME NEW k \in LiveKeys(s)
         PROVE  k <= last <=> k < r[1] \/ (k >= r[1] /\ k <= last)
    <3>1. k \in Nat /\ r[1] \in Nat /\ last \in Nat /\ last >= r[1]
      BY <1>3, <2>4
    <3>2. PICK a : a = r[1]
      OBVIOUS
    <3>3. k <= last <=> k < a \/ (k >= a /\ k <= last)
      BY <3>1, <3>2
    <3> QED BY <3>2, <3>3
  <2>13. Before(LiveKeys(s), n) = Before(LiveKeys(s), r) \cup B
    BY <1>1, <1>5, <2>6, <2>7, <2>12
  <2> QED BY <1>1, <1>4, <2>6, <2>8, <2>9, <2>10, <2>11, <2>13, <1>0 DEF BatchDone
<1>7. CASE ~full
  <2>1. n = End /\ batch = pairs
    BY <1>0, <1>7 DEF Batch, NextPosition
  <2>2. Before(LiveKeys(s), n) = LiveKeys(s)
    BY <2>1 DEF Before
  <2>3. \A k \in LiveKeys(s) : k < r[1] \/ k >= r[1]
    BY <1>3
  <2>4. LiveKeys(s) = Before(LiveKeys(s), r) \cup M
    BY <1>1, <1>5, <2>3
  <2>5. \A k \in M : k >= r[1]
    BY <1>1
  <2> QED BY <1>0, <1>1, <1>2, <1>3, <1>4, <2>1, <2>2, <2>4, <2>5 DEF BatchDone
<1> QED BY <1>6, <1>7

LEMMA FillOfScan ==
    ASSUME MVCCTypeOK, IsFiniteSet(DataKeys), NEW s \in TxnState, NEW it, ScanOf(s, it),
           it.buffer = <<>>, it.remainder # End
    PROVE  ScanOf(s, Filled(s, it))
<1>0. PICK pairs, batch, n, new :
        /\ pairs = Pairs(LiveFrom(s, it.remainder)) /\ batch = Batch(pairs, it.size)
        /\ n = NextPosition(s, it.remainder, pairs, it.size) /\ new = Filled(s, it)
    OBVIOUS
<1>1. PICK r, out, g, L : /\ r = it.remainder /\ out = it.out /\ g = Reads(s)
                          /\ L = Before(LiveKeys(s), r)
    OBVIOUS
<1>2. /\ it.size \in Nat \ {0} /\ out \in Seq(Pair) /\ IsPosition(s, r) /\ r # End
      /\ Listing(out \o <<>>, L, g)
    BY <1>1 DEF ScanOf
<1>3. Listing(out, L, g)
  <2>1. out \o <<>> = out
    BY <1>2, ConcatEmptySeq
  <2> QED BY <1>2, <2>1
<1>4. /\ n # End => IsPosition(s, n)
      /\ pairs \in Seq(Pair) /\ batch \in Seq(Pair) /\ (pairs = <<>> <=> batch = <<>>)
      /\ \E B \in SUBSET LiveKeys(s) :
            /\ \A k \in B : k >= r[1]
            /\ Listing(batch, B, Reads(s))
            /\ Before(LiveKeys(s), n) = Before(LiveKeys(s), r) \cup B
  <2>1. PICK size : size = it.size /\ size \in Nat \ {0}
    BY <1>2
  <2>2. pairs = Pairs(LiveFrom(s, r))
    BY <1>0, <1>1
  <2>3. BatchDone(s, r, pairs, Batch(pairs, size), NextPosition(s, r, pairs, size))
    BY <1>2, <2>1, <2>2, BatchFacts
  <2>4. BatchDone(s, r, pairs, batch, n)
    BY <1>0, <1>1, <2>1, <2>3, Zenon
  <2> QED BY <2>4, Zenon DEF BatchDone
<1>5. PICK B \in SUBSET LiveKeys(s) :
            /\ \A k \in B : k >= r[1]
            /\ Listing(batch, B, g)
            /\ Before(LiveKeys(s), n) = L \cup B
    BY <1>1, <1>4
<1>6. Listing(out \o batch, Before(LiveKeys(s), n), g)
  <2>1. \A k \in LiveKeys(s) : k \in Nat
    BY DEF LiveKeys
  <2>2. L \subseteq Nat /\ B \subseteq Nat /\ \A k \in L : k < r[1]
    BY <1>1, <1>2, <2>1 DEF Before
  <2>3. r[1] \in Nat
    BY <1>2 DEF IsPosition
  <2>4. \A k \in L, m \in B : k < m
    BY <1>5, <2>2, <2>3
  <2>5. Listing(out \o batch, L \cup B, g)
    BY <1>3, <1>5, <2>2, <2>4, ListingConcat
  <2> QED BY <1>5, <2>5
<1>7. new = [size |-> it.size, remainder |-> n,
             buffer |-> IF pairs = <<>> THEN <<>> ELSE Tail(batch),
             out |-> IF pairs = <<>> THEN out ELSE Append(out, batch[1])]
    BY <1>0, <1>1, Zenon DEF Filled
<1>8. /\ new.size = it.size /\ new.remainder = n
      /\ new.buffer = IF pairs = <<>> THEN <<>> ELSE Tail(batch)
      /\ new.out = IF pairs = <<>> THEN out ELSE Append(out, batch[1])
    BY <1>7
<1>9. new.out \in Seq(Pair) /\ new.buffer \in Seq(Pair) /\ new.out \o new.buffer = out \o batch
  <2>1. CASE pairs = <<>>
    BY <1>2, <1>4, <1>8, <2>1
  <2>2. CASE pairs # <<>>
    <3>0. out \in Seq(Pair) /\ batch \in Seq(Pair) /\ batch # <<>>
      BY <1>2, <1>4, <2>2
    <3>1. /\ Append(out, batch[1]) \in Seq(Pair) /\ Tail(batch) \in Seq(Pair)
          /\ Append(out, batch[1]) \o Tail(batch) = out \o batch
      BY <3>0, PopConcat
    <3> QED BY <1>8, <2>2, <3>1
  <2> QED BY <2>1, <2>2
<1>10. ScanOf(s, new)
    BY <1>1, <1>2, <1>4, <1>6, <1>8, <1>9 DEF ScanOf
<1> QED BY <1>0, <1>10

LEMMA PopOfScan ==
    ASSUME NEW s, NEW it, ScanOf(s, it), it.buffer # <<>>
    PROVE  ScanOf(s, [size |-> it.size, remainder |-> it.remainder,
                      buffer |-> Tail(it.buffer), out |-> Append(it.out, Head(it.buffer))])
<1>1. PICK new : new = [size |-> it.size, remainder |-> it.remainder,
                        buffer |-> Tail(it.buffer), out |-> Append(it.out, Head(it.buffer))]
    OBVIOUS
<1>2. /\ new.size = it.size /\ new.remainder = it.remainder
      /\ new.buffer = Tail(it.buffer) /\ new.out = Append(it.out, Head(it.buffer))
    BY <1>1
<1>3. it.out \in Seq(Pair) /\ it.buffer \in Seq(Pair)
    BY DEF ScanOf
<1>4. Head(it.buffer) = it.buffer[1]
    BY <1>3
<1>5. /\ new.out \in Seq(Pair) /\ new.buffer \in Seq(Pair)
      /\ new.out \o new.buffer = it.out \o it.buffer
  <2>1. PICK a, b : a = it.out /\ b = it.buffer
    OBVIOUS
  <2>2. a \in Seq(Pair) /\ b \in Seq(Pair) /\ b # <<>>
    BY <1>3, <2>1
  <2>3. /\ Append(a, b[1]) \in Seq(Pair) /\ Tail(b) \in Seq(Pair)
        /\ Append(a, b[1]) \o Tail(b) = a \o b
    BY <2>2, PopConcat
  <2>4. new.out = Append(a, b[1]) /\ new.buffer = Tail(b)
    BY <1>2, <1>4, <2>1
  <2> QED BY <2>1, <2>3, <2>4
<1>6. ScanOf(s, new)
    BY <1>2, <1>5 DEF ScanOf
<1> QED BY <1>1, <1>6

\* Every pull keeps the invariant.
LEMMA ScanStepInv ==
    ASSUME ScanInv, NEW t \in Scanner,
           (\E size \in BufferSizes : StartScan(t, size)) \/ FillAndPop(t) \/ PopBuffer(t)
    PROVE  ScanInv'
<1>1. CASE \E size \in BufferSizes : StartScan(t, size)
  <2>1. PICK size \in BufferSizes : StartScan(t, size)
    BY <1>1
  <2> QED BY <2>1, StartOfScan, ScanActs DEF StartScan
<1>2. ASSUME iter[t] # End, Eligible(t)
      PROVE  MVCCTypeOK /\ IsFiniteSet(DataKeys) /\ txn[t] \in TxnState /\ ScanOf(txn[t], iter[t])
    BY <1>2, TxnStateType, ScanAssumption DEF ScanInv, MVCCInv
<1>3. CASE FillAndPop(t)
  <2>1. /\ iter[t] # End /\ iter[t].buffer = <<>> /\ iter[t].remainder # End
        /\ UNCHANGED mvccVars /\ txn[t] # NoTxn
    BY <1>3 DEF FillAndPop, ScanInv
  <2>2. iter' = [iter EXCEPT ![t] = Filled(txn[t], iter[t])]
    BY <1>3, Zenon DEF FillAndPop, Filled, Batch, NextPosition
  <2>3. Eligible(t) => ScanOf(txn[t], Filled(txn[t], iter[t]))
    BY <1>2, <2>1, FillOfScan
  <2>4. PICK new : new = Filled(txn[t], iter[t])
    OBVIOUS
  <2>5. iter' = [iter EXCEPT ![t] = new] /\ (Eligible(t) => ScanOf(txn[t], new))
    BY <2>2, <2>3, <2>4, Zenon
  <2> QED BY <2>1, <2>5, ScanActs
<1>4. CASE PopBuffer(t)
  <2>1. iter[t] # End /\ iter[t].buffer # <<>> /\ UNCHANGED mvccVars /\ txn[t] # NoTxn
    BY <1>4 DEF PopBuffer, ScanInv
  <2>2. PICK it, new :
          /\ it = iter[t]
          /\ new = [size |-> it.size, remainder |-> it.remainder,
                    buffer |-> Tail(it.buffer), out |-> Append(it.out, Head(it.buffer))]
    OBVIOUS
  <2>3. iter' = [iter EXCEPT ![t] = new]
    BY <1>4, <2>2 DEF PopBuffer
  <2>4. Eligible(t) => ScanOf(txn[t], new)
    BY <1>2, <2>1, <2>2, PopOfScan
  <2> QED BY <2>1, <2>3, <2>4, ScanActs
<1> QED BY <1>1, <1>3, <1>4

-----------------------------------------------------------------------------
(* Steps of other transactions.                                            *)

\* What a step of the database changes is invisible to a scan that is promised
\* its snapshot: it is the version of another active transaction.
LEMMA ScanStays ==
    ASSUME ScanInv, MVCCInv', IsFiniteSet(DataKeys)', iter' = iter,
           \A t \in Txn : txn[t] # NoTxn => txn'[t] = txn[t] /\ (Eligible(t)' => Eligible(t)),
           \A k \in Key, v \in Version, t \in Txn :
              data'[k][v] # data[k][v] /\ txn[t] # NoTxn /\ Eligible(t)' =>
                 v \in active /\ (txn[t].readOnly \/ txn[t].version # v)
    PROVE  ScanInv'
<1>1. /\ MVCCInv /\ MVCCTypeOK /\ MVCCTypeOK'
      /\ iter = [u \in Scanner |-> iter[u]]
      /\ \A u \in Scanner : iter[u] # End => txn[u] # NoTxn
      /\ \A u \in Scanner : iter[u] # End /\ Eligible(u) => ScanOf(txn[u], iter[u])
    BY DEF ScanInv, MVCCInv
<1>2. ASSUME NEW u \in Scanner, iter[u] # End, Eligible(u)'
      PROVE  ScanOf(txn[u], iter[u])'
  <2>1. u \in Txn /\ txn[u] # NoTxn /\ txn'[u] = txn[u] /\ Eligible(u)
    BY <1>1, <1>2, ScanAssumption
  <2>2. PICK s, i : s = txn[u] /\ i = iter[u]
    OBVIOUS
  <2>3. ScanOf(s, i) /\ s \in TxnState /\ s.version \in Nat /\ s.readOnly \in BOOLEAN
    BY <1>1, <1>2, <2>1, <2>2, TxnStateType
  <2>4. ASSUME NEW k \in Key, NEW v \in Version, data'[k][v] # data[k][v]
        PROVE  ~IsVisible(s, v)
    <3>1. v \in active /\ (s.readOnly \/ s.version # v)
      BY <1>2, <2>1, <2>2, <2>4
    <3>2. v < s.version => v \in s.active
      BY <1>1, <2>1, <2>2, <3>1 DEF MVCCInv, ActiveIsInLaterStates
    <3> QED BY <2>3, <3>1, <3>2 DEF IsVisible
  <2>5. \A k \in Key, v \in Version : Sees(s, k, v)' <=> Sees(s, k, v)
    <3> SUFFICES ASSUME NEW k \in Key, NEW v \in Version PROVE Sees(s, k, v)' <=> Sees(s, k, v)
      OBVIOUS
    <3>1. Sees(s, k, v)' <=> data'[k][v] # Absent /\ IsVisible(s, v)
      BY DEF Sees, IsVisible
    <3> QED BY <2>4, <3>1 DEF Sees
  <2>6. \A k \in Key, v \in Version : Sees(s, k, v) => data'[k][v] = data[k][v]
    BY <2>4 DEF Sees
  <2>7. /\ LiveKeys(s)' = LiveKeys(s) /\ Reads(s)' = Reads(s)
        /\ \A r : IsPosition(s, r) => IsPosition(s, r)'
    BY <1>1, <2>3, <2>5, <2>6, SeenDecides
  <2>8. ScanOf(s, i)'
    BY <2>3, <2>7, SameScan
  <2> QED BY <2>1, <2>2, <2>8
<1> QED BY <1>1, <1>2, ScanAssumption DEF ScanInv

\* A transaction that begins.
LEMMA BeginKeepsScans ==
    ASSUME ScanInv, MVCCInv', iter' = iter, NEW u \in Txn, txn[u] = NoTxn, NEW new,
           txn' = [txn EXCEPT ![u] = new],
           data' = data, writes' = writes, active' \subseteq active \cup {nextVersion}
    PROVE  ScanInv'
<1>1. MVCCInv /\ MVCCTypeOK
    BY DEF ScanInv, MVCCInv
<1>2. IsFiniteSet(DataKeys)'
    BY DEF ScanInv, DataKeys
<1>3. ASSUME NEW t \in Txn, txn[t] # NoTxn
      PROVE  txn'[t] = txn[t] /\ (Eligible(t)' => Eligible(t))
  <2>1. txn'[t] = txn[t]
    BY <1>1, <1>3 DEF MVCCTypeOK
  <2>2. ~txn[t].readOnly => txn[t].version # nextVersion
    BY <1>1, <1>3 DEF MVCCInv, StatesAreStored, MVCCTypeOK
  <2>3. IsOpen(t)' => IsOpen(t)
    BY <2>1, <2>2 DEF IsOpen
  <2>4. HasWritten(t) => HasWritten(t)'
    BY <2>1 DEF HasWritten
  <2> QED BY <1>3, <2>1, <2>3, <2>4 DEF Eligible
<1> QED BY <1>2, <1>3, ScanStays

\* A write of another transaction.
LEMMA WriteKeepsScans ==
    ASSUME ScanInv, MVCCInv', iter' = iter, NEW u \in Txn, NEW k \in Key,
           NEW x \in Value \cup {Deleted}, Write(u, k, x)
    PROVE  ScanInv'
<1>1. MVCCInv /\ MVCCTypeOK /\ IsFiniteSet(DataKeys)
    BY DEF ScanInv, MVCCInv
<1>2. /\ IsOpen(u) /\ txn' = txn /\ active' = active
      /\ writes' = writes \cup {<<txn[u].version, k>>}
      /\ data' = [data EXCEPT ![k][txn[u].version] = x]
    BY DEF Write
<1>3. PICK n : n = txn[u].version
    OBVIOUS
<1>4. n \in Version /\ n \in active /\ IsReadWrite(u)
    BY <1>1, <1>2, <1>3, OpenTxn
<1>5. \A j \in Key, v \in Version : data'[j][v] # data[j][v] => j = k /\ v = n
    BY <1>1, <1>2, <1>3, <1>4 DEF MVCCTypeOK
<1>6. IsFiniteSet(DataKeys)'
  <2>1. DataKeys' \in SUBSET (DataKeys \cup {k})
    BY <1>5 DEF DataKeys
  <2>2. IsFiniteSet(DataKeys \cup {k})
    BY <1>1, FS_AddElement
  <2> QED BY <2>1, <2>2, FS_Subset
<1>7. ASSUME NEW t \in Txn, txn[t] # NoTxn PROVE Eligible(t)' => Eligible(t)
  <2>1. IsOpen(t)' => IsOpen(t)
    BY <1>2 DEF IsOpen
  <2>2. HasWritten(t) => HasWritten(t)'
    BY <1>2 DEF HasWritten
  <2> QED BY <1>2, <1>7, <2>1, <2>2 DEF Eligible
<1>8. ASSUME NEW t \in Txn, txn[t] # NoTxn, Eligible(t)', ~txn[t].readOnly
      PROVE  txn[t].version # n
  <2>1. t # u
    <3> SUFFICES ASSUME t = u PROVE FALSE
      OBVIOUS
    <3>1. HasWritten(t)'
      BY <1>2 DEF HasWritten
    <3> QED BY <1>2, <1>8, <3>1 DEF Eligible
  <2> QED BY <1>1, <1>3, <1>4, <1>8, <2>1 DEF MVCCInv, VersionsAreUnique, IsReadWrite
<1> QED BY <1>2, <1>4, <1>5, <1>6, <1>7, <1>8, ScanStays

\* The end of another transaction.
LEMMA EndKeepsScans ==
    ASSUME ScanInv, MVCCInv', iter' = iter, NEW u \in Txn, IsOpen(u), txn' = txn,
           writes' = {w \in writes : w[1] # txn[u].version},
           active' = active \ {txn[u].version},
           \A k \in Key, v \in Version : v # txn[u].version => data'[k][v] = data[k][v],
           \A k \in Key, v \in Version : data'[k][v] # Absent => data[k][v] # Absent
    PROVE  ScanInv'
<1>1. MVCCInv /\ MVCCTypeOK /\ IsFiniteSet(DataKeys)
    BY DEF ScanInv, MVCCInv
<1>2. PICK n : n = txn[u].version
    OBVIOUS
<1>3. n \in active
    BY <1>2 DEF IsOpen
<1>4. IsFiniteSet(DataKeys)'
  <2>1. DataKeys' \in SUBSET DataKeys
    BY DEF DataKeys
  <2> QED BY <1>1, <2>1, FS_Subset
<1>5. ASSUME NEW t \in Txn, txn[t] # NoTxn, Eligible(t)', ~txn[t].readOnly
      PROVE  txn[t].version # n /\ Eligible(t)
  <2>1. txn[t].version # n /\ IsOpen(t) /\ ~HasWritten(t)'
    BY <1>2, <1>5 DEF Eligible, IsOpen
  <2>2. HasWritten(t) => HasWritten(t)'
    BY <1>2, <2>1 DEF HasWritten
  <2> QED BY <1>5, <2>1, <2>2 DEF Eligible
<1>6. \A t \in Txn : txn[t] # NoTxn => (Eligible(t)' => Eligible(t))
    BY <1>5 DEF Eligible
<1> QED BY <1>2, <1>3, <1>4, <1>5, <1>6, ScanStays

-----------------------------------------------------------------------------
\* A store without scans.
LEMMA ScanInitInv == ScanInit => ScanInv
<1> SUFFICES ASSUME ScanInit PROVE ScanInv
    OBVIOUS
<1>1. MVCCInv
    BY InitInv DEF ScanInit
<1>2. DataKeys = {}
    BY DEF ScanInit, MVCCInit, DataKeys
<1>3. IsFiniteSet(DataKeys)
    BY <1>2, FS_EmptySet
<1>4. iter = [t \in Scanner |-> End]
    BY DEF ScanInit
<1>5. iter = [t \in Scanner |-> iter[t]] /\ \A t \in Scanner : iter[t] = End
    BY <1>4
<1> QED BY <1>1, <1>3, <1>5 DEF ScanInv

LEMMA ScanNextInv == ScanInv /\ [ScanNext]_scanVars => ScanInv'
<1> SUFFICES ASSUME ScanInv, [ScanNext]_scanVars PROVE ScanInv'
    OBVIOUS
<1>1. CASE UNCHANGED scanVars
  <2>1. MVCCInv' /\ iter' = iter /\ data' = data /\ txn' = txn /\ active' = active
        /\ writes' = writes
    BY <1>1, NextInv DEF scanVars, mvccVars, ScanInv
  <2>2. IsFiniteSet(DataKeys)'
    BY <2>1 DEF ScanInv, DataKeys
  <2>3. \A t \in Txn : Eligible(t)' => Eligible(t)
    BY <2>1 DEF Eligible, IsOpen, HasWritten
  <2> QED BY <2>1, <2>2, <2>3, ScanStays
<1>2. ASSUME NEW t \in Scanner,
             (\E size \in BufferSizes : StartScan(t, size)) \/ FillAndPop(t) \/ PopBuffer(t)
      PROVE  ScanInv'
    BY <1>2, ScanStepInv
<1>3. ASSUME MVCCNext, iter' = iter PROVE ScanInv'
  <2>1. MVCCInv' /\ MVCCInv /\ MVCCTypeOK
    BY <1>3, NextInv DEF ScanInv, MVCCInv
  <2>2. ASSUME NEW u \in Txn, Begin(u) PROVE ScanInv'
    BY <1>3, <2>1, <2>2, BeginKeepsScans DEF Begin
  <2>3. ASSUME NEW u \in Txn, BeginReadOnly(u) PROVE ScanInv'
    BY <1>3, <2>1, <2>3, BeginKeepsScans DEF BeginReadOnly, engine
  <2>4. ASSUME NEW u \in Txn, NEW v \in 0..MaxVersion, BeginAsOf(u, v) PROVE ScanInv'
    BY <1>3, <2>1, <2>4, BeginKeepsScans DEF BeginAsOf, engine
  <2>5. ASSUME NEW u \in Txn, NEW k \in Key, NEW x \in Value \cup {Deleted}, Write(u, k, x)
        PROVE  ScanInv'
    BY <1>3, <2>1, <2>5, WriteKeepsScans
  <2>6. ASSUME NEW u \in Txn, Commit(u) PROVE ScanInv'
    BY <1>3, <2>1, <2>6, EndKeepsScans DEF Commit
  <2>7. ASSUME NEW u \in Txn, Rollback(u) PROVE ScanInv'
    <3>1. \A k \in Key, v \in Version : v # txn[u].version => data'[k][v] = data[k][v]
      BY <2>1, <2>7, OpenTxn DEF Rollback, MVCCTypeOK
    <3>2. \A k \in Key, v \in Version : data'[k][v] # Absent => data[k][v] # Absent
      BY <2>1, <2>7, OpenTxn DEF Rollback, MVCCTypeOK
    <3> QED BY <1>3, <2>1, <2>7, <3>1, <3>2, EndKeepsScans DEF Rollback
  <2> QED BY <1>3, <2>2, <2>3, <2>4, <2>5, <2>6, <2>7 DEF MVCCNext
<1> QED BY <1>1, <1>2, <1>3 DEF ScanNext

\* What a scan has pulled is the beginning of what single reads return.
LEMMA ScansListSnapshots == ScanInv => ScanIsSnapshot
<1> SUFFICES ASSUME ScanInv, NEW t \in Scanner, iter[t] # End,
                    txn[t].readOnly \/ (IsOpen(t) /\ ~HasWritten(t))
             PROVE  /\ IsBeginning(iter[t].out \o iter[t].buffer, Reference(txn[t]))
                    /\ iter[t].remainder = End =>
                          iter[t].out \o iter[t].buffer = Reference(txn[t])
    BY DEF ScanIsSnapshot, IsBeginning
<1>0. PICK expected, pulled :
        expected = Reference(txn[t]) /\ pulled = iter[t].out \o iter[t].buffer
    OBVIOUS
<1>1. PICK s, r : s = txn[t] /\ r = iter[t].remainder
    OBVIOUS
<1>2. /\ MVCCTypeOK /\ IsFiniteSet(DataKeys) /\ s \in TxnState
      /\ Listing(pulled, Before(LiveKeys(s), r), Reads(s)) /\ (r # End => IsPosition(s, r))
  <2>0. pulled = iter[t].out \o iter[t].buffer
    BY <1>0
  <2>1. t \in Txn /\ txn[t] # NoTxn /\ Eligible(t) /\ MVCCTypeOK /\ IsFiniteSet(DataKeys)
    BY ScanAssumption DEF ScanInv, MVCCInv, Eligible
  <2>2. ScanOf(txn[t], iter[t])
    BY <2>1 DEF ScanInv
  <2> QED BY <1>1, <2>0, <2>1, <2>2, TxnStateType DEF ScanOf
<1>3. PICK S, L, g : S = LiveKeys(s) /\ L = Before(S, r) /\ g = Reads(s)
    OBVIOUS
<1>4. Listing(pulled, L, g) /\ Listing(expected, S, g) /\ S \subseteq Nat
    BY <1>0, <1>1, <1>2, <1>3, ReferenceFacts, LiveKeysAreFinite
<1>5. L \in SUBSET S /\ \A k \in L, m \in S : m < k => m \in L
  <2>1. r # End => r[1] \in Nat
    BY <1>2 DEF IsPosition
  <2>2. ASSUME NEW k \in L, NEW m \in S, m < k PROVE m \in L
    <3>1. k \in Nat /\ m \in Nat /\ (r # End => k < r[1])
      BY <1>3, <1>4 DEF Before
    <3>2. r # End => m < r[1]
      BY <2>1, <2>2, <3>1
    <3> QED BY <1>3, <3>2 DEF Before
  <2> QED BY <1>3, <2>2 DEF Before
<1>6. r = End => L = S
    BY <1>3 DEF Before
<1>7. IsBeginning(pulled, expected) /\ (L = S => pulled = expected)
    BY <1>4, <1>5, ListingIsStart
<1> QED BY <1>0, <1>1, <1>6, <1>7

\* A scan reads its transaction's snapshot, whatever other transactions write,
\* commit and roll back between its batches: ScanIterator::next.
THEOREM ScansAreSnapshots == ScanSpec => []ScanIsSnapshot
<1>1. ScanSpec => []ScanInv
    BY ScanInitInv, ScanNextInv, PTL DEF ScanSpec
<1> QED BY <1>1, ScansListSnapshots, PTL

\* Scans only read: what is proved of MVCC is true of it with scans.
LEMMA ScansOnlyRead == ScanSpec => MVCCSpec
<1>1. ScanInit => MVCCInit
    BY DEF ScanInit
<1>2. [ScanNext]_scanVars => [MVCCNext]_mvccVars
  <2> SUFFICES ASSUME [ScanNext]_scanVars PROVE [MVCCNext]_mvccVars
    OBVIOUS
  <2>1. CASE UNCHANGED scanVars
    BY <2>1 DEF scanVars, mvccVars
  <2>2. ASSUME NEW t \in Scanner,
               (\E size \in BufferSizes : StartScan(t, size)) \/ FillAndPop(t) \/ PopBuffer(t)
        PROVE  UNCHANGED mvccVars
    BY <2>2 DEF StartScan, FillAndPop, PopBuffer
  <2> QED BY <2>1, <2>2 DEF ScanNext
<1> QED BY <1>1, <1>2, PTL DEF ScanSpec, MVCCSpec

=============================================================================
