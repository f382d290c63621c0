--------------------------- MODULE SqlState_proofs ---------------------------
(***************************************************************************)
(* Reapplication of the commands of SqlState: a node that crashes in the   *)
(* middle of updates, deletes, commits and rollbacks and applies them      *)
(* again ends up with the engine of a node that has not crashed.  And its  *)
(* secondary indexes, which match the rows for every transaction.          *)
(*                                                                         *)
(* A command is a few writes, each of a record and a version.  What it has *)
(* written it writes again without effect, and what it reads stays the     *)
(* same until its last write, that of the row.                             *)
(*                                                                         *)
(* An active transaction's versions are hidden from all others, and it has *)
(* seen every earlier version of the keys it writes.  So its commit turns  *)
(* what later transactions read of these keys from what it read when it    *)
(* began into what it reads now, and leaves their reads of other keys,     *)
(* which it reads as when it began.  Indexes match rows in both its views. *)
(***************************************************************************)
EXTENDS SqlState, Extrema_proofs

-----------------------------------------------------------------------------
(* Types.                                                                  *)

Stored == Val \cup (SUBSET Id) \cup {Deleted, Absent}

Engines ==
    [next : Nat, active : SUBSET Nat, snapshot : [Version -> SUBSET Nat],
     writes : SUBSET (Nat \X UserKey), data : [UserKey -> [Version -> Stored]],
     applied : Nat]

\* Rows hold values, indexes hold sets of ids.
RowsAreValues(e) ==
    \A id \in Id, v \in Version : e.data[RowKey(id)][v] \in Val \cup {Deleted, Absent}

IndexesAreIds(e) ==
    \A val \in Val, v \in Version :
        e.data[IndexKey(val)][v] \in (SUBSET Id) \cup {Deleted, Absent}

IsEngine(e) == e \in Engines /\ RowsAreValues(e) /\ IndexesAreIds(e)

IsTxn(t) ==
    /\ t \in [version : Version, readOnly : {FALSE}, active : SUBSET Nat]
    /\ t.version \notin t.active

\* A value that may be written at key k.
IsValueOf(k, value) ==
    \/ \E id \in Id : k = RowKey(id) /\ value \in Val \cup {Deleted}
    \/ \E val \in Val : k = IndexKey(val) /\ value \in (SUBSET Id) \cup {Deleted}

-----------------------------------------------------------------------------
(* The engine content of a write, and what is read from it.                *)

Recorded(e, t, k) == [e EXCEPT !.writes = @ \cup {<<t.version, k>>}]

Written(e, t, k, value) == [Recorded(e, t, k) EXCEPT !.data[k][t.version] = value]

Conflict(e, t, k) == Mvcc(e)!WriteConflict(t, k)

Read(e, t, k) == Mvcc(e)!Get(t, k)

\* The transaction has written this value, and may write the key again.
Holds(e, t, k, value) ==
    /\ <<t.version, k>> \in e.writes /\ e.data[k][t.version] = value
    /\ ~Conflict(e, t, k)

LEMMA KeysDiffer ==
    /\ \A id \in Id : RowKey(id) \in UserKey
    /\ \A val \in Val : IndexKey(val) \in UserKey
    /\ \A id \in Id, val \in Val : RowKey(id) # IndexKey(val)
    /\ \A val, other \in Val : IndexKey(val) = IndexKey(other) => val = other
    /\ \A id, other \in Id : RowKey(id) = RowKey(other) => id = other
BY DEF RowKey, IndexKey, UserKey

LEMMA RecordedFields ==
    ASSUME NEW e \in Engines, NEW t, NEW k
    PROVE  /\ Recorded(e, t, k).next = e.next
           /\ Recorded(e, t, k).active = e.active
           /\ Recorded(e, t, k).snapshot = e.snapshot
           /\ Recorded(e, t, k).writes = e.writes \cup {<<t.version, k>>}
           /\ Recorded(e, t, k).data = e.data
           /\ Recorded(e, t, k).applied = e.applied
BY DEF Recorded, Engines

LEMMA RecordedType ==
    ASSUME NEW e, IsEngine(e), NEW t, IsTxn(t), NEW k \in UserKey
    PROVE  IsEngine(Recorded(e, t, k))
<1>1. Recorded(e, t, k) \in Engines
  BY DEF Recorded, Engines, IsEngine, IsTxn, Version
<1>2. Recorded(e, t, k).data = e.data
  BY RecordedFields DEF IsEngine
<1>3. QED
  BY <1>1, <1>2 DEF IsEngine, RowsAreValues, IndexesAreIds

LEMMA WrittenFields ==
    ASSUME NEW e \in Engines, NEW t, NEW k, NEW value
    PROVE  /\ Written(e, t, k, value).next = e.next
           /\ Written(e, t, k, value).active = e.active
           /\ Written(e, t, k, value).snapshot = e.snapshot
           /\ Written(e, t, k, value).writes = e.writes \cup {<<t.version, k>>}
           /\ Written(e, t, k, value).data = [e.data EXCEPT ![k][t.version] = value]
           /\ Written(e, t, k, value).applied = e.applied
BY DEF Written, Recorded, Engines

LEMMA WrittenData ==
    ASSUME NEW e \in Engines, NEW t, IsTxn(t), NEW k \in UserKey, NEW value
    PROVE  /\ \A j \in UserKey : j # k => Written(e, t, k, value).data[j] = e.data[j]
           /\ \A v \in Version : v # t.version =>
                  Written(e, t, k, value).data[k][v] = e.data[k][v]
           /\ Written(e, t, k, value).data[k][t.version] = value
<1>1. Written(e, t, k, value).data = [e.data EXCEPT ![k][t.version] = value]
  BY DEF Written, Recorded, Engines
<1>2. e.data \in [UserKey -> [Version -> Stored]] /\ t.version \in Version
  BY DEF Engines, IsTxn
<1>3. QED
  BY <1>1, <1>2

LEMMA WrittenType ==
    ASSUME NEW e, IsEngine(e), NEW t, IsTxn(t), NEW k \in UserKey, NEW value,
           IsValueOf(k, value)
    PROVE  IsEngine(Written(e, t, k, value))
<1> DEFINE w == Written(e, t, k, value)
<1>1. e \in Engines /\ t.version \in Version /\ t.version \in Nat
  BY DEF IsEngine, IsTxn, Version
<1>2. value \in Stored
  <2>1. value \in Val \cup {Deleted} \/ value \in (SUBSET Id) \cup {Deleted}
    BY DEF IsValueOf
  <2> QED BY <2>1 DEF Stored
<1>3. e.data \in [UserKey -> [Version -> Stored]]
  BY <1>1 DEF Engines
<1>4. [e.data EXCEPT ![k][t.version] = value] \in [UserKey -> [Version -> Stored]]
  BY <1>1, <1>2, <1>3
<1>5. w \in Engines
  <2>1. e.writes \cup {<<t.version, k>>} \in SUBSET (Nat \X UserKey)
    BY <1>1 DEF Engines
  <2>2. w = [Recorded(e, t, k) EXCEPT !.data = [e.data EXCEPT ![k][t.version] = value]]
    BY <1>1 DEF Written, Recorded, Engines
  <2>3. Recorded(e, t, k) \in Engines
    BY <1>1, RecordedType DEF IsEngine
  <2> QED BY <2>2, <2>3, <1>4 DEF Engines
<1>6. RowsAreValues(w)
  <2> SUFFICES ASSUME NEW id \in Id, NEW v \in Version
               PROVE  w.data[RowKey(id)][v] \in Val \cup {Deleted, Absent}
    BY DEF RowsAreValues
  <2>1. RowKey(id) \in UserKey /\ e.data[RowKey(id)][v] \in Val \cup {Deleted, Absent}
    BY KeysDiffer DEF IsEngine, RowsAreValues
  <2>2. CASE RowKey(id) = k
    <3>1. value \in Val \cup {Deleted}
      BY <2>2, KeysDiffer DEF IsValueOf
    <3> QED BY <3>1, <2>1, <2>2, <1>1, WrittenData
  <2>3. CASE RowKey(id) # k
    BY <2>1, <2>3, <1>1, WrittenData
  <2> QED BY <2>2, <2>3
<1>7. IndexesAreIds(w)
  <2> SUFFICES ASSUME NEW val \in Val, NEW v \in Version
               PROVE  w.data[IndexKey(val)][v] \in (SUBSET Id) \cup {Deleted, Absent}
    BY DEF IndexesAreIds
  <2>1. /\ IndexKey(val) \in UserKey
        /\ e.data[IndexKey(val)][v] \in (SUBSET Id) \cup {Deleted, Absent}
    BY KeysDiffer DEF IsEngine, IndexesAreIds
  <2>2. CASE IndexKey(val) = k
    <3>1. value \in (SUBSET Id) \cup {Deleted}
      BY <2>2, KeysDiffer DEF IsValueOf
    <3> QED BY <3>1, <2>1, <2>2, <1>1, WrittenData
  <2>3. CASE IndexKey(val) # k
    BY <2>1, <2>3, <1>1, WrittenData
  <2> QED BY <2>2, <2>3
<1> QED BY <1>5, <1>6, <1>7 DEF IsEngine

-----------------------------------------------------------------------------
(* Reads and conflicts.                                                    *)

LEMMA SameData ==
    ASSUME NEW e, NEW f, NEW t, NEW k, f.data[k] = e.data[k]
    PROVE  Read(f, t, k) = Read(e, t, k) /\ (Conflict(f, t, k) <=> Conflict(e, t, k))
<1>1. \A v : Mvcc(f)!IsVisible(t, v) <=> Mvcc(e)!IsVisible(t, v)
  BY DEF Mvcc!IsVisible
<1>2. Mvcc(f)!VisibleVersions(t, k) = Mvcc(e)!VisibleVersions(t, k)
  BY <1>1 DEF Mvcc!VisibleVersions, Mvcc!Version
<1>3. Mvcc(f)!ScannedForConflicts(t, k) = Mvcc(e)!ScannedForConflicts(t, k)
  BY DEF Mvcc!ScannedForConflicts, Mvcc!Version
<1>4. Read(f, t, k) = Read(e, t, k)
  BY <1>2 DEF Read, Mvcc!Get
<1>5. Conflict(f, t, k) <=> Conflict(e, t, k)
  BY <1>1, <1>3 DEF Conflict, Mvcc!WriteConflict
<1> QED BY <1>4, <1>5

LEMMA OwnIsVisible ==
    ASSUME NEW e, NEW t, IsTxn(t)
    PROVE  Mvcc(e)!IsVisible(t, t.version)
<1>1. t.version \in Version /\ t.version \notin t.active /\ t.readOnly = FALSE
  BY DEF IsTxn
<1>2. t.version \in Nat
  BY <1>1 DEF Version
<1> QED BY <1>1, <1>2 DEF Mvcc!IsVisible

LEMMA ReadOwn ==
    ASSUME NEW e, NEW t, IsTxn(t), NEW k \in UserKey, e.data[k][t.version] # Absent
    PROVE  Read(e, t, k) = e.data[k][t.version]
<1> DEFINE seen == Mvcc(e)!VisibleVersions(t, k)
<1>1. t.version \in Version /\ t.version \in Nat
  BY DEF IsTxn, Version
<1>2. seen \subseteq Version /\ \A v \in seen : v \in Nat /\ v <= t.version
  BY DEF Mvcc!VisibleVersions, Mvcc!Version, Version
<1>3. t.version \in seen
  BY <1>1, OwnIsVisible DEF Mvcc!VisibleVersions, Mvcc!Version, Version
<1>4. \A u \in seen : (\A w \in seen : w <= u) <=> u = t.version
  BY <1>1, <1>2, <1>3
<1>5. (CHOOSE u \in seen : \A w \in seen : w <= u) = t.version
  BY <1>3, <1>4
<1> QED BY <1>3, <1>5 DEF Read, Mvcc!Get

\* A transaction's own version is no conflict.
LEMMA OwnIsNoConflict ==
    ASSUME NEW e, IsEngine(e), NEW t, IsTxn(t), NEW k \in UserKey,
           NEW value, value # Absent, ~Conflict(e, t, k)
    PROVE  ~Conflict(Written(e, t, k, value), t, k)
<1> DEFINE w == Written(e, t, k, value)
<1>1. t.version \in Version /\ t.version \in Nat
  BY DEF IsTxn, Version
<1>2. \A v \in Version : v # t.version => w.data[k][v] = e.data[k][v]
  BY WrittenData DEF IsEngine
<1>3. w.data[k][t.version] = value
  BY WrittenData DEF IsEngine
<1> HIDE DEF w
<1>4. Mvcc(e)!ScannedForConflicts(t, k) \subseteq Mvcc(w)!ScannedForConflicts(t, k)
  BY <1>2, <1>3 DEF Mvcc!ScannedForConflicts, Mvcc!Version, Version
<1>5. \A v \in Mvcc(w)!ScannedForConflicts(t, k) :
          v = t.version \/ v \in Mvcc(e)!ScannedForConflicts(t, k)
  BY <1>2 DEF Mvcc!ScannedForConflicts, Mvcc!Version, Version
<1>6. Mvcc(w)!IsVisible(t, t.version)
  BY <1>1, OwnIsVisible
<1>7. \A v : Mvcc(w)!IsVisible(t, v) <=> Mvcc(e)!IsVisible(t, v)
  BY DEF Mvcc!IsVisible
<1>8. ~Mvcc(w)!WriteConflict(t, k)
  BY <1>4, <1>5, <1>6, <1>7 DEF Conflict, Mvcc!WriteConflict
<1> QED BY <1>8 DEF Conflict, w

LEMMA WrittenHolds ==
    ASSUME NEW e, IsEngine(e), NEW t, IsTxn(t), NEW k \in UserKey,
           NEW value, value # Absent, ~Conflict(e, t, k)
    PROVE  Holds(Written(e, t, k, value), t, k, value)
<1>1. e \in Engines
  BY DEF IsEngine
<1>2. Written(e, t, k, value).writes = e.writes \cup {<<t.version, k>>}
  BY <1>1 DEF Written, Recorded, Engines
<1> QED BY <1>1, <1>2, WrittenData, OwnIsNoConflict DEF Holds

\* Other writes leave a key as it is.
LEMMA OthersStay ==
    ASSUME NEW e, IsEngine(e), NEW t, IsTxn(t), NEW k \in UserKey, NEW value,
           NEW j \in UserKey, j # k
    PROVE  /\ Read(Written(e, t, k, value), t, j) = Read(e, t, j)
           /\ (Conflict(Written(e, t, k, value), t, j) <=> Conflict(e, t, j))
           /\ \A other : Holds(e, t, j, other) => Holds(Written(e, t, k, value), t, j, other)
<1>1. e \in Engines
  BY DEF IsEngine
<1>2. Written(e, t, k, value).writes = e.writes \cup {<<t.version, k>>}
  BY <1>1 DEF Written, Recorded, Engines
<1>3. Written(e, t, k, value).data[j] = e.data[j]
  BY <1>1, WrittenData
<1>4. /\ Read(Written(e, t, k, value), t, j) = Read(e, t, j)
      /\ (Conflict(Written(e, t, k, value), t, j) <=> Conflict(e, t, j))
  BY <1>3, SameData
<1> QED BY <1>2, <1>3, <1>4 DEF Holds

LEMMA RecordsStay ==
    ASSUME NEW e, IsEngine(e), NEW t, NEW k, NEW j
    PROVE  /\ Read(Recorded(e, t, k), t, j) = Read(e, t, j)
           /\ (Conflict(Recorded(e, t, k), t, j) <=> Conflict(e, t, j))
           /\ \A other : Holds(e, t, j, other) => Holds(Recorded(e, t, k), t, j, other)
<1>1. e \in Engines
  BY DEF IsEngine
<1>2. Recorded(e, t, k).data = e.data /\ Recorded(e, t, k).writes = e.writes \cup {<<t.version, k>>}
  BY <1>1, RecordedFields
<1>3. /\ Read(Recorded(e, t, k), t, j) = Read(e, t, j)
      /\ (Conflict(Recorded(e, t, k), t, j) <=> Conflict(e, t, j))
  BY <1>2, SameData
<1> QED BY <1>2, <1>3 DEF Holds

\* A write that is made again changes nothing.
LEMMA WrittenAgain ==
    ASSUME NEW e, IsEngine(e), NEW t, IsTxn(t), NEW k \in UserKey, NEW value,
           Holds(e, t, k, value)
    PROVE  Recorded(e, t, k) = e /\ Written(e, t, k, value) = e
<1>1. e \in Engines /\ e.data \in [UserKey -> [Version -> Stored]]
  BY DEF IsEngine, Engines
<1>2. Recorded(e, t, k) = e
  BY <1>1 DEF Holds, Recorded, Engines
<1>3. [e.data EXCEPT ![k][t.version] = value] = e.data
  BY <1>1 DEF Holds
<1>4. Written(e, t, k, value) = [e EXCEPT !.data = [e.data EXCEPT ![k][t.version] = value]]
  BY <1>1, <1>2 DEF Written, Engines
<1> QED BY <1>1, <1>2, <1>3, <1>4 DEF Engines

LEMMA WrittenAfterRecord ==
    ASSUME NEW e, IsEngine(e), NEW t, NEW k, NEW value
    PROVE  /\ Recorded(Recorded(e, t, k), t, k) = Recorded(e, t, k)
           /\ Written(Recorded(e, t, k), t, k, value) = Written(e, t, k, value)
<1>1. e \in Engines
  BY DEF IsEngine
<1>2. Recorded(Recorded(e, t, k), t, k) = Recorded(e, t, k)
  BY <1>1 DEF Recorded, Engines
<1> QED BY <1>2 DEF Written

LEMMA ReadType ==
    ASSUME NEW e, IsEngine(e), NEW t, NEW k \in UserKey
    PROVE  /\ \A id \in Id : k = RowKey(id) => Read(e, t, k) \in Val \cup {Deleted}
           /\ \A val \in Val : k = IndexKey(val) => Read(e, t, k) \in (SUBSET Id) \cup {Deleted}
<1> DEFINE seen == Mvcc(e)!VisibleVersions(t, k)
<1> DEFINE last == CHOOSE v \in seen : \A w \in seen : w <= v
<1>1. \A v \in seen : v \in Version /\ e.data[k][v] # Absent
  BY DEF Mvcc!VisibleVersions, Mvcc!Version, Version
<1>2. CASE seen = {}
  BY <1>2 DEF Read, Mvcc!Get
<1>3. CASE \E v \in seen : \A w \in seen : w <= v
  <2>1. last \in seen
    BY <1>3
  <2>2. Read(e, t, k) = e.data[k][last]
    BY <2>1 DEF Read, Mvcc!Get
  <2>3. last \in Version /\ e.data[k][last] # Absent
    BY <2>1, <1>1
  <2> HIDE DEF last
  <2> QED BY <2>2, <2>3 DEF IsEngine, RowsAreValues, IndexesAreIds
<1>4. seen # {} => \E v \in seen : \A w \in seen : w <= v
  <2>1. seen \subseteq 0..MaxVersion /\ MaxVersion \in Nat
    BY <1>1, SqlStateAssumption DEF Version
  <2> HIDE DEF seen
  <2> QED BY <2>1, HasMaximum
<1> QED BY <1>2, <1>3, <1>4

-----------------------------------------------------------------------------
(* One write of a command.                                                 *)

IsExecution(x) ==
    /\ x \in [now : Engines, before : SUBSET Engines, failed : BOOLEAN]
    /\ IsEngine(x.now) /\ \A e \in x.before : IsEngine(e)

\* Two executions that go on in the same way.
Same(x, y) == x.now = y.now /\ x.failed = y.failed

\* Nothing is left to write.
IsAt(x, e) == x.now = e /\ ~x.failed

LEMMA StartType ==
    ASSUME NEW e, IsEngine(e)
    PROVE  IsExecution(Start(e)) /\ IsAt(Start(e), e) /\ Start(e).before = {}
BY DEF IsExecution, IsAt, Start, IsEngine

LEMMA WriteFails ==
    ASSUME NEW x, IsExecution(x), NEW t, NEW k, NEW value,
           x.failed \/ Conflict(x.now, t, k)
    PROVE  /\ IsExecution(WriteVersion(x, t, k, value))
           /\ WriteVersion(x, t, k, value).failed
           /\ WriteVersion(x, t, k, value).now = x.now
           /\ WriteVersion(x, t, k, value).before = x.before
BY DEF WriteVersion, Fail, Conflict, IsExecution

LEMMA WriteSucceeds ==
    ASSUME NEW x, IsExecution(x), NEW t, IsTxn(t), NEW k \in UserKey, NEW value,
           IsValueOf(k, value), ~x.failed, ~Conflict(x.now, t, k)
    PROVE  /\ IsExecution(WriteVersion(x, t, k, value))
           /\ ~WriteVersion(x, t, k, value).failed
           /\ WriteVersion(x, t, k, value).now = Written(x.now, t, k, value)
           /\ WriteVersion(x, t, k, value).before =
                  x.before \cup {x.now, Recorded(x.now, t, k)}
<1> DEFINE w == Written(x.now, t, k, value)
           r == Recorded(x.now, t, k)
<1>1. IsEngine(r) /\ IsEngine(w) /\ IsEngine(x.now)
  BY RecordedType, WrittenType DEF IsExecution
<1>2. w = [r EXCEPT !.data[k][t.version] = value]
  BY DEF Written
<1>3. WriteVersion(x, t, k, value) = Then(Then(x, r), w)
  BY DEF WriteVersion, Conflict, Recorded, Written
<1> HIDE DEF w, r
<1>4. Then(Then(x, r), w) = [x EXCEPT !.before = x.before \cup {x.now, r}, !.now = w]
  BY DEF Then, IsExecution
<1>5. QED
  BY <1>1, <1>3, <1>4 DEF IsExecution, IsEngine, w, r

LEMMA ValuesAreNotAbsent ==
    ASSUME NEW k, NEW value, IsValueOf(k, value)
    PROVE  value # Absent
BY StoredAssumption DEF IsValueOf

LEMMA WriteType ==
    ASSUME NEW x, IsExecution(x), NEW t, IsTxn(t), NEW k \in UserKey, NEW value,
           IsValueOf(k, value)
    PROVE  IsExecution(WriteVersion(x, t, k, value))
BY WriteFails, WriteSucceeds

LEMMA WriteIsDetermined ==
    ASSUME NEW x, IsExecution(x), NEW t, IsTxn(t), NEW k \in UserKey, NEW value,
           IsValueOf(k, value), NEW y, IsExecution(y), Same(x, y)
    PROVE  Same(WriteVersion(x, t, k, value), WriteVersion(y, t, k, value))
<1>1. x.now = y.now /\ x.failed = y.failed
  BY DEF Same
<1>2. CASE x.failed \/ Conflict(x.now, t, k)
  <2>1. /\ WriteVersion(x, t, k, value).failed
        /\ WriteVersion(x, t, k, value).now = x.now
    BY <1>2, WriteFails
  <2>2. /\ WriteVersion(y, t, k, value).failed
        /\ WriteVersion(y, t, k, value).now = x.now
    BY <1>1, <1>2, WriteFails
  <2>3. IsExecution(WriteVersion(x, t, k, value)) /\ IsExecution(WriteVersion(y, t, k, value))
    BY WriteType
  <2> QED BY <2>1, <2>2, <2>3 DEF Same, IsExecution
<1>3. CASE ~x.failed /\ ~Conflict(x.now, t, k)
  <2>1. /\ ~WriteVersion(x, t, k, value).failed
        /\ WriteVersion(x, t, k, value).now = Written(x.now, t, k, value)
    BY <1>3, WriteSucceeds
  <2>2. /\ ~WriteVersion(y, t, k, value).failed
        /\ WriteVersion(y, t, k, value).now = Written(x.now, t, k, value)
    BY <1>1, <1>3, WriteSucceeds
  <2>3. IsExecution(WriteVersion(x, t, k, value)) /\ IsExecution(WriteVersion(y, t, k, value))
    BY WriteType
  <2> QED BY <2>1, <2>2, <2>3 DEF Same, IsExecution
<1> QED BY <1>2, <1>3

\* The write was interrupted between its record and its version.
LEMMA WriteGoesOn ==
    ASSUME NEW x, IsExecution(x), NEW t, IsTxn(t), NEW k \in UserKey, NEW value,
           IsValueOf(k, value), NEW y, IsExecution(y),
           ~x.failed, ~Conflict(x.now, t, k), IsAt(y, Recorded(x.now, t, k))
    PROVE  Same(WriteVersion(y, t, k, value), WriteVersion(x, t, k, value))
<1>1. IsEngine(x.now) /\ ~y.failed /\ y.now = Recorded(x.now, t, k)
  BY DEF IsExecution, IsAt
<1>2. ~Conflict(y.now, t, k)
  BY <1>1, RecordsStay
<1>3. /\ ~WriteVersion(y, t, k, value).failed
      /\ WriteVersion(y, t, k, value).now = Written(y.now, t, k, value)
  BY <1>1, <1>2, WriteSucceeds
<1>4. /\ ~WriteVersion(x, t, k, value).failed
      /\ WriteVersion(x, t, k, value).now = Written(x.now, t, k, value)
  BY WriteSucceeds
<1>5. Written(y.now, t, k, value) = Written(x.now, t, k, value)
  BY <1>1, WrittenAfterRecord
<1>6. IsExecution(WriteVersion(x, t, k, value)) /\ IsExecution(WriteVersion(y, t, k, value))
  BY WriteType
<1> QED BY <1>3, <1>4, <1>5, <1>6 DEF Same, IsExecution

\* The write was done.
LEMMA WriteIsDone ==
    ASSUME NEW y, IsExecution(y), NEW t, IsTxn(t), NEW k \in UserKey, NEW value,
           IsValueOf(k, value), ~y.failed, Holds(y.now, t, k, value)
    PROVE  IsAt(WriteVersion(y, t, k, value), y.now)
<1>1. IsEngine(y.now) /\ ~Conflict(y.now, t, k)
  BY DEF IsExecution, Holds
<1>2. Written(y.now, t, k, value) = y.now
  BY <1>1, WrittenAgain
<1> QED BY <1>1, <1>2, WriteSucceeds DEF IsAt

-----------------------------------------------------------------------------
(* An index entry's ids, with an id added or removed.                      *)

IndexValue(e, t, val, id, adding) ==
    LET r    == Read(e, t, IndexKey(val))
        old  == IF r = Deleted THEN {} ELSE r
        ids  == IF adding THEN old \cup {id} ELSE old \ {id}
    IN  IF ids = {} THEN Deleted ELSE ids

Reindex(x, t, val, id, adding) ==
    WriteVersion(x, t, IndexKey(val), IndexValue(x.now, t, val, id, adding))

LEMMA ReindexIs ==
    ASSUME NEW x, NEW t, NEW val, NEW id
    PROVE  /\ SetIndex(x, t, val, GetIndex(x, t, val) \ {id}) = Reindex(x, t, val, id, FALSE)
           /\ SetIndex(x, t, val, GetIndex(x, t, val) \cup {id}) = Reindex(x, t, val, id, TRUE)
BY DEF SetIndex, GetIndex, Reindex, IndexValue, Read

LEMMA IndexValueType ==
    ASSUME NEW e, IsEngine(e), NEW t, NEW val \in Val, NEW id \in Id, NEW adding \in BOOLEAN
    PROVE  IsValueOf(IndexKey(val), IndexValue(e, t, val, id, adding))
<1>1. Read(e, t, IndexKey(val)) \in (SUBSET Id) \cup {Deleted}
  BY ReadType, KeysDiffer
<1>2. IndexValue(e, t, val, id, adding) \in (SUBSET Id) \cup {Deleted}
  BY <1>1 DEF IndexValue
<1> QED BY <1>2 DEF IsValueOf

LEMMA SameIndexValue ==
    ASSUME NEW e, NEW s, NEW t, NEW val, NEW id, NEW adding,
           Read(s, t, IndexKey(val)) = Read(e, t, IndexKey(val))
    PROVE  IndexValue(s, t, val, id, adding) = IndexValue(e, t, val, id, adding)
BY DEF IndexValue

LEMMA HeldIndexValue ==
    ASSUME NEW e, IsEngine(e), NEW t, IsTxn(t), NEW val \in Val, NEW id \in Id,
           NEW adding \in BOOLEAN, NEW s, IsEngine(s),
           Holds(s, t, IndexKey(val), IndexValue(e, t, val, id, adding))
    PROVE  IndexValue(s, t, val, id, adding) = IndexValue(e, t, val, id, adding)
<1> DEFINE value == IndexValue(e, t, val, id, adding)
           r     == Read(e, t, IndexKey(val))
           old   == IF r = Deleted THEN {} ELSE r
           ids   == IF adding THEN old \cup {id} ELSE old \ {id}
<1>1. IndexKey(val) \in UserKey /\ value # Absent
  BY KeysDiffer, IndexValueType, ValuesAreNotAbsent
<1>2. Read(s, t, IndexKey(val)) = value
  BY <1>1, ReadOwn DEF Holds
<1>3. r \in (SUBSET Id) \cup {Deleted}
  BY <1>1, ReadType
<1>4. value = IF ids = {} THEN Deleted ELSE ids
  BY DEF IndexValue
<1>5. ids \in SUBSET Id
  BY <1>3
<1>6. ids # Deleted /\ (IF adding THEN ids \cup {id} ELSE ids \ {id}) = ids
  BY <1>5, StoredAssumption
<1> HIDE DEF ids
<1>7. (IF value = Deleted THEN {} ELSE value) = ids
  BY <1>4, <1>6
<1> HIDE DEF value
<1>8. IndexValue(s, t, val, id, adding) = IF ids = {} THEN Deleted ELSE ids
  BY <1>2, <1>6, <1>7 DEF IndexValue
<1> QED BY <1>4, <1>8 DEF value

LEMMA ReindexIsDetermined ==
    ASSUME NEW x, IsExecution(x), NEW t, IsTxn(t), NEW val \in Val, NEW id \in Id,
           NEW adding \in BOOLEAN, NEW y, IsExecution(y), Same(x, y)
    PROVE  Same(Reindex(x, t, val, id, adding), Reindex(y, t, val, id, adding))
<1>1. IndexValue(y.now, t, val, id, adding) = IndexValue(x.now, t, val, id, adding)
  BY DEF Same
<1>2. IsValueOf(IndexKey(val), IndexValue(x.now, t, val, id, adding)) /\ IndexKey(val) \in UserKey
  BY IndexValueType, KeysDiffer DEF IsExecution
<1> QED BY <1>1, <1>2, WriteIsDetermined DEF Reindex

LEMMA ReindexFails ==
    ASSUME NEW x, IsExecution(x), NEW t, NEW val, NEW id, NEW adding,
           x.failed \/ Conflict(x.now, t, IndexKey(val))
    PROVE  /\ IsExecution(Reindex(x, t, val, id, adding))
           /\ Reindex(x, t, val, id, adding).failed
           /\ Reindex(x, t, val, id, adding).now = x.now
           /\ Reindex(x, t, val, id, adding).before = x.before
BY WriteFails DEF Reindex

LEMMA ReindexSucceeds ==
    ASSUME NEW x, IsExecution(x), NEW t, IsTxn(t), NEW val \in Val, NEW id \in Id,
           NEW adding \in BOOLEAN, ~x.failed, ~Conflict(x.now, t, IndexKey(val))
    PROVE  /\ IsExecution(Reindex(x, t, val, id, adding))
           /\ ~Reindex(x, t, val, id, adding).failed
           /\ Reindex(x, t, val, id, adding).now =
                  Written(x.now, t, IndexKey(val), IndexValue(x.now, t, val, id, adding))
           /\ Reindex(x, t, val, id, adding).before =
                  x.before \cup {x.now, Recorded(x.now, t, IndexKey(val))}
           /\ Holds(Reindex(x, t, val, id, adding).now, t, IndexKey(val),
                    IndexValue(x.now, t, val, id, adding))
<1>1. /\ IsValueOf(IndexKey(val), IndexValue(x.now, t, val, id, adding))
      /\ IndexKey(val) \in UserKey /\ IsEngine(x.now)
  BY IndexValueType, KeysDiffer DEF IsExecution
<1>2. IndexValue(x.now, t, val, id, adding) # Absent
  BY <1>1, ValuesAreNotAbsent
<1>3. Holds(Written(x.now, t, IndexKey(val), IndexValue(x.now, t, val, id, adding)),
            t, IndexKey(val), IndexValue(x.now, t, val, id, adding))
  BY <1>1, <1>2, WrittenHolds
<1> QED BY <1>1, <1>3, WriteSucceeds DEF Reindex

LEMMA ReindexType ==
    ASSUME NEW x, IsExecution(x), NEW t, IsTxn(t), NEW val \in Val, NEW id \in Id,
           NEW adding \in BOOLEAN
    PROVE  IsExecution(Reindex(x, t, val, id, adding))
BY ReindexFails, ReindexSucceeds

LEMMA ReindexGoesOn ==
    ASSUME NEW x, IsExecution(x), NEW t, IsTxn(t), NEW val \in Val, NEW id \in Id,
           NEW adding \in BOOLEAN, NEW y, IsExecution(y),
           ~x.failed, ~Conflict(x.now, t, IndexKey(val)),
           IsAt(y, Recorded(x.now, t, IndexKey(val)))
    PROVE  Same(Reindex(y, t, val, id, adding), Reindex(x, t, val, id, adding))
<1>1. IsEngine(x.now) /\ y.now = Recorded(x.now, t, IndexKey(val))
  BY DEF IsExecution, IsAt
<1>2. Read(y.now, t, IndexKey(val)) = Read(x.now, t, IndexKey(val))
  BY <1>1, RecordsStay
<1>3. IndexValue(y.now, t, val, id, adding) = IndexValue(x.now, t, val, id, adding)
  BY <1>2, SameIndexValue
<1>4. IsValueOf(IndexKey(val), IndexValue(x.now, t, val, id, adding)) /\ IndexKey(val) \in UserKey
  BY <1>1, IndexValueType, KeysDiffer
<1> QED BY <1>3, <1>4, WriteGoesOn DEF Reindex

LEMMA ReindexIsDone ==
    ASSUME NEW e, IsEngine(e), NEW t, IsTxn(t), NEW val \in Val, NEW id \in Id,
           NEW adding \in BOOLEAN, NEW y, IsExecution(y), ~y.failed,
           Holds(y.now, t, IndexKey(val), IndexValue(e, t, val, id, adding))
    PROVE  IsAt(Reindex(y, t, val, id, adding), y.now)
<1>1. IndexValue(y.now, t, val, id, adding) = IndexValue(e, t, val, id, adding)
  BY HeldIndexValue DEF IsExecution
<1>2. IsValueOf(IndexKey(val), IndexValue(e, t, val, id, adding)) /\ IndexKey(val) \in UserKey
  BY IndexValueType, KeysDiffer
<1> QED BY <1>1, <1>2, WriteIsDone DEF Reindex

-----------------------------------------------------------------------------
(* The same, of a write that is named y.                                   *)

Fails(x, y) == y.failed /\ y.now = x.now /\ y.before = x.before

Succeeds(x, y, t, k, value) ==
    /\ ~y.failed /\ y.now = Written(x.now, t, k, value)
    /\ y.before = x.before \cup {x.now, Recorded(x.now, t, k)}
    /\ Holds(y.now, t, k, value)

LEMMA ReindexOutcome ==
    ASSUME NEW x, NEW t, NEW val \in Val, NEW id \in Id, NEW adding \in BOOLEAN,
           NEW y, NEW k, IsExecution(x), IsTxn(t),
           y = Reindex(x, t, val, id, adding), k = IndexKey(val)
    PROVE  /\ IsExecution(y)
           /\ x.failed \/ Conflict(x.now, t, k) => Fails(x, y)
           /\ ~x.failed /\ ~Conflict(x.now, t, k) =>
                  Succeeds(x, y, t, k, IndexValue(x.now, t, val, id, adding))
<1>1. IsExecution(y)
  BY ReindexType
<1>2. x.failed \/ Conflict(x.now, t, k) => Fails(x, y)
  BY ReindexFails DEF Fails
<1>3. ~x.failed /\ ~Conflict(x.now, t, k) =>
          Succeeds(x, y, t, k, IndexValue(x.now, t, val, id, adding))
  BY ReindexSucceeds DEF Succeeds
<1> QED BY <1>1, <1>2, <1>3

LEMMA RowOutcome ==
    ASSUME NEW x, NEW t, NEW id \in Id, NEW value \in Val \cup {Deleted},
           NEW y, NEW k, IsExecution(x), IsTxn(t),
           y = WriteVersion(x, t, k, value), k = RowKey(id)
    PROVE  /\ IsExecution(y)
           /\ x.failed \/ Conflict(x.now, t, k) => Fails(x, y)
           /\ ~x.failed /\ ~Conflict(x.now, t, k) => Succeeds(x, y, t, k, value)
<1>0. IsValueOf(k, value) /\ k \in UserKey /\ value # Absent /\ IsEngine(x.now)
  BY KeysDiffer, ValuesAreNotAbsent DEF IsValueOf, IsExecution
<1>1. IsExecution(y)
  BY <1>0, WriteType
<1>2. x.failed \/ Conflict(x.now, t, k) => Fails(x, y)
  BY WriteFails DEF Fails
<1>3. ~x.failed /\ ~Conflict(x.now, t, k) => Succeeds(x, y, t, k, value)
  BY <1>0, WriteSucceeds, WrittenHolds DEF Succeeds
<1> QED BY <1>1, <1>2, <1>3

\* After a write, the other keys are read as before.
OthersAreRead(x, y, t, k) ==
    \A j \in UserKey : j # k =>
        /\ Read(y.now, t, j) = Read(x.now, t, j)
        /\ \A other : Holds(x.now, t, j, other) => Holds(y.now, t, j, other)

LEMMA OthersAreReadAfter ==
    ASSUME NEW x, NEW y, NEW t, NEW k \in UserKey, NEW value, IsExecution(x), IsTxn(t),
           Succeeds(x, y, t, k, value)
    PROVE  OthersAreRead(x, y, t, k)
<1>1. IsEngine(x.now) /\ y.now = Written(x.now, t, k, value)
  BY DEF IsExecution, Succeeds
<1> QED BY <1>1, OthersStay DEF OthersAreRead

KeepsReads(e, s, t) ==
    \A j : /\ Read(s, t, j) = Read(e, t, j)
           /\ \A other : Holds(e, t, j, other) => Holds(s, t, j, other)

LEMMA RecordsKeepReads ==
    ASSUME NEW e, NEW t, NEW k, NEW s, IsEngine(e), s = Recorded(e, t, k)
    PROVE  KeepsReads(e, s, t)
BY RecordsStay DEF KeepsReads

-----------------------------------------------------------------------------
(* An update that moves a row from one index entry to another.             *)

\* The second index entry, if the first was written.
Added(x, t, val, id) == IF x.failed THEN x ELSE Reindex(x, t, val, id, TRUE)

Moved(x, t, id, old, val) ==
    WriteVersion(Added(Reindex(x, t, old, id, FALSE), t, val, id), t, RowKey(id), val)

LEMMA AddedType ==
    ASSUME NEW x, IsExecution(x), NEW t, IsTxn(t), NEW val \in Val, NEW id \in Id
    PROVE  IsExecution(Added(x, t, val, id))
BY ReindexType DEF Added

LEMMA AddedIsDetermined ==
    ASSUME NEW x, IsExecution(x), NEW t, IsTxn(t), NEW val \in Val, NEW id \in Id,
           NEW y, IsExecution(y), Same(x, y)
    PROVE  Same(Added(x, t, val, id), Added(y, t, val, id))
<1>1. Same(Reindex(x, t, val, id, TRUE), Reindex(y, t, val, id, TRUE))
  BY ReindexIsDetermined
<1> QED BY <1>1 DEF Added, Same

LEMMA RowWriteIsDetermined ==
    ASSUME NEW x, IsExecution(x), NEW t, IsTxn(t), NEW id \in Id, NEW value \in Val \cup {Deleted},
           NEW y, IsExecution(y), Same(x, y)
    PROVE  Same(WriteVersion(x, t, RowKey(id), value), WriteVersion(y, t, RowKey(id), value))
<1>1. IsValueOf(RowKey(id), value) /\ RowKey(id) \in UserKey
  BY KeysDiffer DEF IsValueOf
<1> QED BY <1>1, WriteIsDetermined

\* What a crash in such an update leaves leads to the same end, and still holds
\* the row that was read, unless the update was complete.
LEMMA MovedAgain ==
    ASSUME NEW e, IsEngine(e), NEW t, IsTxn(t), NEW id \in Id,
           NEW old \in Val, NEW val \in Val, old # val,
           NEW s \in Moved(Start(e), t, id, old, val).before
                     \cup {Moved(Start(e), t, id, old, val).now}
    PROVE  /\ IsEngine(s)
           /\ Moved(Start(s), t, id, old, val).now = Moved(Start(e), t, id, old, val).now
           /\ \/ Read(s, t, RowKey(id)) = Read(e, t, RowKey(id))
              \/ /\ s = Moved(Start(e), t, id, old, val).now
                 /\ Holds(s, t, RowKey(id), val)
<1>0. PICK k1, k2, k3 : k1 = IndexKey(old) /\ k2 = IndexKey(val) /\ k3 = RowKey(id)
  OBVIOUS
<1>1. /\ k1 \in UserKey /\ k2 \in UserKey /\ k3 \in UserKey
      /\ k1 # k2 /\ k1 # k3 /\ k2 # k3 /\ IsValueOf(k3, val)
  BY <1>0, KeysDiffer DEF IsValueOf
<1>2. PICK y1 : y1 = Reindex(Start(e), t, old, id, FALSE)
  OBVIOUS
<1>3. PICK y2 : y2 = Added(y1, t, val, id)
  OBVIOUS
<1>4. PICK y3 : y3 = WriteVersion(y2, t, k3, val)
  OBVIOUS
<1>5. Moved(Start(e), t, id, old, val) = y3
  BY <1>0, <1>2, <1>3, <1>4 DEF Moved
<1>6. IsExecution(Start(e)) /\ IsAt(Start(e), e) /\ Start(e).before = {}
  BY StartType
<1>7. Start(e).now = e /\ ~Start(e).failed
  BY <1>6 DEF IsAt
<1>8. IsExecution(y1) /\ IsExecution(y2) /\ IsExecution(y3)
  BY <1>1, <1>2, <1>3, <1>4, <1>6, ReindexType, AddedType, WriteType
<1>9. s \in y3.before \cup {y3.now} /\ IsEngine(s)
  BY <1>5, <1>8 DEF IsExecution
<1>10. IsExecution(Start(s)) /\ IsAt(Start(s), s) /\ Start(s).now = s /\ ~Start(s).failed
  BY <1>9, StartType DEF IsAt
<1>11. PICK z1 : z1 = Reindex(Start(s), t, old, id, FALSE)
  OBVIOUS
<1>12. PICK z2 : z2 = Added(z1, t, val, id)
  OBVIOUS
<1>13. PICK z3 : z3 = WriteVersion(z2, t, k3, val)
  OBVIOUS
<1>14. Moved(Start(s), t, id, old, val) = z3
  BY <1>0, <1>11, <1>12, <1>13 DEF Moved
<1>15. IsExecution(z1) /\ IsExecution(z2) /\ IsExecution(z3)
  BY <1>1, <1>10, <1>11, <1>12, <1>13, ReindexType, AddedType, WriteType
<1>16. Same(z1, y1) => Same(z2, y2)
  BY <1>3, <1>8, <1>12, <1>15, AddedIsDetermined
<1>17. Same(z2, y2) => z3.now = y3.now
  BY <1>0, <1>4, <1>8, <1>13, <1>15, RowWriteIsDetermined DEF Same
<1>18. SUFFICES /\ z3.now = y3.now
                /\ \/ Read(s, t, k3) = Read(e, t, k3)
                   \/ s = y3.now /\ Holds(s, t, k3, val)
  BY <1>0, <1>5, <1>9, <1>14
<1>19. CASE Conflict(e, t, k1)
  <2>1. y1.failed /\ y1.now = e /\ y1.before = {}
    <3>0. Conflict(Start(e).now, t, k1) /\ FALSE \in BOOLEAN
      BY <1>7, <1>19
    <3>1. Fails(Start(e), y1)
      BY <1>0, <1>2, <1>6, <3>0, ReindexOutcome
    <3> QED BY <3>1, <1>6, <1>7 DEF Fails
  <2>2. y2 = y1
    BY <1>3, <2>1 DEF Added
  <2>3. y3.now = e /\ y3.before = {}
    BY <1>4, <1>8, <2>1, <2>2, WriteFails
  <2>4. s = e
    BY <1>9, <2>3
  <2> QED BY <2>4, <1>5, <1>14
<1>20. CASE ~Conflict(e, t, k1)
  <2>00. PICK v1 : v1 = IndexValue(e, t, old, id, FALSE)
    OBVIOUS
  <2>0. Succeeds(Start(e), y1, t, k1, v1)
    BY <1>0, <1>2, <1>6, <1>7, <1>20, <2>00, ReindexOutcome
  <2>1. /\ ~y1.failed /\ y1.now = Written(e, t, k1, v1)
        /\ y1.before = {e, Recorded(e, t, k1)} /\ Holds(y1.now, t, k1, v1)
    BY <1>6, <1>7, <2>0 DEF Succeeds
  <2>2. IsEngine(y1.now) /\ Read(y1.now, t, k3) = Read(e, t, k3)
    <3>1. OthersAreRead(Start(e), y1, t, k1)
      BY <1>1, <1>6, <2>0, OthersAreReadAfter
    <3> QED BY <1>1, <1>7, <1>8, <3>1 DEF IsExecution, OthersAreRead
  <2>3. ASSUME s \in {e, Recorded(e, t, k1)}
        PROVE  z3.now = y3.now /\ Read(s, t, k3) = Read(e, t, k3)
    <3>1. Same(z1, y1)
      <4>1. CASE s = e
        BY <4>1, <1>2, <1>11 DEF Same
      <4>2. CASE s = Recorded(e, t, k1)
        BY <4>2, <1>0, <1>2, <1>6, <1>7, <1>10, <1>11, <1>20, ReindexGoesOn
      <4> QED BY <2>3, <4>1, <4>2
    <3>2. Read(s, t, k3) = Read(e, t, k3)
      BY <2>3, RecordsStay
    <3> QED BY <3>1, <3>2, <1>16, <1>17
  <2>4. Holds(s, t, k1, v1) => IsAt(z1, s)
    BY <1>0, <1>10, <1>11, <2>00, ReindexIsDone
  <2>5. ASSUME s = y1.now
        PROVE  z3.now = y3.now /\ Read(s, t, k3) = Read(e, t, k3)
    <3>1. IsAt(z1, s)
      BY <2>1, <2>4, <2>5
    <3>2. Same(z1, y1)
      BY <3>1, <2>1, <2>5, <1>8, <1>15 DEF Same, IsAt, IsExecution
    <3> QED BY <3>2, <1>16, <1>17, <2>2, <2>5
  <2>6. CASE Conflict(y1.now, t, k2)
    <3>1. y2.failed /\ y2.now = y1.now /\ y2.before = y1.before
      <4>1. y2 = Reindex(y1, t, val, id, TRUE)
        BY <1>3, <2>1 DEF Added
      <4>2. Fails(y1, y2)
        BY <1>0, <1>8, <2>6, <4>1, ReindexOutcome
      <4> QED BY <4>2 DEF Fails
    <3>2. y3.now = y1.now /\ y3.before = y1.before
      BY <1>4, <1>8, <3>1, WriteFails
    <3> QED BY <1>9, <2>1, <2>3, <2>5, <3>2
  <2>7. CASE ~Conflict(y1.now, t, k2)
    <3>00. PICK v2 : v2 = IndexValue(y1.now, t, val, id, TRUE)
      OBVIOUS
    <3>0. IsTxn(t) /\ val \in Val /\ id \in Id /\ TRUE \in BOOLEAN
      OBVIOUS
    <3>1. y2 = Reindex(y1, t, val, id, TRUE)
      BY <1>3, <2>1 DEF Added
    <3>2. /\ ~y2.failed /\ y2.now = Written(y1.now, t, k2, v2)
          /\ y2.before = y1.before \cup {y1.now, Recorded(y1.now, t, k2)}
          /\ Holds(y2.now, t, k2, v2)
      <4>1. Succeeds(y1, y2, t, k2, v2)
        BY <1>0, <1>8, <2>1, <2>7, <3>00, <3>0, <3>1, ReindexOutcome
      <4> QED BY <4>1 DEF Succeeds
    <3>3. /\ IsEngine(y2.now) /\ Read(y2.now, t, k3) = Read(e, t, k3)
          /\ Holds(y2.now, t, k1, v1)
      <4>1. Succeeds(y1, y2, t, k2, v2)
        BY <3>2 DEF Succeeds
      <4>2. OthersAreRead(y1, y2, t, k2)
        BY <1>1, <1>8, <4>1, OthersAreReadAfter
      <4> QED BY <1>1, <1>8, <2>1, <2>2, <4>2 DEF IsExecution, OthersAreRead
    <3>4. ASSUME s = Recorded(y1.now, t, k2)
          PROVE  z3.now = y3.now /\ Read(s, t, k3) = Read(e, t, k3)
      <4>1. Read(s, t, k3) = Read(e, t, k3) /\ Holds(s, t, k1, v1)
        <5>1. KeepsReads(y1.now, s, t)
          BY <2>2, <3>4, RecordsKeepReads
        <5> QED BY <2>1, <2>2, <5>1 DEF KeepsReads
      <4>2. IsAt(z1, s)
        BY <2>4, <4>1
      <4>3. z2 = Reindex(z1, t, val, id, TRUE)
        BY <1>12, <4>2 DEF Added, IsAt
      <4>4. Same(z2, y2)
        BY <1>0, <1>8, <1>15, <2>1, <2>7, <3>0, <3>1, <3>4, <4>2, <4>3, ReindexGoesOn
      <4> QED BY <4>1, <4>4, <1>17
    <3>5. Holds(s, t, k1, v1) /\ Holds(s, t, k2, v2) => IsAt(z2, s)
      <4> SUFFICES ASSUME Holds(s, t, k1, v1), Holds(s, t, k2, v2)
                   PROVE  IsAt(z2, s)
        OBVIOUS
      <4>1. z1.now = s /\ ~z1.failed
        BY <2>4 DEF IsAt
      <4>2. z2 = Reindex(z1, t, val, id, TRUE)
        BY <1>12, <4>1 DEF Added
      <4> QED BY <4>1, <4>2, <1>0, <1>15, <2>2, <3>00, <3>0, ReindexIsDone
    <3>6. ASSUME s = y2.now
          PROVE  z3.now = y3.now /\ Read(s, t, k3) = Read(e, t, k3)
      <4>1. IsAt(z2, s)
        BY <3>2, <3>3, <3>5, <3>6
      <4>2. Same(z2, y2)
        BY <4>1, <3>2, <3>6, <1>8, <1>15 DEF Same, IsAt, IsExecution
      <4> QED BY <4>2, <1>17, <3>3, <3>6
    <3>7. CASE Conflict(y2.now, t, k3)
      <4>1. y3.now = y2.now /\ y3.before = y2.before
        BY <1>4, <1>8, <3>7, WriteFails
      <4> QED BY <1>9, <2>1, <2>3, <2>5, <3>2, <3>4, <3>6, <4>1
    <3>8. CASE ~Conflict(y2.now, t, k3)
      <4>1. /\ ~y3.failed /\ y3.now = Written(y2.now, t, k3, val)
            /\ y3.before = y2.before \cup {y2.now, Recorded(y2.now, t, k3)}
        <5>1. Succeeds(y2, y3, t, k3, val)
          BY <1>0, <1>4, <1>8, <3>2, <3>8, RowOutcome
        <5> QED BY <5>1 DEF Succeeds
      <4>2. ASSUME s = Recorded(y2.now, t, k3)
            PROVE  z3.now = y3.now /\ Read(s, t, k3) = Read(e, t, k3)
        <5>1. Read(s, t, k3) = Read(e, t, k3) /\ Holds(s, t, k1, v1) /\ Holds(s, t, k2, v2)
          <6>1. KeepsReads(y2.now, s, t)
            BY <3>3, <4>2, RecordsKeepReads
          <6> QED BY <3>2, <3>3, <6>1 DEF KeepsReads
        <5>2. IsAt(z2, s)
          BY <3>5, <5>1
        <5>3. Same(z3, y3)
          BY <1>1, <1>4, <1>8, <1>13, <1>15, <3>2, <3>8, <4>2, <5>2, WriteGoesOn
        <5> QED BY <5>1, <5>3 DEF Same
      <4>3. ASSUME s = y3.now
            PROVE  z3.now = y3.now /\ Holds(s, t, k3, val)
        <5>1. Holds(s, t, k3, val)
          BY <1>1, <3>3, <3>8, <4>1, <4>3, WrittenHolds, ValuesAreNotAbsent
        <5>2. Holds(s, t, k1, v1) /\ Holds(s, t, k2, v2)
          <6>1. Succeeds(y2, y3, t, k3, val)
            BY <1>0, <1>4, <1>8, <3>2, <3>8, RowOutcome
          <6>2. OthersAreRead(y2, y3, t, k3)
            BY <1>1, <1>8, <6>1, OthersAreReadAfter
          <6> QED BY <1>1, <3>2, <3>3, <4>3, <6>2 DEF OthersAreRead
        <5>3. z2.now = s /\ ~z2.failed
          BY <3>5, <5>2 DEF IsAt
        <5>4. IsAt(z3, s)
          BY <1>1, <1>13, <1>15, <5>1, <5>3, WriteIsDone
        <5> QED BY <4>3, <5>1, <5>4 DEF IsAt
      <4> QED BY <1>9, <2>1, <2>3, <2>5, <3>2, <3>4, <3>6, <4>1, <4>2, <4>3
    <3> QED BY <3>7, <3>8
  <2> QED BY <2>6, <2>7
<1> QED BY <1>19, <1>20

-----------------------------------------------------------------------------
(* A write of the row alone, and a delete that first clears the row's      *)
(* index entry.                                                            *)

LEMMA RowAgain ==
    ASSUME NEW e, IsEngine(e), NEW t, IsTxn(t), NEW id \in Id, NEW value \in Val \cup {Deleted},
           NEW s \in WriteVersion(Start(e), t, RowKey(id), value).before
                     \cup {WriteVersion(Start(e), t, RowKey(id), value).now}
    PROVE  /\ IsEngine(s)
           /\ WriteVersion(Start(s), t, RowKey(id), value).now =
                  WriteVersion(Start(e), t, RowKey(id), value).now
           /\ \/ Read(s, t, RowKey(id)) = Read(e, t, RowKey(id))
              \/ /\ s = WriteVersion(Start(e), t, RowKey(id), value).now
                 /\ Holds(s, t, RowKey(id), value)
<1>0. PICK k : k = RowKey(id)
  OBVIOUS
<1>1. k \in UserKey /\ IsValueOf(k, value)
  BY <1>0, KeysDiffer DEF IsValueOf
<1>2. PICK y : y = WriteVersion(Start(e), t, k, value)
  OBVIOUS
<1>3. IsExecution(Start(e)) /\ Start(e).now = e /\ ~Start(e).failed /\ Start(e).before = {}
  BY StartType DEF IsAt
<1>4. IsExecution(y) /\ s \in y.before \cup {y.now} /\ IsEngine(s)
  BY <1>0, <1>1, <1>2, <1>3, WriteType DEF IsExecution
<1>5. IsExecution(Start(s)) /\ IsAt(Start(s), s) /\ Start(s).now = s /\ ~Start(s).failed
  BY <1>4, StartType DEF IsAt
<1>6. PICK z : z = WriteVersion(Start(s), t, k, value)
  OBVIOUS
<1>7. SUFFICES /\ z.now = y.now
               /\ \/ Read(s, t, k) = Read(e, t, k)
                  \/ s = y.now /\ Holds(s, t, k, value)
  BY <1>0, <1>2, <1>4, <1>6
<1>8. CASE s = e
  BY <1>2, <1>6, <1>8
<1>9. CASE Conflict(e, t, k)
  <2>1. Conflict(Start(e).now, t, k)
    BY <1>3, <1>9
  <2>2. Fails(Start(e), y)
    BY <1>0, <1>2, <1>3, <2>1, RowOutcome
  <2> QED BY <1>3, <1>4, <1>8, <2>2 DEF Fails
<1>10. CASE ~Conflict(e, t, k)
  <2>1. ~Conflict(Start(e).now, t, k)
    BY <1>3, <1>10
  <2>2. Succeeds(Start(e), y, t, k, value)
    BY <1>0, <1>2, <1>3, <2>1, RowOutcome
  <2>3. /\ y.before = {e, Recorded(e, t, k)} /\ Holds(y.now, t, k, value)
    BY <1>3, <2>2 DEF Succeeds
  <2>4. CASE s = Recorded(e, t, k)
    <3>1. Same(z, y)
      BY <1>1, <1>2, <1>3, <1>5, <1>6, <2>1, <2>4, WriteGoesOn
    <3>2. KeepsReads(e, s, t)
      BY <2>4, RecordsKeepReads
    <3> QED BY <3>1, <3>2 DEF Same, KeepsReads
  <2>5. CASE s = y.now
    <3>1. IsAt(z, s)
      BY <1>1, <1>5, <1>6, <2>3, <2>5, WriteIsDone
    <3> QED BY <3>1, <2>3, <2>5 DEF IsAt
  <2> QED BY <1>4, <1>8, <2>3, <2>4, <2>5
<1> QED BY <1>9, <1>10

Removed(x, t, id, old) ==
    WriteVersion(Reindex(x, t, old, id, FALSE), t, RowKey(id), Deleted)

LEMMA RemovedAgain ==
    ASSUME NEW e, IsEngine(e), NEW t, IsTxn(t), NEW id \in Id, NEW old \in Val,
           NEW s \in Removed(Start(e), t, id, old).before
                     \cup {Removed(Start(e), t, id, old).now}
    PROVE  /\ IsEngine(s)
           /\ Removed(Start(s), t, id, old).now = Removed(Start(e), t, id, old).now
           /\ \/ Read(s, t, RowKey(id)) = Read(e, t, RowKey(id))
              \/ /\ s = Removed(Start(e), t, id, old).now
                 /\ Holds(s, t, RowKey(id), Deleted)
<1>0. PICK k1, k3 : k1 = IndexKey(old) /\ k3 = RowKey(id)
  OBVIOUS
<1>1. k1 \in UserKey /\ k3 \in UserKey /\ k1 # k3 /\ IsValueOf(k3, Deleted)
  BY <1>0, KeysDiffer DEF IsValueOf
<1>2. PICK y1 : y1 = Reindex(Start(e), t, old, id, FALSE)
  OBVIOUS
<1>3. PICK y3 : y3 = WriteVersion(y1, t, k3, Deleted)
  OBVIOUS
<1>4. Removed(Start(e), t, id, old) = y3
  BY <1>0, <1>2, <1>3 DEF Removed
<1>5. IsExecution(Start(e)) /\ Start(e).now = e /\ ~Start(e).failed /\ Start(e).before = {}
  BY StartType DEF IsAt
<1>6. FALSE \in BOOLEAN /\ Deleted \in Val \cup {Deleted}
  OBVIOUS
<1>7. IsExecution(y1) /\ IsExecution(y3)
  BY <1>1, <1>2, <1>3, <1>5, <1>6, ReindexType, WriteType
<1>8. s \in y3.before \cup {y3.now} /\ IsEngine(s)
  BY <1>4, <1>7 DEF IsExecution
<1>9. IsExecution(Start(s)) /\ IsAt(Start(s), s) /\ Start(s).now = s /\ ~Start(s).failed
  BY <1>8, StartType DEF IsAt
<1>10. PICK z1 : z1 = Reindex(Start(s), t, old, id, FALSE)
  OBVIOUS
<1>11. PICK z3 : z3 = WriteVersion(z1, t, k3, Deleted)
  OBVIOUS
<1>12. Removed(Start(s), t, id, old) = z3
  BY <1>0, <1>10, <1>11 DEF Removed
<1>13. IsExecution(z1) /\ IsExecution(z3)
  BY <1>1, <1>6, <1>9, <1>10, <1>11, ReindexType, WriteType
<1>14. Same(z1, y1) => z3.now = y3.now
  BY <1>0, <1>3, <1>6, <1>7, <1>11, <1>13, RowWriteIsDetermined DEF Same
<1>15. SUFFICES /\ z3.now = y3.now
                /\ \/ Read(s, t, k3) = Read(e, t, k3)
                   \/ s = y3.now /\ Holds(s, t, k3, Deleted)
  BY <1>0, <1>4, <1>8, <1>12
<1>16. CASE s = e
  BY <1>16, <1>4, <1>12
<1>17. CASE Conflict(e, t, k1)
  <2>1. Conflict(Start(e).now, t, k1)
    BY <1>5, <1>17
  <2>2. Fails(Start(e), y1)
    BY <1>0, <1>2, <1>5, <1>6, <2>1, ReindexOutcome
  <2>3. y1.failed /\ y1.now = e /\ y1.before = {}
    BY <1>5, <2>2 DEF Fails
  <2>4. y3.now = e /\ y3.before = {}
    BY <1>3, <1>7, <2>3, WriteFails
  <2> QED BY <1>8, <1>16, <2>4
<1>18. CASE ~Conflict(e, t, k1)
  <2>0. PICK v1 : v1 = IndexValue(e, t, old, id, FALSE)
    OBVIOUS
  <2>1. Succeeds(Start(e), y1, t, k1, v1)
    BY <1>0, <1>2, <1>5, <1>6, <1>18, <2>0, ReindexOutcome
  <2>2. /\ ~y1.failed /\ y1.now = Written(e, t, k1, v1)
        /\ y1.before = {e, Recorded(e, t, k1)} /\ Holds(y1.now, t, k1, v1)
    BY <1>5, <2>1 DEF Succeeds
  <2>3. IsEngine(y1.now) /\ Read(y1.now, t, k3) = Read(e, t, k3)
    <3>1. OthersAreRead(Start(e), y1, t, k1)
      BY <1>1, <1>5, <2>1, OthersAreReadAfter
    <3> QED BY <1>1, <1>5, <1>7, <3>1 DEF IsExecution, OthersAreRead
  <2>4. Holds(s, t, k1, v1) => IsAt(z1, s)
    BY <1>0, <1>6, <1>9, <1>10, <2>0, ReindexIsDone
  <2>5. ASSUME s = Recorded(e, t, k1)
        PROVE  z3.now = y3.now /\ Read(s, t, k3) = Read(e, t, k3)
    <3>1. Same(z1, y1)
      BY <2>5, <1>0, <1>2, <1>5, <1>6, <1>9, <1>10, <1>18, ReindexGoesOn
    <3>2. KeepsReads(e, s, t)
      BY <2>5, RecordsKeepReads
    <3> QED BY <3>1, <3>2, <1>14 DEF KeepsReads
  <2>6. ASSUME s = y1.now
        PROVE  z3.now = y3.now /\ Read(s, t, k3) = Read(e, t, k3)
    <3>1. IsAt(z1, s)
      BY <2>2, <2>4, <2>6
    <3>2. Same(z1, y1)
      BY <3>1, <2>2, <2>6, <1>7, <1>13 DEF Same, IsAt, IsExecution
    <3> QED BY <3>2, <1>14, <2>3, <2>6
  <2>7. CASE Conflict(y1.now, t, k3)
    <3>1. y3.now = y1.now /\ y3.before = y1.before
      BY <1>3, <1>7, <2>7, WriteFails
    <3> QED BY <1>8, <1>16, <2>2, <2>5, <2>6, <3>1
  <2>8. CASE ~Conflict(y1.now, t, k3)
    <3>1. Succeeds(y1, y3, t, k3, Deleted)
      BY <1>0, <1>3, <1>6, <1>7, <2>2, <2>8, RowOutcome
    <3>2. y3.before = y1.before \cup {y1.now, Recorded(y1.now, t, k3)} /\ Holds(y3.now, t, k3, Deleted)
      BY <3>1 DEF Succeeds
    <3>3. ASSUME s = Recorded(y1.now, t, k3)
          PROVE  z3.now = y3.now /\ Read(s, t, k3) = Read(e, t, k3)
      <4>1. KeepsReads(y1.now, s, t)
        BY <2>3, <3>3, RecordsKeepReads
      <4>2. Read(s, t, k3) = Read(e, t, k3) /\ Holds(s, t, k1, v1)
        BY <2>2, <2>3, <4>1 DEF KeepsReads
      <4>3. IsAt(z1, s)
        BY <2>4, <4>2
      <4>4. Same(z3, y3)
        BY <1>1, <1>3, <1>7, <1>11, <1>13, <2>2, <2>8, <3>3, <4>3, WriteGoesOn
      <4> QED BY <4>2, <4>4 DEF Same
    <3>4. ASSUME s = y3.now
          PROVE  z3.now = y3.now /\ Holds(s, t, k3, Deleted)
      <4>1. OthersAreRead(y1, y3, t, k3)
        BY <1>1, <1>7, <3>1, OthersAreReadAfter
      <4>2. Holds(s, t, k1, v1) /\ Holds(s, t, k3, Deleted)
        BY <1>1, <2>2, <3>2, <3>4, <4>1 DEF OthersAreRead
      <4>3. z1.now = s /\ ~z1.failed
        BY <2>4, <4>2 DEF IsAt
      <4>4. IsAt(z3, s)
        BY <1>1, <1>11, <1>13, <4>2, <4>3, WriteIsDone
      <4> QED BY <3>4, <4>2, <4>4 DEF IsAt
    <3> QED BY <1>8, <1>16, <2>2, <2>5, <2>6, <3>2, <3>3, <3>4
  <2> QED BY <2>7, <2>8
<1> QED BY <1>17, <1>18

-----------------------------------------------------------------------------
(* Statements.                                                             *)

\* The command has changed neither the active set nor the counters.
Frame(x, e) ==
    \A f \in x.before \cup {x.now} :
        f.active = e.active /\ f.applied = e.applied /\ f.next = e.next

LEMMA WriteFrame ==
    ASSUME NEW x, NEW e, NEW t, NEW k \in UserKey, NEW value,
           IsExecution(x), IsTxn(t), IsValueOf(k, value), Frame(x, e)
    PROVE  IsExecution(WriteVersion(x, t, k, value)) /\ Frame(WriteVersion(x, t, k, value), e)
<1>1. CASE x.failed \/ Conflict(x.now, t, k)
  BY <1>1, WriteFails DEF Frame
<1>2. CASE ~x.failed /\ ~Conflict(x.now, t, k)
  <2>1. x.now \in Engines
    BY DEF IsExecution
  <2>2. /\ Recorded(x.now, t, k).active = x.now.active
        /\ Recorded(x.now, t, k).applied = x.now.applied
        /\ Recorded(x.now, t, k).next = x.now.next
    BY <2>1, RecordedFields
  <2>3. /\ Written(x.now, t, k, value).active = x.now.active
        /\ Written(x.now, t, k, value).applied = x.now.applied
        /\ Written(x.now, t, k, value).next = x.now.next
    BY <2>1 DEF Written, Recorded, Engines
  <2> QED BY <1>2, <2>2, <2>3, WriteSucceeds DEF Frame
<1> QED BY <1>1, <1>2

LEMMA ReindexFrame ==
    ASSUME NEW x, NEW e, NEW t, NEW val \in Val, NEW id \in Id, NEW adding \in BOOLEAN,
           IsExecution(x), IsTxn(t), Frame(x, e)
    PROVE  /\ IsExecution(Reindex(x, t, val, id, adding))
           /\ Frame(Reindex(x, t, val, id, adding), e)
<1>1. /\ IsValueOf(IndexKey(val), IndexValue(x.now, t, val, id, adding))
      /\ IndexKey(val) \in UserKey
  BY IndexValueType, KeysDiffer DEF IsExecution
<1> QED BY <1>1, WriteFrame DEF Reindex

LEMMA RowFrame ==
    ASSUME NEW x, NEW e, NEW t, NEW id \in Id, NEW value \in Val \cup {Deleted},
           IsExecution(x), IsTxn(t), Frame(x, e)
    PROVE  /\ IsExecution(WriteVersion(x, t, RowKey(id), value))
           /\ Frame(WriteVersion(x, t, RowKey(id), value), e)
<1>1. IsValueOf(RowKey(id), value) /\ RowKey(id) \in UserKey
  BY KeysDiffer DEF IsValueOf
<1> QED BY <1>1, WriteFrame

LEMMA StartFrame ==
    ASSUME NEW e, IsEngine(e)
    PROVE  /\ IsExecution(Start(e)) /\ Frame(Start(e), e) /\ Start(e).now = e
           /\ IsExecution(Fail(Start(e))) /\ Frame(Fail(Start(e)), e)
           /\ Fail(Start(e)).now = e /\ Fail(Start(e)).before = {}
BY DEF IsExecution, Frame, Start, Fail, IsEngine

LEMMA GetRowIs ==
    ASSUME NEW e, NEW t, NEW id \in Id, IsEngine(e)
    PROVE  /\ GetRow(Start(e), t, id) = Read(e, t, RowKey(id))
           /\ Read(e, t, RowKey(id)) \in Val \cup {Deleted}
<1>1. GetRow(Start(e), t, id) = Read(e, t, RowKey(id))
  BY DEF GetRow, Start, Read
<1> QED BY <1>1, ReadType, KeysDiffer

LEMMA InsertFrame ==
    ASSUME NEW e, NEW t, NEW id \in Id, NEW val \in Val, IsEngine(e), IsTxn(t)
    PROVE  /\ IsExecution(ExecInsert(Start(e), t, id, val))
           /\ Frame(ExecInsert(Start(e), t, id, val), e)
<1>1. PICK row : row = WriteVersion(Start(e), t, RowKey(id), val)
  OBVIOUS
<1>2. IsExecution(row) /\ Frame(row, e)
  BY <1>1, StartFrame, RowFrame
<1>3. IsExecution(Reindex(row, t, val, id, TRUE)) /\ Frame(Reindex(row, t, val, id, TRUE), e)
  BY <1>2, ReindexFrame
<1>4. SetIndex(row, t, val, GetIndex(row, t, val) \cup {id}) = Reindex(row, t, val, id, TRUE)
  BY ReindexIs
<1> QED BY <1>1, <1>2, <1>3, <1>4, StartFrame DEF ExecInsert

LEMMA UpdateIs ==
    ASSUME NEW e, NEW t, NEW id \in Id, NEW val \in Val, IsEngine(e)
    PROVE  LET old == Read(e, t, RowKey(id))
           IN  ExecUpdate(Start(e), t, id, val) =
                   IF old = Deleted THEN Fail(Start(e))
                   ELSE IF old = val THEN WriteVersion(Start(e), t, RowKey(id), val)
                   ELSE Moved(Start(e), t, id, old, val)
BY GetRowIs, ReindexIs DEF ExecUpdate, Moved, Added

LEMMA DeleteIs ==
    ASSUME NEW e, NEW t, NEW id \in Id, IsEngine(e)
    PROVE  LET old == Read(e, t, RowKey(id))
           IN  ExecDelete(Start(e), t, id) =
                   IF old = Deleted THEN WriteVersion(Start(e), t, RowKey(id), Deleted)
                   ELSE Removed(Start(e), t, id, old)
BY GetRowIs, ReindexIs DEF ExecDelete, Removed

LEMMA UpdateFrame ==
    ASSUME NEW e, NEW t, NEW id \in Id, NEW val \in Val, IsEngine(e), IsTxn(t)
    PROVE  /\ IsExecution(ExecUpdate(Start(e), t, id, val))
           /\ Frame(ExecUpdate(Start(e), t, id, val), e)
<1>1. PICK old : old = Read(e, t, RowKey(id))
  OBVIOUS
<1>2. old \in Val \cup {Deleted}
  BY <1>1, GetRowIs
<1>3. CASE old = Deleted
  BY <1>1, <1>3, UpdateIs, StartFrame
<1>4. CASE old # Deleted /\ old = val
  <2>1. ExecUpdate(Start(e), t, id, val) = WriteVersion(Start(e), t, RowKey(id), val)
    BY <1>1, <1>4, UpdateIs
  <2>2. /\ IsExecution(WriteVersion(Start(e), t, RowKey(id), val))
        /\ Frame(WriteVersion(Start(e), t, RowKey(id), val), e)
    BY StartFrame, RowFrame
  <2> QED BY <2>1, <2>2
<1>5. CASE old # Deleted /\ old # val
  <2>1. PICK removed : removed = Reindex(Start(e), t, old, id, FALSE)
    OBVIOUS
  <2>2. IsExecution(removed) /\ Frame(removed, e)
    BY <1>2, <1>5, <2>1, StartFrame, ReindexFrame
  <2>3. PICK added : added = Added(removed, t, val, id)
    OBVIOUS
  <2>4. IsExecution(added) /\ Frame(added, e)
    BY <2>2, <2>3, ReindexFrame DEF Added
  <2>5. /\ IsExecution(WriteVersion(added, t, RowKey(id), val))
        /\ Frame(WriteVersion(added, t, RowKey(id), val), e)
    BY <2>4, RowFrame
  <2> QED BY <1>1, <1>5, <2>1, <2>3, <2>5, UpdateIs DEF Moved
<1> QED BY <1>3, <1>4, <1>5

LEMMA DeleteFrame ==
    ASSUME NEW e, NEW t, NEW id \in Id, IsEngine(e), IsTxn(t)
    PROVE  /\ IsExecution(ExecDelete(Start(e), t, id))
           /\ Frame(ExecDelete(Start(e), t, id), e)
<1>1. PICK old : old = Read(e, t, RowKey(id))
  OBVIOUS
<1>2. old \in Val \cup {Deleted}
  BY <1>1, GetRowIs
<1>3. CASE old = Deleted
  <2>1. ExecDelete(Start(e), t, id) = WriteVersion(Start(e), t, RowKey(id), Deleted)
    BY <1>1, <1>3, DeleteIs
  <2>2. /\ IsExecution(WriteVersion(Start(e), t, RowKey(id), Deleted))
        /\ Frame(WriteVersion(Start(e), t, RowKey(id), Deleted), e)
    BY StartFrame, RowFrame
  <2> QED BY <2>1, <2>2
<1>4. CASE old # Deleted
  <2>1. PICK removed : removed = Reindex(Start(e), t, old, id, FALSE)
    OBVIOUS
  <2>2. IsExecution(removed) /\ Frame(removed, e)
    BY <1>2, <1>4, <2>1, StartFrame, ReindexFrame
  <2>3. /\ IsExecution(WriteVersion(removed, t, RowKey(id), Deleted))
        /\ Frame(WriteVersion(removed, t, RowKey(id), Deleted), e)
    BY <2>2, RowFrame
  <2> QED BY <1>1, <1>4, <2>1, <2>3, DeleteIs DEF Removed
<1> QED BY <1>3, <1>4

\* An update, or a delete, that is executed again from what a crash has left.
LEMMA UpdateAgain ==
    ASSUME NEW e, NEW t, NEW id \in Id, NEW val \in Val, IsEngine(e), IsTxn(t),
           NEW s \in ExecUpdate(Start(e), t, id, val).before
                     \cup {ExecUpdate(Start(e), t, id, val).now}
    PROVE  ExecUpdate(Start(s), t, id, val).now = ExecUpdate(Start(e), t, id, val).now
<1>1. PICK old : old = Read(e, t, RowKey(id))
  OBVIOUS
<1>2. old \in Val \cup {Deleted} /\ RowKey(id) \in UserKey /\ val # Deleted /\ val # Absent
  BY <1>1, GetRowIs, KeysDiffer, StoredAssumption
<1>3. IsEngine(s)
  BY UpdateFrame DEF IsExecution
<1>4. PICK row : row = WriteVersion(Start(s), t, RowKey(id), val)
  OBVIOUS
<1>5. Holds(s, t, RowKey(id), val) => Read(s, t, RowKey(id)) = val /\ row.now = s
  <2> SUFFICES ASSUME Holds(s, t, RowKey(id), val)
               PROVE  Read(s, t, RowKey(id)) = val /\ row.now = s
    OBVIOUS
  <2>1. Read(s, t, RowKey(id)) = val
    BY <1>2, ReadOwn DEF Holds
  <2>2. IsValueOf(RowKey(id), val) /\ IsExecution(Start(s)) /\ Start(s).now = s /\ ~Start(s).failed
    BY <1>3, StartType DEF IsValueOf, IsAt
  <2>3. IsAt(row, s)
    BY <1>2, <1>4, <2>2, WriteIsDone
  <2> QED BY <2>1, <2>3 DEF IsAt
<1>6. CASE old = Deleted
  <2>1. ExecUpdate(Start(e), t, id, val) = Fail(Start(e))
    BY <1>1, <1>6, UpdateIs
  <2>2. s = e
    BY <2>1, StartFrame
  <2> QED BY <2>2
<1>7. CASE old # Deleted /\ old = val
  <2>1. ExecUpdate(Start(e), t, id, val) = WriteVersion(Start(e), t, RowKey(id), val)
    BY <1>1, <1>7, UpdateIs
  <2>2. /\ row.now = WriteVersion(Start(e), t, RowKey(id), val).now
        /\ Read(s, t, RowKey(id)) = val
    <3>1. s \in WriteVersion(Start(e), t, RowKey(id), val).before
                    \cup {WriteVersion(Start(e), t, RowKey(id), val).now}
      BY <2>1
    <3>2. val \in Val \cup {Deleted}
      OBVIOUS
    <3>3. /\ WriteVersion(Start(s), t, RowKey(id), val).now =
                 WriteVersion(Start(e), t, RowKey(id), val).now
          /\ \/ Read(s, t, RowKey(id)) = Read(e, t, RowKey(id))
             \/ Holds(s, t, RowKey(id), val)
      BY <3>1, <3>2, RowAgain
    <3> QED BY <1>1, <1>4, <1>5, <1>7, <3>3
  <2>3. ExecUpdate(Start(s), t, id, val) = row
    BY <1>2, <1>3, <1>4, <2>2, UpdateIs
  <2> QED BY <2>1, <2>2, <2>3
<1>8. CASE old # Deleted /\ old # val
  <2>1. ExecUpdate(Start(e), t, id, val) = Moved(Start(e), t, id, old, val)
    BY <1>1, <1>8, UpdateIs
  <2>2. /\ Moved(Start(s), t, id, old, val).now = Moved(Start(e), t, id, old, val).now
        /\ \/ Read(s, t, RowKey(id)) = old
           \/ s = Moved(Start(e), t, id, old, val).now /\ Holds(s, t, RowKey(id), val)
    BY <1>1, <1>2, <1>8, <2>1, MovedAgain
  <2>3. CASE Read(s, t, RowKey(id)) = old
    <3>1. ExecUpdate(Start(s), t, id, val) = Moved(Start(s), t, id, old, val)
      BY <1>3, <1>8, <2>3, UpdateIs
    <3> QED BY <2>1, <2>2, <3>1
  <2>4. CASE s = Moved(Start(e), t, id, old, val).now /\ Holds(s, t, RowKey(id), val)
    <3>1. ExecUpdate(Start(s), t, id, val) = row
      BY <1>2, <1>3, <1>4, <1>5, <2>4, UpdateIs
    <3> QED BY <1>5, <2>1, <2>4, <3>1
  <2> QED BY <2>2, <2>3, <2>4
<1> QED BY <1>6, <1>7, <1>8

LEMMA DeleteAgain ==
    ASSUME NEW e, NEW t, NEW id \in Id, IsEngine(e), IsTxn(t),
           NEW s \in ExecDelete(Start(e), t, id).before \cup {ExecDelete(Start(e), t, id).now}
    PROVE  ExecDelete(Start(s), t, id).now = ExecDelete(Start(e), t, id).now
<1>1. PICK old : old = Read(e, t, RowKey(id))
  OBVIOUS
<1>2. old \in Val \cup {Deleted} /\ RowKey(id) \in UserKey /\ Deleted # Absent
  BY <1>1, GetRowIs, KeysDiffer, StoredAssumption
<1>3. IsEngine(s)
  BY DeleteFrame DEF IsExecution
<1>4. PICK row : row = WriteVersion(Start(s), t, RowKey(id), Deleted)
  OBVIOUS
<1>5. Holds(s, t, RowKey(id), Deleted) => Read(s, t, RowKey(id)) = Deleted /\ row.now = s
  <2> SUFFICES ASSUME Holds(s, t, RowKey(id), Deleted)
               PROVE  Read(s, t, RowKey(id)) = Deleted /\ row.now = s
    OBVIOUS
  <2>1. Read(s, t, RowKey(id)) = Deleted
    BY <1>2, ReadOwn DEF Holds
  <2>2. IsValueOf(RowKey(id), Deleted) /\ IsExecution(Start(s)) /\ Start(s).now = s /\ ~Start(s).failed
    BY <1>3, StartType DEF IsValueOf, IsAt
  <2>3. IsAt(row, s)
    BY <1>2, <1>4, <2>2, WriteIsDone
  <2> QED BY <2>1, <2>3 DEF IsAt
<1>6. CASE old = Deleted
  <2>1. ExecDelete(Start(e), t, id) = WriteVersion(Start(e), t, RowKey(id), Deleted)
    BY <1>1, <1>6, DeleteIs
  <2>2. /\ row.now = WriteVersion(Start(e), t, RowKey(id), Deleted).now
        /\ Read(s, t, RowKey(id)) = Deleted
    <3>1. s \in WriteVersion(Start(e), t, RowKey(id), Deleted).before
                    \cup {WriteVersion(Start(e), t, RowKey(id), Deleted).now}
      BY <2>1
    <3>2. Deleted \in Val \cup {Deleted}
      OBVIOUS
    <3>3. /\ WriteVersion(Start(s), t, RowKey(id), Deleted).now =
                 WriteVersion(Start(e), t, RowKey(id), Deleted).now
          /\ \/ Read(s, t, RowKey(id)) = Read(e, t, RowKey(id))
             \/ Holds(s, t, RowKey(id), Deleted)
      BY <3>1, <3>2, RowAgain
    <3> QED BY <1>1, <1>4, <1>5, <1>6, <3>3
  <2>3. ExecDelete(Start(s), t, id) = row
    BY <1>3, <1>4, <2>2, DeleteIs
  <2> QED BY <2>1, <2>2, <2>3
<1>7. CASE old # Deleted
  <2>1. ExecDelete(Start(e), t, id) = Removed(Start(e), t, id, old)
    BY <1>1, <1>7, DeleteIs
  <2>2. /\ Removed(Start(s), t, id, old).now = Removed(Start(e), t, id, old).now
        /\ \/ Read(s, t, RowKey(id)) = old
           \/ s = Removed(Start(e), t, id, old).now /\ Holds(s, t, RowKey(id), Deleted)
    BY <1>1, <1>2, <1>7, <2>1, RemovedAgain
  <2>3. CASE Read(s, t, RowKey(id)) = old
    <3>1. ExecDelete(Start(s), t, id) = Removed(Start(s), t, id, old)
      BY <1>3, <1>7, <2>3, DeleteIs
    <3> QED BY <2>1, <2>2, <3>1
  <2>4. CASE s = Removed(Start(e), t, id, old).now /\ Holds(s, t, RowKey(id), Deleted)
    <3>1. ExecDelete(Start(s), t, id) = row
      BY <1>3, <1>4, <1>5, <2>4, DeleteIs
    <3> QED BY <1>5, <2>1, <2>4, <3>1
  <2> QED BY <2>2, <2>3, <2>4
<1> QED BY <1>6, <1>7

-----------------------------------------------------------------------------
(* Commit and rollback.                                                    *)

Cleared(e, records) == [e EXCEPT !.writes = @ \ records]

Inactive(e, v) == [e EXCEPT !.active = @ \ {v}]

LEMMA RecordsAreKeys ==
    ASSUME NEW e, NEW v, IsEngine(e), NEW w \in Records(e, v)
    PROVE  w = <<v, w[2]>> /\ w[2] \in UserKey /\ w \in e.writes
BY DEF Records, IsEngine, Engines

LEMMA ClearedFields ==
    ASSUME NEW e, NEW v, NEW done, IsEngine(e), done \subseteq Records(e, v)
    PROVE  /\ IsEngine(Cleared(e, done))
           /\ Cleared(e, done).active = e.active /\ Cleared(e, done).next = e.next
           /\ Cleared(e, done).applied = e.applied
           /\ Cleared(e, done).writes = e.writes \ done
           /\ Cleared(Cleared(e, done), Records(Cleared(e, done), v)) =
                  Cleared(e, Records(e, v))
<1>1. e \in Engines
  BY DEF IsEngine
<1>2. PICK f : f = Cleared(e, done)
  OBVIOUS
<1>3. /\ f.active = e.active /\ f.next = e.next /\ f.applied = e.applied
      /\ f.writes = e.writes \ done /\ f.data = e.data /\ f \in Engines
  BY <1>1, <1>2 DEF Cleared, Engines
<1>4. IsEngine(f)
  BY <1>3 DEF IsEngine, RowsAreValues, IndexesAreIds
<1>5. f.writes \ Records(f, v) = e.writes \ Records(e, v)
  BY <1>3 DEF Records
<1>6. Cleared(f, Records(f, v)) = Cleared(e, Records(e, v))
  BY <1>1, <1>2, <1>3, <1>5 DEF Cleared, Engines
<1> QED BY <1>2, <1>3, <1>4, <1>6

LEMMA UndoneFields ==
    ASSUME NEW e, NEW t, NEW undone, NEW done, IsEngine(e), IsTxn(t),
           done \subseteq undone, undone \subseteq Records(e, t.version)
    PROVE  LET f == Undone(e, t.version, undone, done)
               v == t.version
           IN  /\ IsEngine(f)
               /\ f.active = e.active /\ f.next = e.next /\ f.applied = e.applied
               /\ Undone(f, v, Records(f, v), Records(f, v)) =
                      Undone(e, v, Records(e, v), Records(e, v))
<1>1. e \in Engines /\ e.data \in [UserKey -> [Version -> Stored]]
  BY DEF IsEngine, Engines
<1>2. PICK v : v = t.version
  OBVIOUS
<1>3. PICK f : f = Undone(e, v, undone, done)
  OBVIOUS
<1>4. PICK d : d = [k \in UserKey |-> IF <<v, k>> \in undone
                                      THEN [e.data[k] EXCEPT ![v] = Absent] ELSE e.data[k]]
  OBVIOUS
<1>5. v \in Version /\ Absent \in Stored
  BY <1>2 DEF IsTxn, Stored
<1>6. d \in [UserKey -> [Version -> Stored]]
  BY <1>1, <1>4, <1>5
<1>7. /\ f.active = e.active /\ f.next = e.next /\ f.applied = e.applied
      /\ f.snapshot = e.snapshot /\ f.writes = e.writes \ done /\ f.data = d
  BY <1>1, <1>3, <1>4 DEF Undone, Engines
<1>8. f \in Engines
  BY <1>1, <1>3, <1>4, <1>6 DEF Undone, Engines
<1>9. \A k \in UserKey, u \in Version : d[k][u] = e.data[k][u] \/ d[k][u] = Absent
  BY <1>1, <1>4
<1>10. RowsAreValues(f)
  <2> SUFFICES ASSUME NEW id \in Id, NEW u \in Version
               PROVE  f.data[RowKey(id)][u] \in Val \cup {Deleted, Absent}
    BY DEF RowsAreValues
  <2>1. e.data[RowKey(id)][u] \in Val \cup {Deleted, Absent} /\ RowKey(id) \in UserKey
    BY KeysDiffer DEF IsEngine, RowsAreValues
  <2>2. f.data[RowKey(id)][u] = e.data[RowKey(id)][u] \/ f.data[RowKey(id)][u] = Absent
    BY <1>7, <1>9, <2>1
  <2> QED BY <2>1, <2>2
<1>11. IndexesAreIds(f)
  <2> SUFFICES ASSUME NEW val \in Val, NEW u \in Version
               PROVE  f.data[IndexKey(val)][u] \in (SUBSET Id) \cup {Deleted, Absent}
    BY DEF IndexesAreIds
  <2>1. /\ e.data[IndexKey(val)][u] \in (SUBSET Id) \cup {Deleted, Absent}
        /\ IndexKey(val) \in UserKey
    BY KeysDiffer DEF IsEngine, IndexesAreIds
  <2>2. f.data[IndexKey(val)][u] = e.data[IndexKey(val)][u] \/ f.data[IndexKey(val)][u] = Absent
    BY <1>7, <1>9, <2>1
  <2> QED BY <2>1, <2>2
<1>12. PICK R : R = Records(e, v)
  OBVIOUS
<1>13. PICK S : S = Records(f, v)
  OBVIOUS
<1>14. S = R \ done /\ undone \subseteq R /\ done \subseteq undone
  BY <1>2, <1>7, <1>12, <1>13 DEF Records
<1>15. f.writes \ S = e.writes \ R
  BY <1>7, <1>14
<1>16. PICK a : a = [k \in UserKey |-> IF <<v, k>> \in R
                                       THEN [e.data[k] EXCEPT ![v] = Absent] ELSE e.data[k]]
  OBVIOUS
<1>17. PICK b : b = [k \in UserKey |-> IF <<v, k>> \in S
                                       THEN [f.data[k] EXCEPT ![v] = Absent] ELSE f.data[k]]
  OBVIOUS
<1>18. a = b
  <2>1. ASSUME NEW k \in UserKey
        PROVE  a[k] = b[k]
    <3>0. e.data[k] \in [Version -> Stored]
      BY <1>1
    <3>1. PICK g : g = [e.data[k] EXCEPT ![v] = Absent]
      OBVIOUS
    <3>2. [g EXCEPT ![v] = Absent] = g
      BY <1>5, <3>0, <3>1
    <3>3. f.data[k] = IF <<v, k>> \in undone THEN g ELSE e.data[k]
      BY <1>4, <1>7, <3>1
    <3>4. CASE <<v, k>> \in undone
      BY <1>14, <1>16, <1>17, <3>1, <3>2, <3>3, <3>4
    <3>5. CASE <<v, k>> \notin undone
      <4>1. <<v, k>> \in S <=> <<v, k>> \in R
        BY <1>14, <3>5
      <4> QED BY <4>1, <1>16, <1>17, <3>1, <3>3, <3>5
    <3> QED BY <3>4, <3>5
  <2> QED BY <2>1, <1>16, <1>17
<1>19. Undone(e, v, R, R) = [e EXCEPT !.writes = e.writes \ R, !.data = a]
  BY <1>16 DEF Undone
<1>20. Undone(f, v, S, S) = [f EXCEPT !.writes = f.writes \ S, !.data = b]
  BY <1>17 DEF Undone
<1>21. Undone(f, v, S, S) = Undone(e, v, R, R)
  <2>1. f = [e EXCEPT !.writes = e.writes \ done, !.data = d]
    BY <1>3, <1>4 DEF Undone
  <2>2. Undone(f, v, S, S) = [f EXCEPT !.writes = e.writes \ R, !.data = a]
    BY <1>15, <1>18, <1>20
  <2>3. [f EXCEPT !.writes = e.writes \ R, !.data = a] =
            [e EXCEPT !.writes = e.writes \ R, !.data = a]
    BY <1>1, <2>1 DEF Engines
  <2> QED BY <1>19, <2>2, <2>3
<1> QED BY <1>2, <1>3, <1>7, <1>8, <1>10, <1>11, <1>12, <1>13, <1>21 DEF IsEngine

LEMMA InactiveFields ==
    ASSUME NEW e, NEW v, IsEngine(e)
    PROVE  /\ IsEngine(Inactive(e, v)) /\ Inactive(e, v).active = e.active \ {v}
           /\ Inactive(e, v).next = e.next /\ Inactive(e, v).applied = e.applied
<1>1. e \in Engines
  BY DEF IsEngine
<1>2. /\ Inactive(e, v) \in Engines /\ Inactive(e, v).data = e.data
      /\ Inactive(e, v).active = e.active \ {v}
      /\ Inactive(e, v).next = e.next /\ Inactive(e, v).applied = e.applied
  BY <1>1 DEF Inactive, Engines
<1> QED BY <1>2 DEF IsEngine, RowsAreValues, IndexesAreIds

\* The engine contents on the way to the end of a transaction, and the last
\* one in which it is active.
CommitStates(e, v) == {Cleared(e, done) : done \in SUBSET Records(e, v)}

CommitLast(e, v) == Cleared(e, Records(e, v))

RollbackStates(e, v) ==
    {Undone(e, v, done, done) : done \in SUBSET Records(e, v)}
        \cup {Undone(e, v, done \cup {w}, done) :
                 done \in SUBSET Records(e, v), w \in Records(e, v)}

RollbackLast(e, v) == Undone(e, v, Records(e, v), Records(e, v))

LEMMA CommitIs ==
    ASSUME NEW e, NEW t, IsEngine(e)
    PROVE  /\ ExecCommit(Start(e), t).now = Inactive(CommitLast(e, t.version), t.version)
           /\ ExecCommit(Start(e), t).before = CommitStates(e, t.version)
           /\ ExecCommit(Start(e), t) \in
                  [now : {ExecCommit(Start(e), t).now},
                   before : {ExecCommit(Start(e), t).before}, failed : BOOLEAN]
<1>1. CommitLast(e, t.version) \in CommitStates(e, t.version)
  BY DEF CommitLast, CommitStates
<1> QED BY <1>1 DEF ExecCommit, Deactivate, Then, Start, CommitLast, CommitStates, Cleared,
                   Inactive

LEMMA RollbackIs ==
    ASSUME NEW e, NEW t, IsEngine(e)
    PROVE  /\ ExecRollback(Start(e), t).now = Inactive(RollbackLast(e, t.version), t.version)
           /\ ExecRollback(Start(e), t).before = RollbackStates(e, t.version)
           /\ ExecRollback(Start(e), t) \in
                  [now : {ExecRollback(Start(e), t).now},
                   before : {ExecRollback(Start(e), t).before}, failed : BOOLEAN]
<1>1. RollbackLast(e, t.version) \in RollbackStates(e, t.version)
  BY DEF RollbackLast, RollbackStates
<1>2. PICK A, L : A = RollbackStates(e, t.version) /\ L = RollbackLast(e, t.version)
  OBVIOUS
<1>3. ExecRollback(Start(e), t) =
          Deactivate([Start(e) EXCEPT !.before = A, !.now = L], t.version)
  BY <1>2 DEF ExecRollback, Start, RollbackLast, RollbackStates
<1>4. PICK x : x = [Start(e) EXCEPT !.before = A, !.now = L]
  OBVIOUS
<1>5. x \in [now : {L}, before : {A}, failed : BOOLEAN]
  <2>1. Start(e) \in [now : {e}, before : {{}}, failed : BOOLEAN]
    BY DEF Start
  <2> QED BY <1>4, <2>1
<1>6. PICK y : y = Deactivate(x, t.version)
  OBVIOUS
<1>7. y \in [now : {Inactive(L, t.version)}, before : {A \cup {L}}, failed : BOOLEAN]
  BY <1>5, <1>6 DEF Deactivate, Then, Inactive
<1> QED BY <1>1, <1>2, <1>3, <1>4, <1>6, <1>7

\* A transaction's end, interrupted while the transaction is still active.
IsOnTheWay(e, s) ==
    IsEngine(s) /\ s.active = e.active /\ s.next = e.next /\ s.applied = e.applied

LEMMA CommitWay ==
    ASSUME NEW e, NEW t, IsEngine(e), IsTxn(t), NEW s \in CommitStates(e, t.version)
    PROVE  IsOnTheWay(e, s) /\ CommitLast(s, t.version) = CommitLast(e, t.version)
<1>1. PICK done \in SUBSET Records(e, t.version) : s = Cleared(e, done)
  BY DEF CommitStates
<1> QED BY <1>1, ClearedFields DEF IsOnTheWay, CommitLast

LEMMA RollbackWay ==
    ASSUME NEW e, NEW t, IsEngine(e), IsTxn(t), NEW s \in RollbackStates(e, t.version)
    PROVE  /\ IsOnTheWay(e, s)
           /\ RollbackLast(s, t.version) = RollbackLast(e, t.version)
<1>1. PICK undone, done : /\ s = Undone(e, t.version, undone, done)
                          /\ done \subseteq undone /\ undone \subseteq Records(e, t.version)
  <2>1. CASE \E done \in SUBSET Records(e, t.version) : s = Undone(e, t.version, done, done)
    BY <2>1
  <2>2. CASE \E done \in SUBSET Records(e, t.version), w \in Records(e, t.version) :
                 s = Undone(e, t.version, done \cup {w}, done)
    <3>1. PICK done \in SUBSET Records(e, t.version), w \in Records(e, t.version) :
              s = Undone(e, t.version, done \cup {w}, done)
      BY <2>2
    <3>2. done \subseteq done \cup {w} /\ done \cup {w} \subseteq Records(e, t.version)
      OBVIOUS
    <3> QED BY <3>1, <3>2
  <2>3. \/ \E done \in SUBSET Records(e, t.version) : s = Undone(e, t.version, done, done)
        \/ \E done \in SUBSET Records(e, t.version), w \in Records(e, t.version) :
               s = Undone(e, t.version, done \cup {w}, done)
    BY DEF RollbackStates
  <2> QED BY <2>1, <2>2, <2>3
<1> QED BY <1>1, UndoneFields DEF IsOnTheWay, RollbackLast

LEMMA CommitType ==
    ASSUME NEW e, NEW t, IsEngine(e), IsTxn(t)
    PROVE  LET y == ExecCommit(Start(e), t)
           IN  /\ IsExecution(y) /\ \A f \in y.before : IsOnTheWay(e, f)
               /\ y.now.active = e.active \ {t.version}
               /\ y.now.next = e.next /\ y.now.applied = e.applied
<1>1. PICK y : y = ExecCommit(Start(e), t)
  OBVIOUS
<1>2. \A f \in y.before : IsOnTheWay(e, f)
  BY <1>1, CommitIs, CommitWay
<1>3. PICK last : last = CommitLast(e, t.version)
  OBVIOUS
<1>4. /\ IsEngine(last) /\ last.active = e.active /\ last.next = e.next
      /\ last.applied = e.applied
  <2>1. last \in CommitStates(e, t.version)
    BY <1>3 DEF CommitLast, CommitStates
  <2> QED BY <2>1, CommitWay DEF IsOnTheWay
<1>5. y.now = Inactive(last, t.version)
  BY <1>1, <1>3, CommitIs
<1>6. /\ IsEngine(y.now) /\ y.now.active = e.active \ {t.version}
      /\ y.now.next = e.next /\ y.now.applied = e.applied
  BY <1>4, <1>5, InactiveFields
<1>7. y \in [now : {y.now}, before : {y.before}, failed : BOOLEAN]
  BY <1>1, CommitIs
<1>8. IsExecution(y)
  BY <1>2, <1>6, <1>7 DEF IsExecution, IsOnTheWay, IsEngine
<1> QED BY <1>1, <1>2, <1>6, <1>8

LEMMA RollbackType ==
    ASSUME NEW e, NEW t, IsEngine(e), IsTxn(t)
    PROVE  LET y == ExecRollback(Start(e), t)
           IN  /\ IsExecution(y) /\ \A f \in y.before : IsOnTheWay(e, f)
               /\ y.now.active = e.active \ {t.version}
               /\ y.now.next = e.next /\ y.now.applied = e.applied
<1>1. PICK y : y = ExecRollback(Start(e), t)
  OBVIOUS
<1>2. \A f \in y.before : IsOnTheWay(e, f)
  BY <1>1, RollbackIs, RollbackWay
<1>3. PICK last : last = RollbackLast(e, t.version)
  OBVIOUS
<1>4. /\ IsEngine(last) /\ last.active = e.active /\ last.next = e.next
      /\ last.applied = e.applied
  <2>1. last \in RollbackStates(e, t.version)
    BY <1>3 DEF RollbackLast, RollbackStates
  <2> QED BY <2>1, RollbackWay DEF IsOnTheWay
<1>5. y.now = Inactive(last, t.version)
  BY <1>1, <1>3, RollbackIs
<1>6. /\ IsEngine(y.now) /\ y.now.active = e.active \ {t.version}
      /\ y.now.next = e.next /\ y.now.applied = e.applied
  BY <1>4, <1>5, InactiveFields
<1>7. y \in [now : {y.now}, before : {y.before}, failed : BOOLEAN]
  BY <1>1, RollbackIs
<1>8. IsExecution(y)
  BY <1>2, <1>6, <1>7 DEF IsExecution, IsOnTheWay, IsEngine
<1> QED BY <1>1, <1>2, <1>6, <1>8

-----------------------------------------------------------------------------
(* Commands.                                                               *)

IsCommand(c) ==
    \/ c.kind = "begin"
    \/ c.kind \in {"insert", "update"} /\ IsTxn(c.txn) /\ c.id \in Id /\ c.val \in Val
    \/ c.kind = "delete" /\ IsTxn(c.txn) /\ c.id \in Id
    \/ c.kind \in {"commit", "rollback"} /\ IsTxn(c.txn)

Reapplied == {"update", "delete", "commit", "rollback"}

LEMMA ExecIs ==
    ASSUME NEW e, NEW c, IsEngine(e), IsCommand(c), c.kind # "begin"
    PROVE  /\ c.txn.version \notin e.active => Exec(Start(e), c) = Fail(Start(e))
           /\ c.txn.version \in e.active =>
                  /\ c.kind = "insert" =>
                         Exec(Start(e), c) = ExecInsert(Start(e), c.txn, c.id, c.val)
                  /\ c.kind = "update" =>
                         Exec(Start(e), c) = ExecUpdate(Start(e), c.txn, c.id, c.val)
                  /\ c.kind = "delete" => Exec(Start(e), c) = ExecDelete(Start(e), c.txn, c.id)
                  /\ c.kind = "commit" => Exec(Start(e), c) = ExecCommit(Start(e), c.txn)
                  /\ c.kind = "rollback" => Exec(Start(e), c) = ExecRollback(Start(e), c.txn)
<1>1. Start(e).now = e
  BY DEF Start
<1>2. CASE c.txn.version \notin e.active
  BY <1>1, <1>2 DEF Exec
<1>3. CASE c.txn.version \in e.active /\ c.kind = "insert"
  BY <1>1, <1>3 DEF Exec
<1>4. CASE c.txn.version \in e.active /\ c.kind = "update"
  BY <1>1, <1>4 DEF Exec
<1>5. CASE c.txn.version \in e.active /\ c.kind = "delete"
  BY <1>1, <1>5 DEF Exec
<1>6. CASE c.txn.version \in e.active /\ c.kind = "commit"
  BY <1>1, <1>6 DEF Exec
<1>7. CASE c.txn.version \in e.active /\ c.kind = "rollback"
  BY <1>1, <1>7 DEF Exec
<1>8. c.kind \in {"insert", "update", "delete", "commit", "rollback"}
  BY DEF IsCommand
<1> QED BY <1>2, <1>3, <1>4, <1>5, <1>6, <1>7, <1>8

\* What a command leaves, complete or not, if it is none that begins a
\* transaction.
LEMMA ExecType ==
    ASSUME NEW e, NEW c, IsEngine(e), IsCommand(c), c.kind # "begin"
    PROVE  LET x == Exec(Start(e), c)
           IN  /\ IsExecution(x)
               /\ \A f \in x.before \cup {x.now} : f.applied = e.applied
               /\ x.now.next = e.next /\ x.now.active \subseteq e.active
<1>1. PICK x : x = Exec(Start(e), c)
  OBVIOUS
<1>2. IsExecution(x) /\ Frame(x, e) =>
          /\ \A f \in x.before \cup {x.now} : f.applied = e.applied
          /\ x.now.next = e.next /\ x.now.active \subseteq e.active
  BY DEF Frame
<1>3. CASE c.txn.version \notin e.active
  BY <1>1, <1>2, <1>3, ExecIs, StartFrame
<1>4. CASE c.txn.version \in e.active /\ c.kind = "insert"
  <2>1. IsTxn(c.txn) /\ c.id \in Id /\ c.val \in Val
    BY <1>4 DEF IsCommand
  <2>2. x = ExecInsert(Start(e), c.txn, c.id, c.val)
    BY <1>1, <1>4, ExecIs
  <2>3. IsExecution(x) /\ Frame(x, e)
    BY <2>1, <2>2, InsertFrame
  <2> QED BY <1>1, <1>2, <2>3
<1>5. CASE c.txn.version \in e.active /\ c.kind = "update"
  <2>1. IsTxn(c.txn) /\ c.id \in Id /\ c.val \in Val
    BY <1>5 DEF IsCommand
  <2>2. x = ExecUpdate(Start(e), c.txn, c.id, c.val)
    BY <1>1, <1>5, ExecIs
  <2>3. IsExecution(x) /\ Frame(x, e)
    BY <2>1, <2>2, UpdateFrame
  <2> QED BY <1>1, <1>2, <2>3
<1>6. CASE c.txn.version \in e.active /\ c.kind = "delete"
  <2>1. IsTxn(c.txn) /\ c.id \in Id
    BY <1>6 DEF IsCommand
  <2>2. x = ExecDelete(Start(e), c.txn, c.id)
    BY <1>1, <1>6, ExecIs
  <2>3. IsExecution(x) /\ Frame(x, e)
    BY <2>1, <2>2, DeleteFrame
  <2> QED BY <1>1, <1>2, <2>3
<1>7. CASE c.txn.version \in e.active /\ c.kind \in {"commit", "rollback"}
  <2>1. IsTxn(c.txn)
    BY <1>7 DEF IsCommand
  <2>2. x = ExecCommit(Start(e), c.txn) \/ x = ExecRollback(Start(e), c.txn)
    BY <1>1, <1>7, ExecIs
  <2>3. /\ IsExecution(x) /\ \A f \in x.before : IsOnTheWay(e, f)
        /\ x.now.active = e.active \ {c.txn.version}
        /\ x.now.next = e.next /\ x.now.applied = e.applied
    BY <2>1, <2>2, CommitType, RollbackType
  <2> QED BY <1>1, <2>3 DEF IsOnTheWay
<1>8. c.kind \in {"insert", "update", "delete", "commit", "rollback"}
  BY DEF IsCommand
<1> QED BY <1>3, <1>4, <1>5, <1>6, <1>7, <1>8

\* A command that is executed again from what a crash has left.
LEMMA ExecAgain ==
    ASSUME NEW e, NEW c, IsEngine(e), IsCommand(c), c.kind \in Reapplied,
           NEW s \in Exec(Start(e), c).before \cup {Exec(Start(e), c).now}
    PROVE  Exec(Start(s), c).now = Exec(Start(e), c).now
<1>1. PICK x : x = Exec(Start(e), c)
  OBVIOUS
<1>2. IsExecution(x) /\ IsEngine(s) /\ c.kind # "begin"
  BY <1>1, ExecType DEF IsExecution, Reapplied
<1>3. CASE c.txn.version \notin e.active
  <2>1. s = e
    BY <1>2, <1>3, ExecIs, StartFrame
  <2> QED BY <2>1
<1>4. CASE c.txn.version \in e.active /\ c.kind = "update"
  <2>1. IsTxn(c.txn) /\ c.id \in Id /\ c.val \in Val
    BY <1>4 DEF IsCommand
  <2>2. x = ExecUpdate(Start(e), c.txn, c.id, c.val)
    BY <1>1, <1>2, <1>4, ExecIs
  <2>3. s.active = e.active
    <3>1. Frame(x, e)
      BY <2>1, <2>2, UpdateFrame
    <3> QED BY <1>1, <3>1 DEF Frame
  <2>4. Exec(Start(s), c) = ExecUpdate(Start(s), c.txn, c.id, c.val)
    BY <1>2, <1>4, <2>3, ExecIs
  <2> QED BY <1>1, <2>1, <2>2, <2>4, UpdateAgain
<1>5. CASE c.txn.version \in e.active /\ c.kind = "delete"
  <2>1. IsTxn(c.txn) /\ c.id \in Id
    BY <1>5 DEF IsCommand
  <2>2. x = ExecDelete(Start(e), c.txn, c.id)
    BY <1>1, <1>2, <1>5, ExecIs
  <2>3. s.active = e.active
    <3>1. Frame(x, e)
      BY <2>1, <2>2, DeleteFrame
    <3> QED BY <1>1, <3>1 DEF Frame
  <2>4. Exec(Start(s), c) = ExecDelete(Start(s), c.txn, c.id)
    BY <1>2, <1>5, <2>3, ExecIs
  <2> QED BY <1>1, <2>1, <2>2, <2>4, DeleteAgain
<1>6. ASSUME c.txn.version \in e.active, c.kind \in {"commit", "rollback"}, s = x.now
      PROVE  Exec(Start(s), c).now = x.now
  <2>1. IsTxn(c.txn)
    BY <1>6 DEF IsCommand
  <2>2. x = ExecCommit(Start(e), c.txn) \/ x = ExecRollback(Start(e), c.txn)
    BY <1>1, <1>2, <1>6, ExecIs
  <2>3. x.now.active = e.active \ {c.txn.version}
    BY <2>1, <2>2, CommitType, RollbackType
  <2>4. Exec(Start(s), c) = Fail(Start(s))
    BY <1>2, <1>6, <2>3, ExecIs
  <2> QED BY <1>2, <1>6, <2>4, StartFrame
<1>7. CASE c.txn.version \in e.active /\ c.kind = "commit"
  <2>1. IsTxn(c.txn)
    BY <1>7 DEF IsCommand
  <2>2. x = ExecCommit(Start(e), c.txn)
    BY <1>1, <1>2, <1>7, ExecIs
  <2>3. CASE s \in x.before
    <3>1. s \in CommitStates(e, c.txn.version)
      BY <2>2, <2>3, CommitIs
    <3>2. s.active = e.active /\ CommitLast(s, c.txn.version) = CommitLast(e, c.txn.version)
      BY <2>1, <3>1, CommitWay DEF IsOnTheWay
    <3>3. Exec(Start(s), c) = ExecCommit(Start(s), c.txn)
      BY <1>2, <1>7, <3>2, ExecIs
    <3> QED BY <1>1, <1>2, <2>2, <3>2, <3>3, CommitIs
  <2> QED BY <1>1, <1>6, <1>7, <2>3
<1>8. CASE c.txn.version \in e.active /\ c.kind = "rollback"
  <2>1. IsTxn(c.txn)
    BY <1>8 DEF IsCommand
  <2>2. x = ExecRollback(Start(e), c.txn)
    BY <1>1, <1>2, <1>8, ExecIs
  <2>3. CASE s \in x.before
    <3>1. s \in RollbackStates(e, c.txn.version)
      BY <2>2, <2>3, RollbackIs
    <3>2. s.active = e.active /\ RollbackLast(s, c.txn.version) = RollbackLast(e, c.txn.version)
      BY <2>1, <3>1, RollbackWay DEF IsOnTheWay
    <3>3. Exec(Start(s), c) = ExecRollback(Start(s), c.txn)
      BY <1>2, <1>8, <3>2, ExecIs
    <3> QED BY <1>1, <1>2, <2>2, <3>2, <3>3, RollbackIs
  <2> QED BY <1>1, <1>6, <1>8, <2>3
<1> QED BY <1>3, <1>4, <1>5, <1>7, <1>8 DEF Reapplied

\* BEGIN: the next version, and the active set it begins with.
LEMMA BeginType ==
    ASSUME NEW e, IsEngine(e)
    PROVE  LET y == ExecBegin(Start(e))
           IN  /\ IsEngine(y.now) /\ y.now.applied = e.applied
               /\ y.now.next = e.next + 1 /\ y.now.active = e.active \cup {e.next}
               /\ y.now.data = e.data /\ y.now.writes = e.writes
               /\ y \in [now : {y.now}, before : {y.before}, failed : {FALSE}]
<1>1. PICK x : x = Start(e)
  OBVIOUS
<1>2. x \in [now : {e}, before : {{}}, failed : {FALSE}]
  BY <1>1 DEF Start
<1>3. PICK a : a = [e EXCEPT !.next = e.next + 1]
  OBVIOUS
<1>4. PICK b : b = [a EXCEPT !.snapshot[e.next] = a.active]
  OBVIOUS
<1>5. e \in Engines
  BY DEF IsEngine
<1>6. /\ a \in Engines /\ a.next = e.next + 1 /\ a.active = e.active
      /\ a.applied = e.applied /\ a.data = e.data /\ a.writes = e.writes
  BY <1>3, <1>5 DEF Engines
<1>7. /\ b \in Engines /\ b.next = e.next + 1 /\ b.active = e.active
      /\ b.applied = e.applied /\ b.data = e.data /\ b.writes = e.writes
  <2>1. [a.snapshot EXCEPT ![e.next] = a.active] \in [Version -> SUBSET Nat]
    BY <1>6 DEF Engines
  <2>2. b = [a EXCEPT !.snapshot = [a.snapshot EXCEPT ![e.next] = a.active]]
    BY <1>4, <1>6 DEF Engines
  <2> QED BY <1>6, <2>1, <2>2 DEF Engines
<1>8. PICK u : u = IF a.active = {} THEN Then(x, a) ELSE Then(Then(x, a), b)
  OBVIOUS
<1>9. u \in [now : {a, b}, before : {u.before}, failed : {FALSE}]
  BY <1>2, <1>8 DEF Then
<1>10. u.now \in {a, b}
  BY <1>9
<1>11. PICK f : f = [u.now EXCEPT !.active = @ \cup {e.next}]
  OBVIOUS
<1>12. /\ f \in Engines /\ f.next = e.next + 1 /\ f.active = e.active \cup {e.next}
       /\ f.applied = e.applied /\ f.data = e.data /\ f.writes = e.writes
  <2>1. e.next \in Nat /\ e.active \cup {e.next} \in SUBSET Nat
    BY <1>5 DEF Engines
  <2>2. PICK g : g = u.now
    OBVIOUS
  <2>3. /\ g \in Engines /\ g.next = e.next + 1 /\ g.active = e.active
        /\ g.applied = e.applied /\ g.data = e.data /\ g.writes = e.writes
    BY <1>6, <1>7, <1>10, <2>2
  <2>4. f = [g EXCEPT !.active = e.active \cup {e.next}]
    BY <1>11, <2>2, <2>3 DEF Engines
  <2> QED BY <2>1, <2>3, <2>4 DEF Engines
<1>13. PICK y : y = Then(u, f)
  OBVIOUS
<1>14. ExecBegin(Start(e)) = y
  <2>1. x.now = e
    BY <1>2
  <2> QED BY <1>1, <1>3, <1>4, <1>8, <1>11, <1>13, <2>1 DEF ExecBegin
<1>15. y \in [now : {f}, before : {y.before}, failed : {FALSE}]
  BY <1>9, <1>13 DEF Then
<1>16. IsEngine(f)
  BY <1>12 DEF IsEngine, RowsAreValues, IndexesAreIds
<1> QED BY <1>12, <1>14, <1>15, <1>16

\* An applied command: its last write is the applied index.
LEMMA ExecutionIs ==
    ASSUME NEW e, NEW c, IsEngine(e), IsCommand(c)
    PROVE  LET x == Exec(Start(e), c)
               y == Execution(e, c)
           IN  /\ y.now = [x.now EXCEPT !.applied = @ + 1]
               /\ y.before = x.before \cup {x.now}
               /\ IsEngine(y.now) /\ y.now.applied = e.applied + 1
               /\ y.now.next = x.now.next /\ y.now.active = x.now.active
<1>1. PICK x : x = Exec(Start(e), c)
  OBVIOUS
<1>2. /\ IsEngine(x.now) /\ x.now.applied = e.applied
      /\ x \in [now : {x.now}, before : {x.before}, failed : BOOLEAN]
  <2>1. CASE c.kind = "begin"
    <3>1. x = ExecBegin(Start(e))
      BY <1>1, <2>1 DEF Exec
    <3> QED BY <3>1, BeginType
  <2>2. CASE c.kind # "begin"
    <3>1. IsExecution(x) /\ \A f \in x.before \cup {x.now} : f.applied = e.applied
      BY <1>1, <2>2, ExecType
    <3> QED BY <3>1 DEF IsExecution
  <2> QED BY <2>1, <2>2
<1>3. PICK f : f = [x.now EXCEPT !.applied = @ + 1]
  OBVIOUS
<1>4. /\ f \in Engines /\ f.applied = e.applied + 1 /\ f.data = x.now.data
      /\ f.next = x.now.next /\ f.active = x.now.active
  <2>1. PICK z : z = x.now
    OBVIOUS
  <2>2. z \in Engines /\ z.applied = e.applied
    BY <1>2, <2>1 DEF IsEngine
  <2>3. f = [z EXCEPT !.applied = z.applied + 1]
    BY <1>3, <2>1, <2>2 DEF Engines
  <2>4. /\ f \in Engines /\ f.applied = z.applied + 1 /\ f.data = z.data
        /\ f.next = z.next /\ f.active = z.active
    BY <2>2, <2>3 DEF Engines
  <2> QED BY <2>1, <2>2, <2>4
<1>5. IsEngine(f)
  BY <1>2, <1>4 DEF IsEngine, RowsAreValues, IndexesAreIds
<1>6. PICK y : y = Then(x, f)
  OBVIOUS
<1>7. Execution(e, c) = y
  BY <1>1, <1>3, <1>6 DEF Execution
<1>8. y.now = f /\ y.before = x.before \cup {x.now}
  BY <1>2, <1>6 DEF Then
<1> QED BY <1>1, <1>3, <1>4, <1>5, <1>7, <1>8

LEMMA ExecutionAgain ==
    ASSUME NEW e, NEW c, IsEngine(e), IsCommand(c), c.kind \in Reapplied,
           NEW s \in Execution(e, c).before
    PROVE  /\ IsEngine(s) /\ s.applied = e.applied
           /\ Execution(s, c).now = Execution(e, c).now
<1>1. PICK x : x = Exec(Start(e), c)
  OBVIOUS
<1>2. s \in x.before \cup {x.now}
  BY <1>1, ExecutionIs
<1>3. c.kind # "begin"
  BY DEF Reapplied
<1>4. IsEngine(s) /\ s.applied = e.applied
  BY <1>1, <1>2, <1>3, ExecType DEF IsExecution
<1>5. Exec(Start(s), c).now = x.now
  BY <1>1, <1>2, ExecAgain
<1>6. Execution(e, c).now = [x.now EXCEPT !.applied = @ + 1]
  BY <1>1, ExecutionIs
<1>7. Execution(s, c).now = [Exec(Start(s), c).now EXCEPT !.applied = @ + 1]
  BY <1>4, ExecutionIs
<1> QED BY <1>4, <1>5, <1>6, <1>7

-----------------------------------------------------------------------------
(* The specification.                                                      *)

TypesHold ==
    /\ IsEngine(engine) /\ IsEngine(expected) /\ index \in Nat
    /\ \A t \in txns : IsTxn(t)

\* Versions are allocated upwards from 1.
VersionsAreNew ==
    expected.next \in Nat \ {0} /\ \A v \in expected.active : v < expected.next

\* What is left to apply leads the node to the engine that is expected.
ApplyLeadsToExpected ==
    /\ expected.applied = index /\ engine.applied <= index
    /\ engine.applied = index => engine = expected
    /\ engine.applied < index => IsCommand(entry) /\ Execution(engine, entry).now = expected

SqlInv == TypesHold /\ VersionsAreNew /\ ApplyLeadsToExpected

LEMMA SqlInvInit == SqlInit => SqlInv
<1> SUFFICES ASSUME SqlInit PROVE SqlInv
  OBVIOUS
<1>1. PICK empty : empty = EmptyEngine
  OBVIOUS
<1>2. engine = empty /\ expected = empty /\ index = 0 /\ txns = {}
  BY <1>1 DEF SqlInit
<1>3. /\ empty.next = 1 /\ empty.active = {} /\ empty.applied = 0
      /\ empty.data = [k \in UserKey |-> [v \in Version |-> Absent]]
  BY <1>1 DEF EmptyEngine
<1>4. empty \in Engines
  <2>1. [k \in UserKey |-> [v \in Version |-> Absent]] \in [UserKey -> [Version -> Stored]]
    BY DEF Stored
  <2>2. [v \in Version |-> {}] \in [Version -> SUBSET Nat]
    OBVIOUS
  <2> QED BY <1>1, <2>1, <2>2 DEF EmptyEngine, Engines
<1>5. IsEngine(empty)
  BY <1>3, <1>4, KeysDiffer DEF IsEngine, RowsAreValues, IndexesAreIds
<1> QED BY <1>2, <1>3, <1>5 DEF SqlInv, TypesHold, VersionsAreNew, ApplyLeadsToExpected

LEMMA CommandType ==
    ASSUME SqlInv, NEW c \in Command
    PROVE  IsCommand(c)
BY DEF Command, IsCommand, SqlInv, TypesHold

LEMMA SubmitKeepsSqlInv ==
    ASSUME SqlInv, NEW c \in Command, Submit(c)
    PROVE  SqlInv'
<1>1. IsCommand(c) /\ engine.applied = index /\ engine = expected
  BY CommandType DEF Submit, SqlInv, ApplyLeadsToExpected
<1>2. IsEngine(expected) /\ index \in Nat /\ index' = index + 1 /\ engine' = engine /\ entry' = c
  BY DEF Submit, SqlInv, TypesHold
<1>3. expected' = Execution(expected, c).now
  BY DEF Submit
<1>4. PICK x : x = Exec(Start(expected), c)
  OBVIOUS
<1>5. /\ IsEngine(expected') /\ expected'.applied = expected.applied + 1
      /\ expected'.next = x.now.next /\ expected'.active = x.now.active
  BY <1>1, <1>2, <1>3, <1>4, ExecutionIs
<1>6. CASE c.kind = "begin"
  <2>1. x = ExecBegin(Start(expected))
    BY <1>4, <1>6 DEF Exec
  <2>2. x.now.next = expected.next + 1 /\ x.now.active = expected.active \cup {expected.next}
    BY <1>2, <2>1, BeginType
  <2>3. VersionsAreNew'
    <3>1. PICK n, a : n = expected.next /\ a = expected.active
      OBVIOUS
    <3>2. n \in Nat \ {0} /\ a \subseteq Nat /\ \A v \in a : v < n
      BY <1>2, <3>1 DEF SqlInv, VersionsAreNew, IsEngine, Engines
    <3>3. expected'.next = n + 1 /\ expected'.active = a \cup {n}
      BY <1>5, <2>2, <3>1
    <3>4. n + 1 \in Nat \ {0} /\ \A v \in a \cup {n} : v < n + 1
      BY <3>2
    <3> QED BY <3>3, <3>4 DEF VersionsAreNew
  <2>4. PICK t : t = [version |-> expected.next, readOnly |-> FALSE, active |-> expected.active]
    OBVIOUS
  <2>5. IsTxn(t)
    <3>1. expected.next <= MaxVersion /\ expected.next \in Nat \ {0} /\ expected.active \subseteq Nat
      BY <1>2, <1>6 DEF Submit, IsSubmitted, SqlInv, VersionsAreNew, IsEngine, Engines
    <3>2. expected.next \in Version /\ expected.next \notin expected.active
      BY <3>1, SqlStateAssumption DEF Version, SqlInv, VersionsAreNew
    <3> QED BY <2>4, <3>1, <3>2 DEF IsTxn
  <2>6. txns' = txns \cup {t}
    BY <1>6, <2>4 DEF Submit
  <2>7. TypesHold'
    BY <1>2, <1>5, <2>5, <2>6 DEF SqlInv, TypesHold
  <2>8. ApplyLeadsToExpected'
    BY <1>1, <1>2, <1>3, <1>5 DEF SqlInv, ApplyLeadsToExpected
  <2> QED BY <2>3, <2>7, <2>8 DEF SqlInv
<1>7. CASE c.kind # "begin"
  <2>1. x.now.next = expected.next /\ x.now.active \subseteq expected.active
    BY <1>1, <1>2, <1>4, <1>7, ExecType
  <2>2. VersionsAreNew'
    BY <1>5, <2>1 DEF SqlInv, VersionsAreNew
  <2>3. txns' = txns
    BY <1>7 DEF Submit
  <2>4. TypesHold'
    BY <1>2, <1>5, <2>3 DEF SqlInv, TypesHold
  <2>5. ApplyLeadsToExpected'
    BY <1>1, <1>2, <1>3, <1>5 DEF SqlInv, ApplyLeadsToExpected
  <2> QED BY <2>2, <2>4, <2>5 DEF SqlInv
<1> QED BY <1>6, <1>7

LEMMA ApplyKeepsSqlInv ==
    ASSUME SqlInv, Apply
    PROVE  SqlInv'
<1>1. engine' = expected /\ expected' = expected /\ index' = index /\ txns' = txns
  BY DEF Apply, SqlInv, ApplyLeadsToExpected
<1> QED BY <1>1 DEF SqlInv, TypesHold, VersionsAreNew, ApplyLeadsToExpected

LEMMA CrashKeepsSqlInv ==
    ASSUME SqlInv, ApplyAndCrash, CrashIn \subseteq Reapplied
    PROVE  SqlInv'
<1>1. /\ IsEngine(engine) /\ IsCommand(entry) /\ entry.kind \in Reapplied
      /\ engine.applied < index /\ Execution(engine, entry).now = expected
  BY DEF ApplyAndCrash, SqlInv, TypesHold, ApplyLeadsToExpected
<1>2. /\ engine' \in Execution(engine, entry).before
      /\ expected' = expected /\ index' = index /\ txns' = txns /\ entry' = entry
  BY DEF ApplyAndCrash
<1>3. PICK s : s = engine'
  OBVIOUS
<1>4. /\ IsEngine(s) /\ s.applied = engine.applied
      /\ Execution(s, entry).now = expected
  BY <1>1, <1>2, <1>3, ExecutionAgain
<1>5. engine.applied \in Nat /\ index \in Nat
  BY <1>1 DEF SqlInv, TypesHold, IsEngine, Engines
<1>6. IsEngine(engine)' /\ (Execution(engine, entry).now = expected)'
  BY <1>2, <1>3, <1>4
<1> QED BY <1>1, <1>2, <1>3, <1>4, <1>5, <1>6
        DEF SqlInv, TypesHold, VersionsAreNew, ApplyLeadsToExpected

LEMMA NextKeepsSqlInv ==
    ASSUME SqlInv, [SqlNext]_stateVars, CrashIn \subseteq Reapplied
    PROVE  SqlInv'
<1>1. CASE \E c \in Command : Submit(c)
  BY <1>1, SubmitKeepsSqlInv
<1>2. CASE Apply
  BY <1>2, ApplyKeepsSqlInv
<1>3. CASE ApplyAndCrash
  BY <1>3, CrashKeepsSqlInv
<1>4. CASE UNCHANGED stateVars
  BY <1>4 DEF stateVars, SqlInv, TypesHold, VersionsAreNew, ApplyLeadsToExpected
<1> QED BY <1>1, <1>2, <1>3, <1>4 DEF SqlNext

\* State::apply "must yield the same state and result on all nodes, even if the
\* command is reapplied following a node crash": it does for the commands other
\* than BEGIN and INSERT, wherever the crashes interrupt them.
THEOREM CommandsAreReapplied ==
    ASSUME CrashIn \subseteq {"update", "delete", "commit", "rollback"}
    PROVE  SqlSpec => []ReapplicationIsDeterministic
<1>1. CrashIn \subseteq Reapplied
  BY DEF Reapplied
<1>2. SqlInv /\ [SqlNext]_stateVars => SqlInv'
  BY <1>1, NextKeepsSqlInv
<1>3. SqlInv => ReapplicationIsDeterministic
  BY DEF SqlInv, ApplyLeadsToExpected, ReapplicationIsDeterministic
<1> QED BY SqlInvInit, <1>2, <1>3, PTL DEF SqlSpec

-----------------------------------------------------------------------------
(* What a view sees: the latest of the versions that it does not hide.     *)

View == [version : Nat, readOnly : BOOLEAN, active : SUBSET Nat]

Present(e, k) == {v \in Version : e.data[k][v] # Absent}

Hides(s, v) == v \in s.active \/ v > s.version \/ (s.readOnly /\ v = s.version)

Seen(e, s, k) == {v \in Present(e, k) : ~Hides(s, v)}

LEMMA SeenIs ==
    ASSUME NEW e, NEW s \in View, NEW k
    PROVE  Mvcc(e)!VisibleVersions(s, k) = Seen(e, s, k)
<1>1. s.version \in Nat /\ s.readOnly \in BOOLEAN
  BY DEF View
<1>2. ASSUME NEW v \in Version
      PROVE  (v <= s.version /\ Mvcc(e)!IsVisible(s, v)) <=> ~Hides(s, v)
  BY <1>1 DEF Version, Mvcc!IsVisible, Hides
<1> QED BY <1>2 DEF Mvcc!VisibleVersions, Mvcc!Version, Version, Seen, Present

LEMMA ReadIsLast ==
    ASSUME NEW e, NEW s, NEW k, NEW v, s \in View, v \in Seen(e, s, k),
           \A w \in Seen(e, s, k) : w <= v
    PROVE  Read(e, s, k) = e.data[k][v]
<1>1. PICK seen : seen = Seen(e, s, k)
  OBVIOUS
<1>2. seen \subseteq Nat
  BY <1>1 DEF Seen, Present, Version
<1>3. \A u \in seen : (\A w \in seen : w <= u) <=> u = v
  BY <1>1, <1>2
<1>4. (CHOOSE u \in seen : \A w \in seen : w <= u) = v
  BY <1>1, <1>3
<1> QED BY <1>1, <1>4, SeenIs DEF Read, Mvcc!Get

LEMMA ReadIsNothing ==
    ASSUME NEW e, NEW s, NEW k, s \in View, Seen(e, s, k) = {}
    PROVE  Read(e, s, k) = Deleted
BY SeenIs DEF Read, Mvcc!Get

LEMMA LastIsSeen ==
    ASSUME NEW S, S \subseteq Version, S # {}
    PROVE  \E v \in S : \A w \in S : w <= v
<1>1. S \subseteq 0..MaxVersion /\ MaxVersion \in Nat
  BY SqlStateAssumption DEF Version
<1> QED BY <1>1, HasMaximum

LEMMA SameSeen ==
    ASSUME NEW e, NEW f, NEW s, NEW u, NEW k, s \in View, u \in View,
           Seen(f, u, k) = Seen(e, s, k),
           \A v \in Seen(e, s, k) : f.data[k][v] = e.data[k][v]
    PROVE  Read(f, u, k) = Read(e, s, k)
<1>1. CASE Seen(e, s, k) = {}
  BY <1>1, ReadIsNothing
<1>2. CASE Seen(e, s, k) # {}
  <2>1. Seen(e, s, k) \subseteq Version
    BY DEF Seen, Present
  <2>2. PICK v \in Seen(e, s, k) : \A w \in Seen(e, s, k) : w <= v
    BY <1>2, <2>1, LastIsSeen
  <2>3. Read(e, s, k) = e.data[k][v]
    BY <2>2, ReadIsLast
  <2>4. v \in Seen(f, u, k) /\ \A w \in Seen(f, u, k) : w <= v
    BY <2>2
  <2>5. Read(f, u, k) = f.data[k][v]
    BY <2>4, ReadIsLast
  <2> QED BY <2>2, <2>3, <2>5
<1> QED BY <1>1, <1>2

-----------------------------------------------------------------------------
(* The versions of a key, written one after the other.                     *)

\* Versions were allocated to transactions of T, and recorded while active.
VersionsAreKnown(e, T) ==
    \A k \in UserKey : \A v \in Present(e, k) :
        /\ v < e.next /\ \E t \in T : t.version = v
        /\ v \in e.active => <<v, k>> \in e.writes

\* Transactions know which of the earlier ones were active.
ActivesAreKnown(e, T) ==
    \A t \in T :
        /\ IsTxn(t) /\ t.version < e.next
        /\ \A a \in t.active : a < t.version
        /\ \A a \in e.active : a < t.version => a \in t.active

TxnsAreOrdered(T) ==
    \A t, u \in T :
        /\ t.version = u.version => t = u
        /\ u.version < t.version => \A a \in t.active : a < u.version => a \in u.active

\* A transaction writes a key when it sees all of its versions.
WritesAreSerial(e, T) ==
    \A t \in T, k \in UserKey : t.version \in Present(e, k) =>
        \A w \in Present(e, k) :
            /\ w < t.version => w \notin t.active
            /\ t.version \in e.active => w <= t.version

VersionInv(e, T) ==
    /\ VersionsAreKnown(e, T) /\ ActivesAreKnown(e, T)
    /\ TxnsAreOrdered(T) /\ WritesAreSerial(e, T)

\* Without a conflict a transaction sees every version.
LEMMA NoConflictSees ==
    ASSUME NEW e, NEW T, VersionInv(e, T), NEW t \in T, NEW k \in UserKey, ~Conflict(e, t, k),
           NEW w \in Present(e, k)
    PROVE  w <= t.version /\ w \notin t.active
<1> SUFFICES ASSUME w > t.version \/ w \in t.active PROVE FALSE
  <2>1. IsTxn(t)
    BY DEF VersionInv, ActivesAreKnown
  <2>2. w \in Nat /\ t.version \in Nat
    BY <2>1 DEF Present, Version, IsTxn
  <2> QED BY <2>2
<1>1. IsTxn(t) /\ \A a \in t.active : a < t.version
  BY DEF VersionInv, ActivesAreKnown
<1>2. /\ t.version \in Nat /\ t.active \subseteq Nat /\ t.readOnly = FALSE
      /\ t.version \in Version /\ w \in Nat
  <2>1. t.version \in Version /\ t.active \subseteq Nat /\ t.readOnly = FALSE
    BY <1>1 DEF IsTxn
  <2> QED BY <2>1 DEF Version, Present
<1>3. PICK scanned : scanned = Mvcc(e)!ScannedForConflicts(t, k)
  OBVIOUS
<1>4. scanned = {v \in Present(e, k) :
                    IF t.active = {} THEN v > t.version ELSE \E a \in t.active : v >= a}
  BY <1>3 DEF Mvcc!ScannedForConflicts, Mvcc!Version, Version, Present
<1>5. w \in scanned
  BY <1>1, <1>2, <1>4
<1>6. scanned \subseteq Version
  BY <1>4 DEF Present
<1>7. PICK l \in scanned : \A v \in scanned : v <= l
  BY <1>5, <1>6, LastIsSeen
<1>8. Mvcc(e)!IsVisible(t, l)
  BY <1>3, <1>7 DEF Conflict, Mvcc!WriteConflict
<1>9. l \notin t.active /\ l <= t.version /\ l \in Present(e, k) /\ l \in Nat
  BY <1>2, <1>4, <1>6, <1>8 DEF Mvcc!IsVisible, Version
<1>10. w <= l /\ w # l /\ w \in t.active
  BY <1>2, <1>5, <1>7, <1>9
<1>11. PICK u \in T : u.version = l
  BY <1>9 DEF VersionInv, VersionsAreKnown
<1>12. w \in u.active
  <2>1. CASE l = t.version
    BY <1>10, <1>11, <2>1 DEF VersionInv, TxnsAreOrdered
  <2>2. CASE l < t.version
    BY <1>2, <1>9, <1>10, <1>11, <2>2 DEF VersionInv, TxnsAreOrdered
  <2> QED BY <1>2, <1>9, <2>1, <2>2
<1>13. w \notin u.active
  BY <1>2, <1>9, <1>10, <1>11 DEF VersionInv, WritesAreSerial
<1> QED BY <1>12, <1>13

LEMMA WrittenPresent ==
    ASSUME NEW e, NEW t, NEW k \in UserKey, NEW value, IsEngine(e), IsTxn(t), value # Absent
    PROVE  /\ Present(Written(e, t, k, value), k) = Present(e, k) \cup {t.version}
           /\ \A j \in UserKey : j # k => Present(Written(e, t, k, value), j) = Present(e, j)
<1>1. PICK f : f = Written(e, t, k, value)
  OBVIOUS
<1>2. e \in Engines /\ t.version \in Version
  BY DEF IsEngine, IsTxn
<1>3. /\ \A j \in UserKey : j # k => f.data[j] = e.data[j]
      /\ \A v \in Version : v # t.version => f.data[k][v] = e.data[k][v]
      /\ f.data[k][t.version] = value
  BY <1>1, <1>2, WrittenData
<1>4. Present(f, k) = Present(e, k) \cup {t.version}
  BY <1>2, <1>3 DEF Present
<1>5. \A j \in UserKey : j # k => Present(f, j) = Present(e, j)
  BY <1>3 DEF Present
<1> QED BY <1>1, <1>4, <1>5

LEMMA WriteKeepsVersions ==
    ASSUME NEW e, NEW T, NEW t \in T, NEW k \in UserKey, NEW value,
           IsEngine(e), VersionInv(e, T), value # Absent, ~Conflict(e, t, k)
    PROVE  VersionInv(Written(e, t, k, value), T)
<1>1. IsTxn(t)
  BY DEF VersionInv, ActivesAreKnown
<1>2. t.version \in Version /\ t.version \in Nat /\ t.version < e.next
  <2>1. t.version \in Version /\ t.version < e.next
    BY <1>1 DEF IsTxn, VersionInv, ActivesAreKnown
  <2> QED BY <2>1 DEF Version
<1>3. PICK f : f = Written(e, t, k, value)
  OBVIOUS
<1>4. /\ f.next = e.next /\ f.active = e.active
      /\ f.writes = e.writes \cup {<<t.version, k>>}
  BY <1>3 DEF Written, Recorded, IsEngine, Engines
<1>5. /\ Present(f, k) = Present(e, k) \cup {t.version}
      /\ \A j \in UserKey : j # k => Present(f, j) = Present(e, j)
  BY <1>1, <1>3, WrittenPresent
<1>6. \A w \in Present(e, k) : w <= t.version /\ w \notin t.active /\ w \in Nat
  BY NoConflictSees DEF Present, Version
<1>7. VersionsAreKnown(f, T)
  <2> SUFFICES ASSUME NEW j \in UserKey, NEW v \in Present(f, j)
               PROVE  /\ v < f.next /\ \E u \in T : u.version = v
                      /\ v \in f.active => <<v, j>> \in f.writes
    BY DEF VersionsAreKnown
  <2>1. CASE v \in Present(e, j)
    BY <1>4, <2>1 DEF VersionInv, VersionsAreKnown
  <2>2. CASE v \notin Present(e, j)
    <3>1. j = k /\ v = t.version
      BY <1>5, <2>2
    <3> QED BY <1>2, <1>4, <3>1
  <2> QED BY <2>1, <2>2
<1>8. ActivesAreKnown(f, T) /\ TxnsAreOrdered(T)
  BY <1>4 DEF VersionInv, ActivesAreKnown
<1>9. WritesAreSerial(f, T)
  <2> SUFFICES ASSUME NEW u \in T, NEW j \in UserKey, u.version \in Present(f, j),
                      NEW w \in Present(f, j)
               PROVE  /\ w < u.version => w \notin u.active
                      /\ u.version \in f.active => w <= u.version
    BY DEF WritesAreSerial
  <2>0. IsTxn(u) /\ u.version \in Nat /\ w \in Nat
    <3>1. IsTxn(u)
      BY DEF VersionInv, ActivesAreKnown
    <3>2. u.version \in Version /\ w \in Version
      BY <3>1 DEF IsTxn, Present
    <3> QED BY <3>1, <3>2 DEF Version
  <2>1. CASE j # k
    BY <1>4, <1>5, <2>1 DEF VersionInv, WritesAreSerial
  <2>2. CASE j = k /\ u = t
    BY <1>2, <1>5, <1>6, <2>0, <2>2
  <2>3. CASE j = k /\ u # t
    <3>1. u.version # t.version
      BY <2>3 DEF VersionInv, TxnsAreOrdered
    <3>2. u.version \in Present(e, k)
      BY <1>5, <2>3, <3>1
    <3>3. u.version < t.version /\ u.version \notin t.active
      BY <1>2, <1>6, <2>0, <3>1, <3>2
    <3>4. u.version \notin e.active
      BY <3>3 DEF VersionInv, ActivesAreKnown
    <3>5. w < u.version => w \in Present(e, k)
      BY <1>2, <1>5, <2>0, <2>3, <3>3
    <3> QED BY <1>4, <2>3, <3>2, <3>4, <3>5 DEF VersionInv, WritesAreSerial
  <2> QED BY <2>1, <2>2, <2>3
<1> QED BY <1>3, <1>7, <1>8, <1>9 DEF VersionInv

-----------------------------------------------------------------------------
(* Views whose indexes match their rows.                                   *)

IdsOf(r) == IF r = Deleted THEN {} ELSE r

Consistent(e, s) ==
    \A id \in Id, val \in Val :
        id \in IdsOf(Read(e, s, IndexKey(val))) <=> Read(e, s, RowKey(id)) = val

\* What a transaction that begins now sees, and what t saw when it began.
Latest(e) == [version |-> e.next, readOnly |-> TRUE, active |-> e.active]

AtStart(t) == [version |-> t.version, readOnly |-> TRUE, active |-> t.active]

\* Engine contents that differ in the versions v only.
OnlyAt(e, f, v) ==
    \A k \in UserKey, w \in Version : w # v => f.data[k][w] = e.data[k][w]

\* The views that are open, but for those of the transactions in E.
ViewsMatch(e, T, E) ==
    /\ Consistent(e, Latest(e))
    /\ \A t \in T : Consistent(e, AtStart(t))
    /\ \A t \in T \ E : t.version \in e.active => Consistent(e, t)

LEMMA ViewTypes ==
    /\ \A e : IsEngine(e) => Latest(e) \in View
    /\ \A t : IsTxn(t) => t \in View /\ AtStart(t) \in View
<1>1. ASSUME NEW e, IsEngine(e) PROVE Latest(e) \in View
  <2>1. e.next \in Nat /\ e.active \in SUBSET Nat
    BY <1>1 DEF IsEngine, Engines
  <2> QED BY <2>1 DEF Latest, View
<1>2. ASSUME NEW t, IsTxn(t) PROVE t \in View /\ AtStart(t) \in View
  <2>1. t \in [version : Version, readOnly : {FALSE}, active : SUBSET Nat]
    BY <1>2 DEF IsTxn
  <2>2. Version \subseteq Nat
    BY DEF Version
  <2> QED BY <2>1, <2>2 DEF AtStart, View
<1> QED BY <1>1, <1>2

LEMMA SameReads ==
    ASSUME NEW e, NEW f, NEW s, NEW u, Consistent(e, s),
           \A k \in UserKey : Read(f, u, k) = Read(e, s, k)
    PROVE  Consistent(f, u)
BY KeysDiffer DEF Consistent

\* Writes at a version that a view hides do not change it.
LEMMA HiddenWrites ==
    ASSUME NEW e, NEW f, NEW v, NEW s, OnlyAt(e, f, v), s \in View, Hides(s, v),
           Consistent(e, s)
    PROVE  Consistent(f, s)
<1>1. ASSUME NEW k \in UserKey PROVE Read(f, s, k) = Read(e, s, k)
  <2>1. \A w \in Version : ~Hides(s, w) => f.data[k][w] = e.data[k][w]
    BY DEF OnlyAt
  <2>2. Seen(f, s, k) = Seen(e, s, k)
    BY <2>1 DEF Seen, Present
  <2>3. \A w \in Seen(e, s, k) : f.data[k][w] = e.data[k][w]
    BY <2>1 DEF Seen, Present
  <2> QED BY <2>2, <2>3, SameSeen
<1> QED BY <1>1, SameReads

\* The writes of an active transaction are hidden from all views but its own.
LEMMA ActiveIsHidden ==
    ASSUME NEW e, NEW T, NEW t \in T, VersionInv(e, T), t.version \in e.active
    PROVE  /\ Hides(Latest(e), t.version)
           /\ \A u \in T : Hides(AtStart(u), t.version) /\ (u # t => Hides(u, t.version))
<1>1. Hides(Latest(e), t.version)
  BY DEF Hides, Latest
<1>2. ASSUME NEW u \in T
      PROVE  Hides(AtStart(u), t.version) /\ (u # t => Hides(u, t.version))
  <2>1. IsTxn(t) /\ IsTxn(u)
    BY DEF VersionInv, ActivesAreKnown
  <2>2. t.version \in Nat /\ u.version \in Nat
    BY <2>1 DEF IsTxn, Version
  <2>3. CASE t.version < u.version
    <3>1. t.version \in u.active
      BY <2>3 DEF VersionInv, ActivesAreKnown
    <3> QED BY <3>1 DEF Hides, AtStart
  <2>4. CASE t.version > u.version
    BY <2>4 DEF Hides, AtStart
  <2>5. CASE t.version = u.version
    <3>1. u = t
      BY <2>5 DEF VersionInv, TxnsAreOrdered
    <3> QED BY <3>1 DEF Hides, AtStart
  <2> QED BY <2>2, <2>3, <2>4, <2>5
<1> QED BY <1>1, <1>2

\* A statement of t: the other views stay as they are.
LEMMA StatementKeepsViews ==
    ASSUME NEW e, NEW f, NEW T, NEW t \in T, NEW E, NEW F,
           IsEngine(e), VersionInv(e, T), ViewsMatch(e, T, E), t.version \in e.active,
           OnlyAt(e, f, t.version), f.active = e.active, f.next = e.next,
           E \subseteq F, t \notin F => Consistent(f, t)
    PROVE  ViewsMatch(f, T, F)
<1>1. Latest(f) = Latest(e) /\ Latest(e) \in View
  BY ViewTypes DEF Latest
<1>2. Consistent(f, Latest(f))
  BY <1>1, ActiveIsHidden, HiddenWrites DEF ViewsMatch
<1>3. \A u \in T : u \in View /\ AtStart(u) \in View
  BY ViewTypes DEF VersionInv, ActivesAreKnown
<1>4. ASSUME NEW u \in T PROVE Consistent(f, AtStart(u))
  BY <1>3, ActiveIsHidden, HiddenWrites DEF ViewsMatch
<1>5. ASSUME NEW u \in T \ F, u.version \in f.active PROVE Consistent(f, u)
  <2>1. CASE u = t
    BY <2>1
  <2>2. CASE u # t
    <3>1. Consistent(e, u)
      BY <1>5 DEF ViewsMatch
    <3>2. Hides(u, t.version)
      BY <2>2, ActiveIsHidden
    <3> QED BY <1>3, <3>1, <3>2, HiddenWrites
  <2> QED BY <2>1, <2>2
<1> QED BY <1>2, <1>4, <1>5 DEF ViewsMatch

-----------------------------------------------------------------------------
(* The end of a transaction.                                               *)

\* t ends: its data at its version, but for what is undone, is committed.
Ended(e, f, t) ==
    /\ f.next = e.next /\ f.active = e.active \ {t.version}
    /\ f.writes = e.writes \ Records(e, t.version)

\* An active transaction has seen all versions of the keys that it has written:
\* a later one sees its write, and an earlier one what it saw when it began.
\* The keys that it has not written, it sees as when it began.
LEMMA CommittedReads ==
    ASSUME NEW e, NEW f, NEW T, NEW t \in T, NEW k \in UserKey,
           IsEngine(e), IsEngine(f), VersionInv(e, T), t.version \in e.active,
           Ended(e, f, t), f.data = e.data
    PROVE  IF t.version \in Present(e, k)
           THEN /\ Read(f, Latest(f), k) = Read(e, t, k)
                /\ Read(e, Latest(e), k) = Read(e, AtStart(t), k)
           ELSE /\ Read(f, Latest(f), k) = Read(e, Latest(e), k)
                /\ Read(e, t, k) = Read(e, AtStart(t), k)
<1>1. IsTxn(t)
  BY DEF VersionInv, ActivesAreKnown
<1>2. /\ t \in View /\ AtStart(t) \in View /\ Latest(e) \in View /\ Latest(f) \in View
      /\ Present(f, k) = Present(e, k)
  BY <1>1, ViewTypes DEF Present
<1>3. t.version \in Nat /\ t.version \notin t.active /\ t.readOnly = FALSE /\ e.next \in Nat
  <2>1. t.version \in Version /\ t.version \notin t.active /\ t.readOnly = FALSE
    BY <1>1 DEF IsTxn
  <2> QED BY <2>1 DEF Version, IsEngine, Engines
<1>4. \A w \in Present(e, k) : w \in Nat /\ w < e.next
  <2>1. \A w \in Present(e, k) : w < e.next
    BY DEF VersionInv, VersionsAreKnown
  <2> QED BY <2>1 DEF Present, Version
<1>5. f.active = e.active \ {t.version} /\ f.next = e.next
  BY DEF Ended
<1>6. \A w : Hides(Latest(f), w) <=> w \in f.active \/ w > e.next \/ w = e.next
  BY <1>5 DEF Hides, Latest
<1>7. \A w : Hides(Latest(e), w) <=> w \in e.active \/ w > e.next \/ w = e.next
  BY DEF Hides, Latest
<1>8. \A w : Hides(AtStart(t), w) <=> w \in t.active \/ w > t.version \/ w = t.version
  BY DEF Hides, AtStart
<1>9. \A w : Hides(t, w) <=> w \in t.active \/ w > t.version
  BY <1>3 DEF Hides
<1>10. CASE t.version \in Present(e, k)
  <2>1. \A w \in Present(e, k) : w <= t.version /\ (w < t.version => w \notin t.active)
    BY <1>10 DEF VersionInv, WritesAreSerial
  <2>2. \A w \in Present(e, k) : w < t.version => w \notin e.active
    BY <2>1 DEF VersionInv, ActivesAreKnown
  <2>3. Seen(f, Latest(f), k) = Seen(e, t, k)
    BY <1>2, <1>3, <1>4, <1>5, <1>6, <1>9, <2>1, <2>2 DEF Seen
  <2>4. Seen(e, Latest(e), k) = Seen(e, AtStart(t), k)
    BY <1>3, <1>4, <1>7, <1>8, <2>1, <2>2 DEF Seen
  <2>5. Read(f, Latest(f), k) = Read(e, t, k)
    BY <1>2, <2>3, SameSeen
  <2>6. Read(e, Latest(e), k) = Read(e, AtStart(t), k)
    BY <1>2, <2>4, SameSeen
  <2> QED BY <1>10, <2>5, <2>6
<1>11. CASE t.version \notin Present(e, k)
  <2>1. Seen(f, Latest(f), k) = Seen(e, Latest(e), k)
    BY <1>2, <1>5, <1>6, <1>7, <1>11 DEF Seen
  <2>2. Seen(e, t, k) = Seen(e, AtStart(t), k)
    BY <1>8, <1>9, <1>11 DEF Seen
  <2>3. Read(f, Latest(f), k) = Read(e, Latest(e), k)
    BY <1>2, <2>1, SameSeen
  <2>4. Read(e, t, k) = Read(e, AtStart(t), k)
    BY <1>2, <2>2, SameSeen
  <2> QED BY <1>11, <2>3, <2>4
<1> QED BY <1>10, <1>11

\* A commit: whether t has written a row, its index entry, both or neither, what
\* matches in its view, in the view when it began and in the latest one before
\* matches in the latest one after.
LEMMA CommitKeepsLatest ==
    ASSUME NEW e, NEW f, NEW T, NEW t \in T,
           IsEngine(e), IsEngine(f), VersionInv(e, T), t.version \in e.active,
           Ended(e, f, t), f.data = e.data,
           Consistent(e, t), Consistent(e, AtStart(t)), Consistent(e, Latest(e))
    PROVE  Consistent(f, Latest(f))
<1> SUFFICES ASSUME NEW id \in Id, NEW val \in Val
             PROVE  id \in IdsOf(Read(f, Latest(f), IndexKey(val)))
                        <=> Read(f, Latest(f), RowKey(id)) = val
  BY DEF Consistent
<1>1. PICK row, ids : row = RowKey(id) /\ ids = IndexKey(val)
  OBVIOUS
<1>2. row \in UserKey /\ ids \in UserKey
  BY <1>1, KeysDiffer
<1>3. /\ id \in IdsOf(Read(e, t, ids)) <=> Read(e, t, row) = val
      /\ id \in IdsOf(Read(e, AtStart(t), ids)) <=> Read(e, AtStart(t), row) = val
      /\ id \in IdsOf(Read(e, Latest(e), ids)) <=> Read(e, Latest(e), row) = val
  BY <1>1 DEF Consistent
<1>4. IF t.version \in Present(e, row)
      THEN /\ Read(f, Latest(f), row) = Read(e, t, row)
           /\ Read(e, Latest(e), row) = Read(e, AtStart(t), row)
      ELSE /\ Read(f, Latest(f), row) = Read(e, Latest(e), row)
           /\ Read(e, t, row) = Read(e, AtStart(t), row)
  BY <1>2, CommittedReads
<1>5. IF t.version \in Present(e, ids)
      THEN /\ Read(f, Latest(f), ids) = Read(e, t, ids)
           /\ Read(e, Latest(e), ids) = Read(e, AtStart(t), ids)
      ELSE /\ Read(f, Latest(f), ids) = Read(e, Latest(e), ids)
           /\ Read(e, t, ids) = Read(e, AtStart(t), ids)
  BY <1>2, CommittedReads
<1> QED BY <1>1, <1>3, <1>4, <1>5

LEMMA CommitKeepsViews ==
    ASSUME NEW e, NEW f, NEW T, NEW t \in T, NEW E,
           IsEngine(e), IsEngine(f), VersionInv(e, T), ViewsMatch(e, T, E),
           t.version \in e.active, t \notin E, Ended(e, f, t), f.data = e.data
    PROVE  ViewsMatch(f, T, E)
<1>1. Consistent(f, Latest(f))
  BY CommitKeepsLatest DEF ViewsMatch
<1>2. \A u, k : Read(f, u, k) = Read(e, u, k)
  BY SameData
<1>3. \A u : Consistent(e, u) => Consistent(f, u)
  BY <1>2, SameReads
<1> QED BY <1>1, <1>3 DEF ViewsMatch, Ended

\* A rollback: nothing of t is left, and what it left was hidden.
LEMMA RollbackKeepsViews ==
    ASSUME NEW e, NEW f, NEW T, NEW t \in T, NEW E,
           IsEngine(e), IsEngine(f), VersionInv(e, T), ViewsMatch(e, T, E),
           t.version \in e.active, Ended(e, f, t), OnlyAt(e, f, t.version),
           \A k \in UserKey : t.version \notin Present(f, k)
    PROVE  ViewsMatch(f, T, E)
<1>1. f.active = e.active \ {t.version} /\ f.next = e.next
  BY DEF Ended
<1>2. \A u \in T : u \in View /\ AtStart(u) \in View
  BY ViewTypes DEF VersionInv, ActivesAreKnown
<1>3. Consistent(f, Latest(e))
  BY ViewTypes, ActiveIsHidden, HiddenWrites DEF ViewsMatch
<1>4. Consistent(f, Latest(f))
  <2>1. Latest(e) \in View /\ Latest(f) \in View
    BY ViewTypes
  <2>2. ASSUME NEW k \in UserKey PROVE Read(f, Latest(f), k) = Read(f, Latest(e), k)
    <3>1. \A w : w # t.version => (Hides(Latest(f), w) <=> Hides(Latest(e), w))
      BY <1>1 DEF Hides, Latest
    <3>2. Seen(f, Latest(f), k) = Seen(f, Latest(e), k)
      BY <3>1 DEF Seen
    <3> QED BY <2>1, <3>2, SameSeen
  <2> QED BY <1>3, <2>2, SameReads
<1>5. ASSUME NEW u \in T PROVE Consistent(f, AtStart(u))
  BY <1>2, ActiveIsHidden, HiddenWrites DEF ViewsMatch
<1>6. ASSUME NEW u \in T \ E, u.version \in f.active PROVE Consistent(f, u)
  <2>1. u # t /\ Consistent(e, u)
    BY <1>1, <1>6 DEF ViewsMatch
  <2>2. Hides(u, t.version)
    BY <2>1, ActiveIsHidden
  <2> QED BY <1>2, <2>1, <2>2, HiddenWrites
<1> QED BY <1>4, <1>5, <1>6 DEF ViewsMatch

LEMMA EndKeepsVersions ==
    ASSUME NEW e, NEW f, NEW T, NEW t \in T, IsEngine(e), VersionInv(e, T), Ended(e, f, t),
           \A k \in UserKey : Present(f, k) \subseteq Present(e, k)
    PROVE  VersionInv(f, T)
<1>1. /\ f.active \subseteq e.active /\ t.version \notin f.active /\ f.next = e.next
      /\ \A v, k : v # t.version /\ <<v, k>> \in e.writes => <<v, k>> \in f.writes
  BY DEF Ended, Records
<1>2. VersionsAreKnown(f, T)
  BY <1>1 DEF VersionInv, VersionsAreKnown
<1>3. ActivesAreKnown(f, T)
  BY <1>1 DEF VersionInv, ActivesAreKnown
<1>4. WritesAreSerial(f, T)
  BY <1>1 DEF VersionInv, WritesAreSerial
<1> QED BY <1>2, <1>3, <1>4 DEF VersionInv

\* A transaction t begins: it sees what the latest view saw.
Begun(e, f, t) ==
    /\ t.version = e.next /\ t.active = e.active /\ t.readOnly = FALSE
    /\ f.next = e.next + 1 /\ f.active = e.active \cup {e.next}
    /\ f.data = e.data /\ f.writes = e.writes

LEMMA BeginKeepsVersions ==
    ASSUME NEW e, NEW f, NEW T, NEW t, IsEngine(e), IsTxn(t), VersionInv(e, T),
           Begun(e, f, t), \A a \in e.active : a < e.next
    PROVE  VersionInv(f, T \cup {t})
<1> DEFINE U == T \cup {t}
<1>1. e.next \in Nat /\ e.active \subseteq Nat
  BY DEF IsEngine, Engines
<1>2. \A u \in T : u.version \in Nat /\ u.version < e.next
  <2>1. \A u \in T : IsTxn(u) /\ u.version < e.next
    BY DEF VersionInv, ActivesAreKnown
  <2>2. \A u \in T : u.version \in Version
    BY <2>1 DEF IsTxn
  <2> QED BY <2>1, <2>2 DEF Version
<1>3. \A k \in UserKey : Present(f, k) = Present(e, k)
  BY DEF Begun, Present
<1>4. \A k \in UserKey : \A w \in Present(e, k) : w \in Nat /\ w < e.next
  <2>1. \A k \in UserKey : \A w \in Present(e, k) : w < e.next
    BY DEF VersionInv, VersionsAreKnown
  <2> QED BY <2>1 DEF Present, Version
<1>5. VersionsAreKnown(f, U)
  <2> SUFFICES ASSUME NEW k \in UserKey, NEW v \in Present(e, k)
               PROVE  /\ v < f.next /\ \E u \in U : u.version = v
                      /\ v \in f.active => <<v, k>> \in f.writes
    BY <1>3 DEF VersionsAreKnown
  <2>1. \E u \in T : u.version = v
    BY DEF VersionInv, VersionsAreKnown
  <2>2. v \in e.active => <<v, k>> \in e.writes
    BY DEF VersionInv, VersionsAreKnown
  <2> QED BY <1>1, <1>4, <2>1, <2>2 DEF Begun
<1>6. ActivesAreKnown(f, U)
  <2> SUFFICES ASSUME NEW u \in U
               PROVE  /\ IsTxn(u) /\ u.version < f.next
                      /\ \A a \in u.active : a < u.version
                      /\ \A a \in f.active : a < u.version => a \in u.active
    BY DEF ActivesAreKnown
  <2>1. CASE u = t
    BY <1>1, <2>1 DEF Begun
  <2>2. CASE u \in T
    <3>1. /\ IsTxn(u) /\ \A a \in u.active : a < u.version
          /\ \A a \in e.active : a < u.version => a \in u.active
      BY <2>2 DEF VersionInv, ActivesAreKnown
    <3> QED BY <1>1, <1>2, <2>2, <3>1 DEF Begun
  <2> QED BY <2>1, <2>2
<1>7. TxnsAreOrdered(U)
  <2> SUFFICES ASSUME NEW u \in U, NEW w \in U
               PROVE  /\ u.version = w.version => u = w
                      /\ w.version < u.version =>
                             \A a \in u.active : a < w.version => a \in w.active
    BY DEF TxnsAreOrdered
  <2>1. CASE u \in T /\ w \in T
    BY <2>1 DEF VersionInv, TxnsAreOrdered
  <2>2. CASE u \in T /\ w = t
    BY <1>1, <1>2, <2>2 DEF Begun
  <2>3. CASE u = t /\ w \in T
    <3>1. \A a \in e.active : a < w.version => a \in w.active
      BY <2>3 DEF VersionInv, ActivesAreKnown
    <3> QED BY <1>1, <1>2, <2>3, <3>1 DEF Begun
  <2>4. CASE u = t /\ w = t
    BY <1>1, <2>4 DEF Begun
  <2> QED BY <2>1, <2>2, <2>3, <2>4
<1>8. WritesAreSerial(f, U)
  <2> SUFFICES ASSUME NEW u \in U, NEW k \in UserKey, u.version \in Present(e, k),
                      NEW w \in Present(e, k)
               PROVE  /\ w < u.version => w \notin u.active
                      /\ u.version \in f.active => w <= u.version
    BY <1>3 DEF WritesAreSerial
  <2>1. u \in T
    BY <1>1, <1>4 DEF Begun
  <2>2. u.version \in f.active => u.version \in e.active
    BY <1>1, <1>2, <2>1 DEF Begun
  <2> QED BY <2>1, <2>2 DEF VersionInv, WritesAreSerial
<1> QED BY <1>5, <1>6, <1>7, <1>8 DEF VersionInv

LEMMA BeginKeepsViews ==
    ASSUME NEW e, NEW f, NEW T, NEW t, NEW E,
           IsEngine(e), IsEngine(f), IsTxn(t), VersionInv(e, T), ViewsMatch(e, T, E),
           Begun(e, f, t), \A a \in e.active : a < e.next
    PROVE  ViewsMatch(f, T \cup {t}, E)
<1>1. e.next \in Nat /\ e.active \subseteq Nat
  BY DEF IsEngine, Engines
<1>2. \A k \in UserKey : \A w \in Present(e, k) : w \in Nat /\ w < e.next
  <2>1. \A k \in UserKey : \A w \in Present(e, k) : w < e.next
    BY DEF VersionInv, VersionsAreKnown
  <2> QED BY <2>1 DEF Present, Version
<1>3. \A k : Present(f, k) = Present(e, k)
  BY DEF Begun, Present
<1>4. /\ Latest(e) \in View /\ Latest(f) \in View /\ t \in View /\ AtStart(t) \in View
  BY ViewTypes
<1>5. Consistent(e, Latest(e))
  BY DEF ViewsMatch
<1>6. ASSUME NEW s, s \in View,
             \A w : w \in Nat /\ w < e.next => (Hides(s, w) <=> w \in e.active)
      PROVE  Consistent(f, s)
  <2>1. \A w : w \in Nat /\ w < e.next => (Hides(Latest(e), w) <=> w \in e.active)
    BY <1>1 DEF Hides, Latest
  <2>2. ASSUME NEW k \in UserKey PROVE Read(f, s, k) = Read(e, Latest(e), k)
    <3>1. Seen(f, s, k) = Seen(e, Latest(e), k)
      BY <1>2, <1>3, <1>6, <2>1 DEF Seen
    <3>2. f.data = e.data
      BY DEF Begun
    <3> QED BY <1>4, <1>6, <3>1, <3>2, SameSeen
  <2> QED BY <1>5, <2>2, SameReads
<1>7. Consistent(f, Latest(f))
  <2>1. \A w : w \in Nat /\ w < e.next => (Hides(Latest(f), w) <=> w \in e.active)
    BY <1>1 DEF Hides, Latest, Begun
  <2> QED BY <1>4, <1>6, <2>1
<1>8. Consistent(f, t)
  <2>1. \A w : w \in Nat /\ w < e.next => (Hides(t, w) <=> w \in e.active)
    BY <1>1 DEF Hides, Begun
  <2> QED BY <1>4, <1>6, <2>1
<1>9. Consistent(f, AtStart(t))
  <2>1. \A w : w \in Nat /\ w < e.next => (Hides(AtStart(t), w) <=> w \in e.active)
    BY <1>1 DEF Hides, AtStart, Begun
  <2> QED BY <1>4, <1>6, <2>1
<1>10. \A u, k : Read(f, u, k) = Read(e, u, k)
  BY SameData DEF Begun
<1>11. \A u : Consistent(e, u) => Consistent(f, u)
  BY <1>10, SameReads
<1>12. \A u \in T : u.version # e.next
  <2>1. \A u \in T : IsTxn(u) /\ u.version < e.next
    BY DEF VersionInv, ActivesAreKnown
  <2>2. \A u \in T : u.version \in Version
    BY <2>1 DEF IsTxn
  <2> QED BY <1>1, <2>1, <2>2 DEF Version
<1> QED BY <1>7, <1>8, <1>9, <1>11, <1>12 DEF ViewsMatch, Begun

-----------------------------------------------------------------------------
(* A statement, in its own transaction's view.                             *)

\* The statement of t has changed t's versions of some keys, and nothing else
\* that a transaction reads.
Quiet(e, x, T, t) ==
    /\ IsExecution(x) /\ VersionInv(x.now, T)
    /\ x.now.active = e.active /\ x.now.next = e.next
    /\ OnlyAt(e, x.now, t.version)

\* y has the row id set to value.
RowSet(x, y, t, id, value) ==
    /\ \A i \in Id : Read(y.now, t, RowKey(i)) =
                         IF i = id THEN value ELSE Read(x.now, t, RowKey(i))
    /\ \A v \in Val : Read(y.now, t, IndexKey(v)) = Read(x.now, t, IndexKey(v))

\* y has id added to the index entry of val, or removed from it.
Indexed(x, y, t, val, id, adding) ==
    /\ \A i \in Id : Read(y.now, t, RowKey(i)) = Read(x.now, t, RowKey(i))
    /\ \A v \in Val, i \in Id :
           i \in IdsOf(Read(y.now, t, IndexKey(v))) <=>
               IF v = val /\ i = id THEN adding ELSE i \in IdsOf(Read(x.now, t, IndexKey(v)))

LEMMA QuietStart ==
    ASSUME NEW e, NEW T, NEW t, IsEngine(e), VersionInv(e, T)
    PROVE  Quiet(e, Start(e), T, t) /\ Quiet(e, Fail(Start(e)), T, t) /\ Fail(Start(e)).failed
BY StartFrame DEF Quiet, OnlyAt, Start, Fail

LEMMA QuietWrite ==
    ASSUME NEW e, NEW x, NEW y, NEW T, NEW t, NEW k, NEW value, t \in T, k \in UserKey,
           Quiet(e, x, T, t), IsValueOf(k, value), y = WriteVersion(x, t, k, value)
    PROVE  /\ Quiet(e, y, T, t)
           /\ ~y.failed => /\ ~x.failed /\ Read(y.now, t, k) = value
                           /\ \A j \in UserKey : j # k => Read(y.now, t, j) = Read(x.now, t, j)
<1>1. IsTxn(t) /\ IsExecution(x) /\ VersionInv(x.now, T) /\ IsEngine(x.now) /\ value # Absent
  BY ValuesAreNotAbsent DEF Quiet, VersionInv, ActivesAreKnown, IsExecution
<1>2. CASE x.failed \/ Conflict(x.now, t, k)
  <2>1. IsExecution(y) /\ y.failed /\ y.now = x.now
    BY <1>1, <1>2, WriteFails
  <2> QED BY <2>1 DEF Quiet
<1>3. CASE ~x.failed /\ ~Conflict(x.now, t, k)
  <2>1. IsExecution(y) /\ y.now = Written(x.now, t, k, value)
    BY <1>1, <1>3, WriteSucceeds
  <2>2. VersionInv(y.now, T)
    BY <1>1, <1>3, <2>1, WriteKeepsVersions
  <2>3. x.now \in Engines
    BY <1>1 DEF IsEngine
  <2>4. y.now.active = x.now.active /\ y.now.next = x.now.next
    BY <2>1, <2>3 DEF Written, Recorded, Engines
  <2>5. /\ \A j \in UserKey : j # k => y.now.data[j] = x.now.data[j]
        /\ \A v \in Version : v # t.version => y.now.data[k][v] = x.now.data[k][v]
        /\ y.now.data[k][t.version] = value
    BY <1>1, <2>1, <2>3, WrittenData
  <2>6. OnlyAt(e, y.now, t.version)
    BY <2>5 DEF Quiet, OnlyAt
  <2>7. Read(y.now, t, k) = value
    BY <1>1, <2>5, ReadOwn
  <2>8. \A j \in UserKey : j # k => Read(y.now, t, j) = Read(x.now, t, j)
    BY <2>5, SameData
  <2> QED BY <1>3, <2>1, <2>2, <2>4, <2>6, <2>7, <2>8 DEF Quiet
<1> QED BY <1>2, <1>3

LEMMA QuietRow ==
    ASSUME NEW e, NEW x, NEW y, NEW T, NEW t, NEW id, NEW value, t \in T, id \in Id,
           value \in Val \cup {Deleted}, Quiet(e, x, T, t),
           y = WriteVersion(x, t, RowKey(id), value)
    PROVE  Quiet(e, y, T, t) /\ (~y.failed => ~x.failed /\ RowSet(x, y, t, id, value))
<1>1. PICK k : k = RowKey(id)
  OBVIOUS
<1>2. k \in UserKey /\ IsValueOf(k, value)
  BY <1>1, KeysDiffer DEF IsValueOf
<1>3. /\ Quiet(e, y, T, t)
      /\ ~y.failed => /\ ~x.failed /\ Read(y.now, t, k) = value
                      /\ \A j \in UserKey : j # k => Read(y.now, t, j) = Read(x.now, t, j)
  BY <1>1, <1>2, QuietWrite
<1> QED BY <1>1, <1>3, KeysDiffer DEF RowSet

LEMMA IdsOfIndexValue ==
    ASSUME NEW e, IsEngine(e), NEW t, NEW val \in Val, NEW id \in Id, NEW adding \in BOOLEAN
    PROVE  \A i : i \in IdsOf(IndexValue(e, t, val, id, adding)) <=>
                      IF i = id THEN adding ELSE i \in IdsOf(Read(e, t, IndexKey(val)))
<1>1. PICK r : r = Read(e, t, IndexKey(val))
  OBVIOUS
<1>2. r \in (SUBSET Id) \cup {Deleted}
  BY <1>1, ReadType, KeysDiffer
<1>3. PICK old : old = IdsOf(r)
  OBVIOUS
<1>4. old \subseteq Id
  BY <1>2, <1>3 DEF IdsOf
<1>5. PICK ids : ids = IF adding THEN old \cup {id} ELSE old \ {id}
  OBVIOUS
<1>6. ids \in SUBSET Id
  BY <1>4, <1>5
<1>7. IndexValue(e, t, val, id, adding) = IF ids = {} THEN Deleted ELSE ids
  BY <1>1, <1>3, <1>5 DEF IndexValue, IdsOf
<1>8. ids # Deleted
  BY <1>6, StoredAssumption
<1>9. IdsOf(IndexValue(e, t, val, id, adding)) = ids
  BY <1>7, <1>8 DEF IdsOf
<1> QED BY <1>1, <1>3, <1>5, <1>9

LEMMA QuietIndex ==
    ASSUME NEW e, NEW x, NEW y, NEW T, NEW t, NEW id, NEW val, NEW adding, t \in T, id \in Id,
           val \in Val, adding \in BOOLEAN, Quiet(e, x, T, t), y = Reindex(x, t, val, id, adding)
    PROVE  Quiet(e, y, T, t) /\ (~y.failed => ~x.failed /\ Indexed(x, y, t, val, id, adding))
<1>1. PICK k, value : k = IndexKey(val) /\ value = IndexValue(x.now, t, val, id, adding)
  OBVIOUS
<1>2. IsEngine(x.now)
  BY DEF Quiet, IsExecution
<1>3. k \in UserKey /\ IsValueOf(k, value)
  BY <1>1, <1>2, KeysDiffer, IndexValueType
<1>4. y = WriteVersion(x, t, k, value)
  BY <1>1 DEF Reindex
<1>5. /\ Quiet(e, y, T, t)
      /\ ~y.failed => /\ ~x.failed /\ Read(y.now, t, k) = value
                      /\ \A j \in UserKey : j # k => Read(y.now, t, j) = Read(x.now, t, j)
  BY <1>3, <1>4, QuietWrite
<1>6. \A i : i \in IdsOf(value) <=> IF i = id THEN adding ELSE i \in IdsOf(Read(x.now, t, k))
  BY <1>1, <1>2, IdsOfIndexValue
<1>7. ASSUME ~y.failed PROVE Indexed(x, y, t, val, id, adding)
  <2>1. \A i \in Id : Read(y.now, t, RowKey(i)) = Read(x.now, t, RowKey(i))
    BY <1>1, <1>5, <1>7, KeysDiffer
  <2>2. ASSUME NEW v \in Val, NEW i \in Id
        PROVE  i \in IdsOf(Read(y.now, t, IndexKey(v))) <=>
                   IF v = val /\ i = id THEN adding
                   ELSE i \in IdsOf(Read(x.now, t, IndexKey(v)))
    <3>1. CASE v = val
      BY <1>1, <1>5, <1>6, <1>7, <3>1
    <3>2. CASE v # val
      <4>1. IndexKey(v) \in UserKey /\ IndexKey(v) # k
        BY <1>1, <3>2, KeysDiffer
      <4>2. Read(y.now, t, IndexKey(v)) = Read(x.now, t, IndexKey(v))
        BY <1>5, <1>7, <4>1
      <4> QED BY <3>2, <4>2
    <3> QED BY <3>1, <3>2
  <2> QED BY <2>1, <2>2 DEF Indexed
<1> QED BY <1>5, <1>7

\* INSERT, UPDATE and DELETE keep the indexes matched, unless they fail.
LEMMA InsertKeepsView ==
    ASSUME NEW e, NEW T, NEW t \in T, NEW id \in Id, NEW val \in Val, NEW y,
           IsEngine(e), VersionInv(e, T), y = ExecInsert(Start(e), t, id, val)
    PROVE  Quiet(e, y, T, t) /\ (~y.failed /\ Consistent(e, t) => Consistent(y.now, t))
<1>1. PICK x : x = Start(e)
  OBVIOUS
<1>2. /\ Quiet(e, x, T, t) /\ Quiet(e, Fail(x), T, t) /\ Fail(x).failed /\ x.now = e
      /\ GetRow(x, t, id) = Read(e, t, RowKey(id))
  BY <1>1, QuietStart, StartFrame, GetRowIs
<1>3. CASE Read(e, t, RowKey(id)) # Deleted
  BY <1>1, <1>2, <1>3 DEF ExecInsert
<1>4. CASE Read(e, t, RowKey(id)) = Deleted
  <2>1. PICK row : row = WriteVersion(x, t, RowKey(id), val)
    OBVIOUS
  <2>2. Quiet(e, row, T, t) /\ (~row.failed => RowSet(x, row, t, id, val))
    BY <1>2, <2>1, QuietRow
  <2>3. CASE row.failed
    BY <1>1, <1>2, <1>4, <2>1, <2>2, <2>3 DEF ExecInsert
  <2>4. CASE ~row.failed
    <3>1. y = Reindex(row, t, val, id, TRUE)
      BY <1>1, <1>2, <1>4, <2>1, <2>4, ReindexIs DEF ExecInsert
    <3>2. Quiet(e, y, T, t) /\ (~y.failed => Indexed(row, y, t, val, id, TRUE))
      BY <2>2, <3>1, QuietIndex
    <3>3. ASSUME ~y.failed, Consistent(e, t), NEW i \in Id, NEW v \in Val
          PROVE  i \in IdsOf(Read(y.now, t, IndexKey(v))) <=> Read(y.now, t, RowKey(i)) = v
      <4>1. i \in IdsOf(Read(e, t, IndexKey(v))) <=> Read(e, t, RowKey(i)) = v
        BY <3>3 DEF Consistent
      <4>2. i \in IdsOf(Read(y.now, t, IndexKey(v))) <=>
                IF v = val /\ i = id THEN TRUE ELSE i \in IdsOf(Read(e, t, IndexKey(v)))
        BY <1>2, <2>2, <2>4, <3>2, <3>3 DEF RowSet, Indexed
      <4>3. Read(y.now, t, RowKey(i)) = IF i = id THEN val ELSE Read(e, t, RowKey(i))
        BY <1>2, <2>2, <2>4, <3>2, <3>3 DEF RowSet, Indexed
      <4> QED BY <1>4, <4>1, <4>2, <4>3, StoredAssumption
    <3> QED BY <3>2, <3>3 DEF Consistent
  <2> QED BY <2>3, <2>4
<1> QED BY <1>3, <1>4

LEMMA UpdateKeepsView ==
    ASSUME NEW e, NEW T, NEW t \in T, NEW id \in Id, NEW val \in Val, NEW y,
           IsEngine(e), VersionInv(e, T), y = ExecUpdate(Start(e), t, id, val)
    PROVE  Quiet(e, y, T, t) /\ (~y.failed /\ Consistent(e, t) => Consistent(y.now, t))
<1>1. PICK x, old : x = Start(e) /\ old = Read(e, t, RowKey(id))
  OBVIOUS
<1>2. /\ Quiet(e, x, T, t) /\ Quiet(e, Fail(x), T, t) /\ Fail(x).failed /\ x.now = e
      /\ old \in Val \cup {Deleted}
  BY <1>1, QuietStart, StartFrame, GetRowIs
<1>3. CASE old = Deleted
  <2>1. y = Fail(x)
    BY <1>1, <1>3, UpdateIs
  <2> QED BY <1>2, <2>1
<1>4. CASE old = val /\ old # Deleted
  <2>1. y = WriteVersion(x, t, RowKey(id), val)
    BY <1>1, <1>4, UpdateIs
  <2>2. Quiet(e, y, T, t) /\ (~y.failed => RowSet(x, y, t, id, val))
    BY <1>2, <2>1, QuietRow
  <2>3. ASSUME ~y.failed, NEW k \in UserKey PROVE Read(y.now, t, k) = Read(e, t, k)
    <3>1. \A i \in Id : Read(y.now, t, RowKey(i)) = Read(e, t, RowKey(i))
      BY <1>1, <1>2, <1>4, <2>2, <2>3 DEF RowSet
    <3>2. \A v \in Val : Read(y.now, t, IndexKey(v)) = Read(e, t, IndexKey(v))
      BY <1>2, <2>2, <2>3 DEF RowSet
    <3> QED BY <3>1, <3>2 DEF UserKey
  <2>4. ~y.failed /\ Consistent(e, t) => Consistent(y.now, t)
    BY <2>3, SameReads
  <2> QED BY <2>2, <2>4
<1>5. CASE old \in Val /\ old # val /\ old # Deleted
  <2>1. PICK removed : removed = Reindex(x, t, old, id, FALSE)
    OBVIOUS
  <2>2. /\ Quiet(e, removed, T, t)
        /\ ~removed.failed => Indexed(x, removed, t, old, id, FALSE)
    BY <1>2, <1>5, <2>1, QuietIndex
  <2>3. PICK added : added = Added(removed, t, val, id)
    OBVIOUS
  <2>4. /\ Quiet(e, added, T, t)
        /\ ~added.failed => ~removed.failed /\ Indexed(removed, added, t, val, id, TRUE)
    BY <2>2, <2>3, QuietIndex DEF Added
  <2>5. y = WriteVersion(added, t, RowKey(id), val)
    BY <1>1, <1>5, <2>1, <2>3, UpdateIs DEF Moved
  <2>6. /\ Quiet(e, y, T, t)
        /\ ~y.failed => ~added.failed /\ RowSet(added, y, t, id, val)
    BY <2>4, <2>5, QuietRow
  <2>7. ASSUME ~y.failed, Consistent(e, t), NEW i \in Id, NEW v \in Val
        PROVE  i \in IdsOf(Read(y.now, t, IndexKey(v))) <=> Read(y.now, t, RowKey(i)) = v
    <3>1. /\ Indexed(x, removed, t, old, id, FALSE) /\ Indexed(removed, added, t, val, id, TRUE)
          /\ RowSet(added, y, t, id, val)
      BY <2>2, <2>4, <2>6, <2>7
    <3>2. i \in IdsOf(Read(e, t, IndexKey(v))) <=> Read(e, t, RowKey(i)) = v
      BY <2>7 DEF Consistent
    <3>3. i \in IdsOf(Read(removed.now, t, IndexKey(v))) <=>
              IF v = old /\ i = id THEN FALSE ELSE i \in IdsOf(Read(e, t, IndexKey(v)))
      BY <1>2, <3>1 DEF Indexed
    <3>4. i \in IdsOf(Read(added.now, t, IndexKey(v))) <=>
              IF v = val /\ i = id THEN TRUE ELSE i \in IdsOf(Read(removed.now, t, IndexKey(v)))
      BY <3>1 DEF Indexed
    <3>5. Read(y.now, t, IndexKey(v)) = Read(added.now, t, IndexKey(v))
      BY <3>1 DEF RowSet
    <3>6. Read(y.now, t, RowKey(i)) = IF i = id THEN val ELSE Read(e, t, RowKey(i))
      BY <1>2, <3>1 DEF RowSet, Indexed
    <3> QED BY <1>1, <1>5, <3>2, <3>3, <3>4, <3>5, <3>6
  <2> QED BY <2>6, <2>7 DEF Consistent
<1> QED BY <1>2, <1>3, <1>4, <1>5

LEMMA DeleteKeepsView ==
    ASSUME NEW e, NEW T, NEW t \in T, NEW id \in Id, NEW y,
           IsEngine(e), VersionInv(e, T), y = ExecDelete(Start(e), t, id)
    PROVE  Quiet(e, y, T, t) /\ (~y.failed /\ Consistent(e, t) => Consistent(y.now, t))
<1>1. PICK x, old : x = Start(e) /\ old = Read(e, t, RowKey(id))
  OBVIOUS
<1>2. Quiet(e, x, T, t) /\ x.now = e /\ old \in Val \cup {Deleted} /\ Deleted \notin Val
  BY <1>1, QuietStart, StartFrame, GetRowIs, StoredAssumption
<1>3. CASE old = Deleted
  <2>1. y = WriteVersion(x, t, RowKey(id), Deleted)
    BY <1>1, <1>3, DeleteIs
  <2>2. Quiet(e, y, T, t) /\ (~y.failed => RowSet(x, y, t, id, Deleted))
    BY <1>2, <2>1, QuietRow
  <2>3. ASSUME ~y.failed, NEW k \in UserKey PROVE Read(y.now, t, k) = Read(e, t, k)
    <3>1. \A i \in Id : Read(y.now, t, RowKey(i)) = Read(e, t, RowKey(i))
      BY <1>1, <1>2, <1>3, <2>2, <2>3 DEF RowSet
    <3>2. \A v \in Val : Read(y.now, t, IndexKey(v)) = Read(e, t, IndexKey(v))
      BY <1>2, <2>2, <2>3 DEF RowSet
    <3> QED BY <3>1, <3>2 DEF UserKey
  <2>4. ~y.failed /\ Consistent(e, t) => Consistent(y.now, t)
    BY <2>3, SameReads
  <2> QED BY <2>2, <2>4
<1>4. CASE old \in Val
  <2>1. PICK removed : removed = Reindex(x, t, old, id, FALSE)
    OBVIOUS
  <2>2. /\ Quiet(e, removed, T, t)
        /\ ~removed.failed => Indexed(x, removed, t, old, id, FALSE)
    BY <1>2, <1>4, <2>1, QuietIndex
  <2>3. y = WriteVersion(removed, t, RowKey(id), Deleted)
    BY <1>1, <1>2, <1>4, <2>1, DeleteIs DEF Removed
  <2>4. /\ Quiet(e, y, T, t)
        /\ ~y.failed => ~removed.failed /\ RowSet(removed, y, t, id, Deleted)
    BY <2>2, <2>3, QuietRow
  <2>5. ASSUME ~y.failed, Consistent(e, t), NEW i \in Id, NEW v \in Val
        PROVE  i \in IdsOf(Read(y.now, t, IndexKey(v))) <=> Read(y.now, t, RowKey(i)) = v
    <3>1. Indexed(x, removed, t, old, id, FALSE) /\ RowSet(removed, y, t, id, Deleted)
      BY <2>2, <2>4, <2>5
    <3>2. i \in IdsOf(Read(e, t, IndexKey(v))) <=> Read(e, t, RowKey(i)) = v
      BY <2>5 DEF Consistent
    <3>3. i \in IdsOf(Read(removed.now, t, IndexKey(v))) <=>
              IF v = old /\ i = id THEN FALSE ELSE i \in IdsOf(Read(e, t, IndexKey(v)))
      BY <1>2, <3>1 DEF Indexed
    <3>4. Read(y.now, t, IndexKey(v)) = Read(removed.now, t, IndexKey(v))
      BY <3>1 DEF RowSet
    <3>5. Read(y.now, t, RowKey(i)) = IF i = id THEN Deleted ELSE Read(e, t, RowKey(i))
      BY <1>2, <3>1 DEF RowSet, Indexed
    <3> QED BY <1>1, <1>2, <1>4, <3>2, <3>3, <3>4, <3>5
  <2> QED BY <2>4, <2>5 DEF Consistent
<1> QED BY <1>2, <1>3, <1>4

-----------------------------------------------------------------------------
(* Commands, in every view.                                                *)

LEMMA CommitEnds ==
    ASSUME NEW e, NEW t, NEW f, IsEngine(e), IsTxn(t), f = ExecCommit(Start(e), t).now
    PROVE  Ended(e, f, t) /\ f.data = e.data /\ IsEngine(f)
<1>1. PICK g : g = CommitLast(e, t.version)
  OBVIOUS
<1>2. f = Inactive(g, t.version)
  BY <1>1, CommitIs
<1>3. IsEngine(g) /\ g.next = e.next /\ g.active = e.active
  <2>1. g \in CommitStates(e, t.version)
    BY <1>1 DEF CommitLast, CommitStates
  <2> QED BY <2>1, CommitWay DEF IsOnTheWay
<1>4. g.data = e.data /\ g.writes = e.writes \ Records(e, t.version)
  BY <1>1 DEF CommitLast, Cleared, IsEngine, Engines
<1>5. IsEngine(f)
  BY <1>2, <1>3, InactiveFields
<1>6. /\ f.next = g.next /\ f.active = g.active \ {t.version}
      /\ f.writes = g.writes /\ f.data = g.data
  BY <1>2, <1>3 DEF Inactive, IsEngine, Engines
<1> QED BY <1>3, <1>4, <1>5, <1>6 DEF Ended

LEMMA RollbackEnds ==
    ASSUME NEW e, NEW T, NEW t \in T, NEW f, IsEngine(e), VersionInv(e, T),
           t.version \in e.active, f = ExecRollback(Start(e), t).now
    PROVE  /\ Ended(e, f, t) /\ IsEngine(f) /\ OnlyAt(e, f, t.version)
           /\ \A k \in UserKey : t.version \notin Present(f, k)
                                 /\ Present(f, k) \subseteq Present(e, k)
<1>1. PICK v, r : v = t.version /\ r = Records(e, v)
  OBVIOUS
<1>2. PICK g : g = Undone(e, v, r, r)
  OBVIOUS
<1>3. f = Inactive(g, v)
  BY <1>1, <1>2, RollbackIs DEF RollbackLast
<1>4. IsTxn(t) /\ v \in Version
  BY <1>1 DEF VersionInv, ActivesAreKnown, IsTxn
<1>5. IsEngine(g) /\ g.next = e.next /\ g.active = e.active
  <2>1. g \in RollbackStates(e, t.version)
    BY <1>1, <1>2 DEF RollbackStates
  <2> QED BY <1>4, <2>1, RollbackWay DEF IsOnTheWay
<1>6. /\ g.writes = e.writes \ r
      /\ g.data = [k \in UserKey |-> IF <<v, k>> \in r
                                     THEN [e.data[k] EXCEPT ![v] = Absent] ELSE e.data[k]]
  BY <1>2 DEF Undone, IsEngine, Engines
<1>7. IsEngine(f)
  BY <1>3, <1>5, InactiveFields
<1>8. /\ f.next = g.next /\ f.active = g.active \ {v} /\ f.writes = g.writes /\ f.data = g.data
  BY <1>3, <1>5 DEF Inactive, IsEngine, Engines
<1>9. e.data \in [UserKey -> [Version -> Stored]]
  BY DEF IsEngine, Engines
<1>10. ASSUME NEW k \in UserKey, NEW w \in Version, w # v PROVE f.data[k][w] = e.data[k][w]
  BY <1>6, <1>8, <1>9, <1>10
<1>11. ASSUME NEW k \in UserKey PROVE f.data[k][v] = Absent
  <2>1. CASE <<v, k>> \in r
    BY <1>4, <1>6, <1>8, <1>9, <2>1
  <2>2. CASE <<v, k>> \notin r
    <3>1. v \notin Present(e, k)
      BY <1>1, <2>2 DEF VersionInv, VersionsAreKnown, Records
    <3>2. e.data[k][v] = Absent
      BY <1>4, <3>1 DEF Present
    <3> QED BY <1>6, <1>8, <2>2, <3>2
  <2> QED BY <2>1, <2>2
<1>12. ASSUME NEW k \in UserKey
       PROVE  v \notin Present(f, k) /\ Present(f, k) \subseteq Present(e, k)
  BY <1>10, <1>11 DEF Present
<1>13. OnlyAt(e, f, v)
  BY <1>10 DEF OnlyAt
<1> QED BY <1>1, <1>5, <1>6, <1>7, <1>8, <1>12, <1>13 DEF Ended

LEMMA MoreErrors ==
    ASSUME NEW e, NEW T, NEW E, NEW F, ViewsMatch(e, T, E), E \subseteq F
    PROVE  ViewsMatch(e, T, F)
BY DEF ViewsMatch

LEMMA SameViews ==
    ASSUME NEW e, NEW f, NEW T, NEW E, VersionInv(e, T), ViewsMatch(e, T, E),
           f.next = e.next, f.active = e.active, f.writes = e.writes, f.data = e.data
    PROVE  VersionInv(f, T) /\ ViewsMatch(f, T, E)
<1>1. \A k : Present(f, k) = Present(e, k)
  BY DEF Present
<1>2. VersionInv(f, T)
  BY <1>1 DEF VersionInv, VersionsAreKnown, ActivesAreKnown, WritesAreSerial
<1>3. \A u, k : Read(f, u, k) = Read(e, u, k)
  BY SameData
<1>4. \A u : Consistent(e, u) => Consistent(f, u)
  BY <1>3, SameReads
<1>5. Latest(f) = Latest(e)
  BY DEF Latest
<1> QED BY <1>2, <1>4, <1>5 DEF ViewsMatch

\* A command on transaction c.txn, which has met an error if it fails.
LEMMA ExecKeepsViews ==
    ASSUME NEW e, NEW T, NEW E, NEW F, NEW c, NEW x, IsEngine(e), VersionInv(e, T),
           ViewsMatch(e, T, E), IsCommand(c), c.kind # "begin", c.txn \in T,
           c.kind # "rollback" => c.txn \notin E, x = Exec(Start(e), c),
           F = IF x.failed THEN E \cup {c.txn} ELSE E
    PROVE  VersionInv(x.now, T) /\ ViewsMatch(x.now, T, F)
<1>1. PICK t : t = c.txn
  OBVIOUS
<1>2. t \in T /\ IsTxn(t) /\ E \subseteq F
  BY <1>1 DEF VersionInv, ActivesAreKnown
<1>3. CASE t.version \notin e.active
  <2>1. x.now = e
    BY <1>1, <1>3, ExecIs, StartFrame
  <2> QED BY <1>2, <2>1, MoreErrors
<1>4. CASE t.version \in e.active /\ c.kind \in {"insert", "update", "delete"}
  <2>1. Quiet(e, x, T, t) /\ (~x.failed /\ Consistent(e, t) => Consistent(x.now, t))
    <3>1. CASE c.kind = "insert"
      <4>1. x = ExecInsert(Start(e), t, c.id, c.val) /\ c.id \in Id /\ c.val \in Val
        BY <1>1, <1>4, <3>1, ExecIs DEF IsCommand
      <4> QED BY <1>2, <4>1, InsertKeepsView
    <3>2. CASE c.kind = "update"
      <4>1. x = ExecUpdate(Start(e), t, c.id, c.val) /\ c.id \in Id /\ c.val \in Val
        BY <1>1, <1>4, <3>2, ExecIs DEF IsCommand
      <4> QED BY <1>2, <4>1, UpdateKeepsView
    <3>3. CASE c.kind = "delete"
      <4>1. x = ExecDelete(Start(e), t, c.id) /\ c.id \in Id
        BY <1>1, <1>4, <3>3, ExecIs DEF IsCommand
      <4> QED BY <1>2, <4>1, DeleteKeepsView
    <3> QED BY <1>4, <3>1, <3>2, <3>3
  <2>2. t \notin E /\ Consistent(e, t)
    BY <1>1, <1>2, <1>4 DEF ViewsMatch
  <2>3. t \notin F => Consistent(x.now, t)
    BY <1>1, <2>1, <2>2
  <2>4. /\ VersionInv(x.now, T) /\ x.now.active = e.active /\ x.now.next = e.next
        /\ OnlyAt(e, x.now, t.version)
    BY <2>1 DEF Quiet
  <2>5. ViewsMatch(x.now, T, F)
    BY <1>2, <1>4, <2>3, <2>4, StatementKeepsViews
  <2> QED BY <2>4, <2>5
<1>5. CASE t.version \in e.active /\ c.kind = "commit"
  <2>1. PICK f : f = x.now
    OBVIOUS
  <2>2. f = ExecCommit(Start(e), t).now
    BY <1>1, <1>5, <2>1, ExecIs
  <2>3. Ended(e, f, t) /\ f.data = e.data /\ IsEngine(f)
    BY <1>2, <2>2, CommitEnds
  <2>4. \A k \in UserKey : Present(f, k) \subseteq Present(e, k)
    BY <2>3 DEF Present
  <2>5. VersionInv(f, T)
    BY <1>2, <2>3, <2>4, EndKeepsVersions
  <2>6. ViewsMatch(f, T, E)
    BY <1>1, <1>2, <1>5, <2>3, CommitKeepsViews
  <2> QED BY <1>2, <2>1, <2>5, <2>6, MoreErrors
<1>6. CASE t.version \in e.active /\ c.kind = "rollback"
  <2>1. PICK f : f = x.now
    OBVIOUS
  <2>2. f = ExecRollback(Start(e), t).now
    BY <1>1, <1>6, <2>1, ExecIs
  <2>3. /\ Ended(e, f, t) /\ IsEngine(f) /\ OnlyAt(e, f, t.version)
        /\ \A k \in UserKey : t.version \notin Present(f, k)
                              /\ Present(f, k) \subseteq Present(e, k)
    BY <1>2, <1>6, <2>2, RollbackEnds
  <2>4. VersionInv(f, T)
    BY <1>2, <2>3, EndKeepsVersions
  <2>5. ViewsMatch(f, T, E)
    BY <1>2, <1>6, <2>3, RollbackKeepsViews
  <2> QED BY <1>2, <2>1, <2>4, <2>5, MoreErrors
<1> QED BY <1>3, <1>4, <1>5, <1>6 DEF IsCommand

-----------------------------------------------------------------------------
(* Indexes match rows, in every state.                                     *)

IndexInv == VersionInv(expected, txns) /\ ViewsMatch(expected, txns, erred)

LEMMA IndexInvInit == SqlInit => IndexInv
<1> SUFFICES ASSUME SqlInit PROVE IndexInv
  OBVIOUS
<1>1. PICK e : e = expected
  OBVIOUS
<1>2. IsEngine(e) /\ txns = {}
  BY <1>1, SqlInvInit DEF SqlInit, SqlInv, TypesHold
<1>3. \A k \in UserKey, v \in Version : e.data[k][v] = Absent
  BY <1>1 DEF SqlInit, EmptyEngine
<1>4. \A k \in UserKey : Present(e, k) = {}
  BY <1>3 DEF Present
<1>5. VersionInv(e, {})
  BY <1>4 DEF VersionInv, VersionsAreKnown, ActivesAreKnown, TxnsAreOrdered, WritesAreSerial
<1>6. \A k \in UserKey : Read(e, Latest(e), k) = Deleted
  BY <1>2, <1>4, ViewTypes, ReadIsNothing DEF Seen
<1>7. Consistent(e, Latest(e))
  BY <1>6, KeysDiffer, StoredAssumption DEF Consistent, IdsOf
<1> QED BY <1>1, <1>2, <1>5, <1>7 DEF IndexInv, ViewsMatch

LEMMA SubmitKeepsIndexInv ==
    ASSUME SqlInv, IndexInv, NEW c \in Command, Submit(c), ContinueAfterError = FALSE
    PROVE  IndexInv'
<1>1. PICK e, x, y : e = expected /\ x = Exec(Start(e), c) /\ y = Execution(e, c)
  OBVIOUS
<1>2. IsCommand(c) /\ IsEngine(e)
  BY <1>1, CommandType DEF SqlInv, TypesHold
<1>3. /\ expected' = y.now
      /\ erred' = IF y.failed THEN erred \cup {c.txn} ELSE erred
  BY <1>1 DEF Submit
<1>4. y = Then(x, [x.now EXCEPT !.applied = @ + 1])
  BY <1>1 DEF Execution
<1>5. VersionInv(e, txns) /\ ViewsMatch(e, txns, erred)
  BY <1>1 DEF IndexInv
<1>6. ASSUME IsEngine(x.now), x \in [now : {x.now}, before : {x.before}, failed : BOOLEAN],
             NEW T, NEW E, VersionInv(x.now, T), ViewsMatch(x.now, T, E)
      PROVE  VersionInv(y.now, T) /\ ViewsMatch(y.now, T, E) /\ y.failed = x.failed
  <2>1. PICK z, f : z = x.now /\ f = [z EXCEPT !.applied = @ + 1]
    OBVIOUS
  <2>2. z \in Engines
    BY <1>6, <2>1 DEF IsEngine
  <2>3. f.next = z.next /\ f.active = z.active /\ f.writes = z.writes /\ f.data = z.data
    BY <2>1, <2>2 DEF Engines
  <2>4. y = Then(x, f)
    BY <1>4, <2>1
  <2>5. y.now = f /\ y.failed = x.failed
    BY <1>6, <2>4 DEF Then
  <2>6. VersionInv(f, T) /\ ViewsMatch(f, T, E)
    BY <1>6, <2>1, <2>3, SameViews
  <2> QED BY <2>5, <2>6
<1>7. CASE c.kind = "begin"
  <2>1. x = ExecBegin(Start(e))
    BY <1>1, <1>7 DEF Exec
  <2>2. /\ IsEngine(x.now) /\ x.now.next = e.next + 1 /\ x.now.active = e.active \cup {e.next}
        /\ x.now.data = e.data /\ x.now.writes = e.writes
        /\ x \in [now : {x.now}, before : {x.before}, failed : {FALSE}]
    BY <1>2, <2>1, BeginType
  <2>3. PICK t : t = [version |-> e.next, readOnly |-> FALSE, active |-> e.active]
    OBVIOUS
  <2>4. txns' = txns \cup {t}
    BY <1>1, <1>7, <2>3 DEF Submit
  <2>5. IsTxn(t)
    BY <2>4, SubmitKeepsSqlInv DEF SqlInv, TypesHold
  <2>6. Begun(e, x.now, t)
    BY <2>2, <2>3 DEF Begun
  <2>7. \A a \in e.active : a < e.next
    BY <1>1 DEF SqlInv, VersionsAreNew
  <2>8. VersionInv(x.now, txns \cup {t})
    BY <1>2, <1>5, <2>5, <2>6, <2>7, BeginKeepsVersions
  <2>9. ViewsMatch(x.now, txns \cup {t}, erred)
    BY <1>2, <1>5, <2>2, <2>5, <2>6, <2>7, BeginKeepsViews
  <2>10. /\ VersionInv(y.now, txns \cup {t}) /\ ViewsMatch(y.now, txns \cup {t}, erred)
         /\ y.failed = x.failed
    BY <1>6, <2>2, <2>8, <2>9
  <2>11. y.failed = FALSE
    BY <2>2, <2>10
  <2> QED BY <1>3, <2>4, <2>10, <2>11 DEF IndexInv
<1>8. CASE c.kind # "begin"
  <2>1. c.txn \in txns /\ txns' = txns
    BY <1>8 DEF Command, Submit
  <2>2. c.kind # "rollback" => c.txn \notin erred
    BY <1>8 DEF Submit, IsSubmitted
  <2>3. IsExecution(x)
    BY <1>1, <1>2, <1>8, ExecType
  <2>4. PICK F : F = IF x.failed THEN erred \cup {c.txn} ELSE erred
    OBVIOUS
  <2>5. VersionInv(x.now, txns) /\ ViewsMatch(x.now, txns, F)
    BY <1>1, <1>2, <1>5, <1>8, <2>1, <2>2, <2>4, ExecKeepsViews
  <2>6. IsEngine(x.now) /\ x \in [now : {x.now}, before : {x.before}, failed : BOOLEAN]
    BY <2>3 DEF IsExecution
  <2>7. /\ VersionInv(y.now, txns) /\ ViewsMatch(y.now, txns, F) /\ y.failed = x.failed
    BY <1>6, <2>5, <2>6
  <2>8. erred' = F
    BY <1>3, <2>4, <2>7
  <2> QED BY <1>3, <2>1, <2>7, <2>8 DEF IndexInv
<1> QED BY <1>7, <1>8

LEMMA IndexInvIsEnough ==
    ASSUME SqlInv, IndexInv
    PROVE  IndexesMatchRows
<1> SUFFICES ASSUME engine.applied = index, NEW t \in Readers, NEW val \in Val
             PROVE  GetIndex(Start(engine), t, val) =
                        {id \in Id : GetRow(Start(engine), t, id) = val}
  BY DEF IndexesMatchRows
<1>1. PICK e : e = engine
  OBVIOUS
<1>2. e = expected /\ IsEngine(e)
  BY <1>1 DEF SqlInv, TypesHold, ApplyLeadsToExpected
<1>3. Consistent(e, t)
  <2>1. CASE t \in txns \ erred /\ t.version \in e.active
    BY <1>2, <2>1 DEF IndexInv, ViewsMatch
  <2>2. CASE t = Latest(e)
    BY <1>2, <2>2 DEF IndexInv, ViewsMatch
  <2> QED BY <1>1, <2>1, <2>2 DEF Readers, Latest
<1>4. PICK ids : ids = IdsOf(Read(e, t, IndexKey(val)))
  OBVIOUS
<1>5. GetIndex(Start(engine), t, val) = ids
  BY <1>1, <1>4 DEF GetIndex, Start, Read, IdsOf
<1>6. \A id \in Id : GetRow(Start(engine), t, id) = Read(e, t, RowKey(id))
  BY <1>1, <1>2, GetRowIs
<1>7. ids \subseteq Id
  <2>1. Read(e, t, IndexKey(val)) \in (SUBSET Id) \cup {Deleted}
    BY <1>2, ReadType, KeysDiffer
  <2> QED BY <1>4, <2>1 DEF IdsOf
<1>8. \A id \in Id : id \in ids <=> Read(e, t, RowKey(id)) = val
  BY <1>3, <1>4 DEF Consistent
<1> QED BY <1>5, <1>6, <1>7, <1>8

\* Secondary indexes hold the rows that have the value, for every transaction
\* that is active and has met no error and for one that begins now, if clients
\* roll back after an error and crashes interrupt only commands that can be
\* reapplied.  Concurrent transactions conflict when they write the same key, not
\* when one writes a row and another its index entry: the indexes match
\* nevertheless, write skew or not.
THEOREM IndexesAreKept ==
    ASSUME ContinueAfterError = FALSE,
           CrashIn \subseteq {"update", "delete", "commit", "rollback"}
    PROVE  SqlSpec => []IndexesMatchRows
<1>1. CrashIn \subseteq Reapplied
  BY DEF Reapplied
<1>2. SqlInv /\ [SqlNext]_stateVars => SqlInv'
  BY <1>1, NextKeepsSqlInv
<1>3. SqlInv /\ IndexInv /\ [SqlNext]_stateVars => IndexInv'
  <2> SUFFICES ASSUME SqlInv, IndexInv, [SqlNext]_stateVars PROVE IndexInv'
    OBVIOUS
  <2>1. CASE \E c \in Command : Submit(c)
    BY <2>1, SubmitKeepsIndexInv
  <2>2. CASE Apply \/ ApplyAndCrash \/ UNCHANGED stateVars
    <3>1. expected' = expected /\ txns' = txns /\ erred' = erred
      BY <2>2 DEF Apply, ApplyAndCrash, stateVars
    <3> QED BY <3>1 DEF IndexInv
  <2> QED BY <2>1, <2>2 DEF SqlNext
<1>4. SqlInv /\ IndexInv => IndexesMatchRows
  BY IndexInvIsEnough
<1> QED BY SqlInvInit, IndexInvInit, <1>2, <1>3, <1>4, PTL DEF SqlSpec
=============================================================================
