------------------------------ MODULE SqlState ------------------------------
(***************************************************************************)
(* The SQL state machine of src/sql/engine/raft.rs (State), which applies  *)
(* the commands of the Raft log to the tables of src/sql/engine/local.rs,  *)
(* kept in src/storage/mvcc.rs: every engine write of a command, a process *)
(* crash between any two of them, and the command's second application     *)
(* from the applied index that was stored.                                 *)
(*                                                                         *)
(* There is one table with an indexed column.  Its schema, foreign keys    *)
(* and further columns are left out.  `expected' is the engine of a node   *)
(* that does not crash, the leader that answers the clients.               *)
(***************************************************************************)
EXTENDS Naturals, FiniteSets, Sequences

CONSTANTS
    Id, Val,            \* primary keys; values of the indexed column
    Deleted, Absent,    \* a tombstone; no version
    NoEntry,            \* no log entry
    CrashIn,            \* the kinds of commands that a crash interrupts
    ContinueAfterError, \* clients go on with a transaction after a statement's error
    MaxVersion,         \* bound: versions allocated
    MaxIndex,           \* bound: log entries
    MaxCrashes          \* bound: crashes

ASSUME SqlStateAssumption ==
    /\ CrashIn \subseteq {"begin", "insert", "update", "delete", "commit", "rollback"}
    /\ ContinueAfterError \in BOOLEAN
    /\ MaxVersion \in Nat /\ MaxIndex \in Nat /\ MaxCrashes \in Nat

ASSUME StoredAssumption ==
    /\ Deleted \notin Val /\ Absent \notin Val /\ Absent # Deleted
    /\ \A ids \in SUBSET Id : ids # Deleted /\ ids # Absent

VARIABLES
    entry,      \* the last entry of the Raft log
    index,      \* its index
    txns,       \* the transaction states that clients hold
    erred,      \* those of which a statement has returned an error
    engine,     \* the node's storage engine
    expected,   \* that of a node that has applied all entries without a crash
    crashes

stateVars == <<entry, index, txns, erred, engine, expected, crashes>>

RowKey(id) == <<"row", id>>
IndexKey(val) == <<"index", val>>
UserKey == {RowKey(id) : id \in Id} \cup {IndexKey(val) : val \in Val}

Version == 1..MaxVersion

\* MVCC on engine content e.
Mvcc(e) == INSTANCE MVCC WITH
    Txn <- {}, Key <- UserKey, Value <- Val \cup SUBSET Id, NoTxn <- NoEntry,
    nextVersion <- e.next, active <- e.active, snapshot <- e.snapshot,
    writes <- e.writes, data <- e.data, txn <- <<>>, outcome <- <<>>

-----------------------------------------------------------------------------
(* An execution: the engine content, its contents before each write so     *)
(* far, and whether an error has ended the command.                        *)

Start(e) == [now |-> e, before |-> {}, failed |-> FALSE]

Then(x, e) == [x EXCEPT !.before = @ \cup {x.now}, !.now = e]

Fail(x) == [x EXCEPT !.failed = TRUE]

\* Transaction::write_version: the write record, then the version.
WriteVersion(x, t, key, value) ==
    IF x.failed \/ Mvcc(x.now)!WriteConflict(t, key) THEN Fail(x)
    ELSE LET recorded == [x.now EXCEPT !.writes = @ \cup {<<t.version, key>>}]
             written  == [recorded EXCEPT !.data[key][t.version] = value]
         IN  Then(Then(x, recorded), written)

GetRow(x, t, id) == Mvcc(x.now)!Get(t, RowKey(id))

GetIndex(x, t, val) ==
    LET ids == Mvcc(x.now)!Get(t, IndexKey(val)) IN IF ids = Deleted THEN {} ELSE ids

SetIndex(x, t, val, ids) ==
    WriteVersion(x, t, IndexKey(val), IF ids = {} THEN Deleted ELSE ids)

ExecInsert(x, t, id, val) ==
    IF GetRow(x, t, id) # Deleted THEN Fail(x)
    ELSE LET row == WriteVersion(x, t, RowKey(id), val)
         IN  IF row.failed THEN row
             ELSE SetIndex(row, t, val, GetIndex(row, t, val) \cup {id})

\* Mutant: the row is written before its index entries are updated.
ExecUpdateRowFirst(x, t, id, val) ==
    LET old     == GetRow(x, t, id)
        row     == WriteVersion(x, t, RowKey(id), val)
        removed == SetIndex(row, t, old, GetIndex(row, t, old) \ {id})
    IN  IF old = Deleted THEN Fail(x)
        ELSE IF old = val THEN row
        ELSE IF removed.failed THEN removed
        ELSE SetIndex(removed, t, val, GetIndex(removed, t, val) \cup {id})

\* The index entries of the old and the new value, then the row.
ExecUpdate(x, t, id, val) ==
    LET old     == GetRow(x, t, id)
        removed == SetIndex(x, t, old, GetIndex(x, t, old) \ {id})
        added   == IF removed.failed THEN removed
                   ELSE SetIndex(removed, t, val, GetIndex(removed, t, val) \cup {id})
    IN  IF old = Deleted THEN Fail(x)
        ELSE WriteVersion(IF old = val THEN x ELSE added, t, RowKey(id), val)

\* Mutant: the index entry stays.
ExecDeleteRowOnly(x, t, id) == WriteVersion(x, t, RowKey(id), Deleted)

ExecDelete(x, t, id) ==
    LET old == GetRow(x, t, id)
        y   == IF old = Deleted THEN x
               ELSE SetIndex(x, t, old, GetIndex(x, t, old) \ {id})
    IN  WriteVersion(y, t, RowKey(id), Deleted)

ExecBegin(x) ==
    LET v == x.now.next
        a == [x.now EXCEPT !.next = v + 1]
        b == [a EXCEPT !.snapshot[v] = a.active]
        y == IF a.active = {} THEN Then(x, a) ELSE Then(Then(x, a), b)
    IN  Then(y, [y.now EXCEPT !.active = @ \cup {v}])

Records(e, v) == {w \in e.writes : w[1] = v}

Deactivate(x, v) == Then(x, [x.now EXCEPT !.active = @ \ {v}])

\* The records are removed one after the other, in any order.
ExecCommit(x, t) ==
    LET Removed(done) == [x.now EXCEPT !.writes = @ \ done]
        records == Records(x.now, t.version)
    IN  Deactivate([x EXCEPT !.before = @ \cup {Removed(done) : done \in SUBSET records},
                             !.now = Removed(records)], t.version)

\* The versions undone and the records removed, from engine content e.
Undone(e, v, undone, removed) ==
    [e EXCEPT !.writes = @ \ removed,
              !.data = [k \in UserKey |-> IF <<v, k>> \in undone
                                          THEN [e.data[k] EXCEPT ![v] = Absent] ELSE e.data[k]]]

\* Every version is deleted before its record; the records in any order.
ExecRollback(x, t) ==
    LET v == t.version
        records == Records(x.now, v)
        before  == {Undone(x.now, v, done, done) : done \in SUBSET records}
        between == {Undone(x.now, v, done \cup {w}, done) :
                       done \in SUBSET records, w \in records}
    IN  Deactivate([x EXCEPT !.before = @ \cup before \cup between,
                             !.now = Undone(x.now, v, records, records)], v)

\* State::write; Transaction::resume fails if the transaction is not active.
Exec(x, c) ==
    IF c.kind = "begin" THEN ExecBegin(x)
    ELSE IF c.txn.version \notin x.now.active THEN Fail(x)
    ELSE CASE c.kind = "insert"   -> ExecInsert(x, c.txn, c.id, c.val)
           [] c.kind = "update"   -> ExecUpdate(x, c.txn, c.id, c.val)
           [] c.kind = "delete"   -> ExecDelete(x, c.txn, c.id)
           [] c.kind = "commit"   -> ExecCommit(x, c.txn)
           [] c.kind = "rollback" -> ExecRollback(x, c.txn)

\* State::apply: an error counts as applied; the applied index is stored last.
Execution(e, c) ==
    LET x == Exec(Start(e), c) IN Then(x, [x.now EXCEPT !.applied = @ + 1])

-----------------------------------------------------------------------------
Command ==
    {[kind |-> "begin"]}
        \cup [kind : {"insert", "update"}, txn : txns, id : Id, val : Val]
        \cup [kind : {"delete"}, txn : txns, id : Id]
        \cup [kind : {"commit", "rollback"}, txn : txns]

\* The executor updates rows that it has read.  A client that does not go on
\* after an error rolls back.
IsSubmitted(c) ==
    /\ c.kind = "begin" => expected.next <= MaxVersion
    /\ c.kind \notin {"begin", "rollback"} => ContinueAfterError \/ c.txn \notin erred
    /\ c.kind = "update" => Mvcc(expected)!Get(c.txn, RowKey(c.id)) # Deleted

Submit(c) ==
    /\ index < MaxIndex /\ engine.applied = index /\ IsSubmitted(c)
    /\ entry' = c /\ index' = index + 1
    /\ txns' = IF c.kind # "begin" THEN txns
               ELSE txns \cup {[version |-> expected.next, readOnly |-> FALSE,
                                active |-> expected.active]}
    /\ LET x == Execution(expected, c)
       IN  /\ expected' = x.now
           /\ erred' = IF x.failed THEN erred \cup {c.txn} ELSE erred
    /\ UNCHANGED <<engine, crashes>>

Apply ==
    /\ engine.applied < index
    /\ engine.next <= MaxVersion \/ entry.kind # "begin"
    /\ engine' = Execution(engine, entry).now
    /\ UNCHANGED <<entry, index, txns, erred, expected, crashes>>

\* A crash after some of the command's writes; State::new loads what is stored.
ApplyAndCrash ==
    /\ engine.applied < index /\ entry.kind \in CrashIn /\ crashes < MaxCrashes
    /\ engine.next <= MaxVersion \/ entry.kind # "begin"
    /\ crashes' = crashes + 1
    /\ engine' \in Execution(engine, entry).before
    /\ UNCHANGED <<entry, index, txns, erred, expected>>

EmptyEngine ==
    [next |-> 1, active |-> {}, snapshot |-> [v \in Version |-> {}], writes |-> {},
     data |-> [k \in UserKey |-> [v \in Version |-> Absent]], applied |-> 0]

SqlInit ==
    /\ entry = NoEntry /\ index = 0 /\ txns = {} /\ erred = {} /\ crashes = 0
    /\ engine = EmptyEngine /\ expected = EmptyEngine

SqlNext == (\E c \in Command : Submit(c)) \/ Apply \/ ApplyAndCrash

SqlSpec == SqlInit /\ [][SqlNext]_stateVars

-----------------------------------------------------------------------------
(* Properties.                                                             *)

\* State::apply "must yield the same state and result on all nodes, even if the
\* command is reapplied following a node crash": a node that has crashed in the
\* middle of commands holds the same data as one that has not.
ReapplicationIsDeterministic == engine.applied = index => engine = expected

\* The transactions whose reads are looked at: those that are still active and
\* have met no error, and one that begins now.
Readers ==
    {t \in txns \ erred : t.version \in engine.active}
        \cup {[version |-> engine.next, readOnly |-> TRUE, active |-> engine.active]}

\* Secondary indexes hold the rows that have the value, for every transaction
\* that is still active and has met no error, and for one that begins now.  (If
\* "A transaction is still valid for use if a contained statement returns an
\* error", docs/sql.md, then also when clients go on and commit after an error.)
IndexesMatchRows ==
    engine.applied = index =>
        \A t \in Readers, val \in Val :
            GetIndex(Start(engine), t, val) = {id \in Id : GetRow(Start(engine), t, id) = val}
=============================================================================
