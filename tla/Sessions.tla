------------------------------ MODULE Sessions ------------------------------
(***************************************************************************)
(* Clients and their SQL sessions: Client::with_retry (src/client.rs), the *)
(* connection and its thread (src/server.rs, sql_session), Session::       *)
(* execute and with_txn (src/sql/execution/session.rs) and the requests    *)
(* they make of Raft (src/sql/engine/raft.rs).                             *)
(*                                                                         *)
(* Raft is external here: it answers a request after applying it, or       *)
(* aborts it, or never answers; a request that was not answered may be     *)
(* applied at any later time, or never.  (Raft's log rules some of these   *)
(* orders out; nothing below relies on that.)  What the transactions do is *)
(* SnapshotIsolation, which src/storage/mvcc.rs implements, on the keys of *)
(* Tables.                                                                 *)
(***************************************************************************)
EXTENDS Tables

CONSTANTS
    Client,         \* each with a connection
    Txn,            \* transactions, numbers from 1; bounds how many begin
    NoTxn,          \* Option::None
    ReadOnly,       \* a read-only transaction; it has nothing to commit or to roll back
    Absent,         \* a transaction did not write a key
    DbKey,          \* keys of tables, rows and index entries
    InitialDb,      \* what they hold at the start
    Script,         \* what a client's closure may execute: sequences of statements
    MaxAttempts,    \* with_retry's MAX_RETRIES
    MaxFaults       \* bound: requests that are aborted, lost, or slower than the timeout

Statement(name) == [op |-> name]

Statements == UNION {ToSet(s) : s \in Script}

Operations == {"begin", "begin read only", "commit", "rollback", "select",
               "insert", "update", "delete", "create", "drop"}

ASSUME SessionsAssumption ==
    /\ Txn \subseteq Nat /\ NoTxn \notin Txn /\ ReadOnly \notin Txn \cup {NoTxn}
    /\ NoTxn \notin Client /\ MaxAttempts \in Nat /\ MaxFaults \in Nat

ASSUME ScriptAssumption ==
    /\ \A s \in Script : s \in Seq(Statements) /\ s # <<>>
    /\ \A stmt \in Statements : stmt.op \in Operations

VARIABLES
    status, db, snap, seen, wrote, past,    \* see SnapshotIsolation
    script,         \* each client's statements
    client,         \* its [pc, step, inTxn, retries]: pc is what with_retry waits for
    session,        \* its session: [txn, stage, stmt, own, result]
    late,           \* write commands that were not answered
    owner,          \* the client of each transaction
    forsaken,       \* transactions of which a begin, commit or rollback was aborted or lost
    faults          \* how many more there may be

siVars == <<status, db, snap, seen, wrote, past>>

sessionVars == <<siVars, script, client, session, late, owner, forsaken, faults>>

SI == INSTANCE SnapshotIsolation WITH Key <- DbKey, Value <- {}

\* Error::Serialization and Error::Abort.
Retryable == {"Serialization", "Abort"}

Succeeded == {"ok", "begin", "commit", "rollback"}

-----------------------------------------------------------------------------
(* Transactions, below Raft.                                               *)

View(t) == [k \in DbKey |-> IF wrote[t][k] = Absent THEN snap[t][k] ELSE wrote[t][k]]

\* Mutant: those of transactions that have since committed do not count.
ConflictsOfActive(t) ==
    {k \in DbKey : \E u \in Txn \ {t} : wrote[u][k] # Absent /\ status[u] = "active"}

\* The keys that a transaction it does not see has written.
Conflicts(t) ==
    {k \in DbKey : \E u \in Txn \ {t} : wrote[u][k] # Absent /\ u \notin seen[t]}

NextTxn == CHOOSE t \in Txn : status[t] = "idle" /\ \A u \in Txn : status[u] = "idle" => t <= u

Begin(c) ==
    /\ \E t \in Txn : status[t] = "idle"
    /\ SI!SIBegin(NextTxn)
    /\ owner' = [owner EXCEPT ![NextTxn] = c]

\* A command that fails keeps the writes it has made.
Effect(t, x) ==
    wrote' = [wrote EXCEPT ![t] = [k \in DbKey |-> IF k \in x.wrote THEN x.view[k] ELSE @[k]]]

-----------------------------------------------------------------------------
(* Client::with_retry around a closure that executes the script and ends   *)
(* with the first error.  A client that waits for a response does nothing  *)
(* else, so that a request or a response is handled as soon as it is sent: *)
(* a delay on the way is a delay in the session.                           *)

Closed(c) == client[c].pc \in {"returned", "failed"}

\* The request that the client waits for.
Request(c) == IF client[c].pc = "statement" THEN script[c][client[c].step]
              ELSE Statement("rollback")

\* Client::execute's view of the transaction.
InTxn(c, r) == r = "begin" \/ (client[c].inTxn /\ r \notin {"commit", "rollback"})

\* The closure's next statement, or its result.
Proceed(c, r) ==
    /\ client[c].pc = "statement" /\ r \in Succeeded
    /\ client' = [client EXCEPT ![c].inTxn = InTxn(c, r), ![c].step = @ + 1,
                     ![c].pc = IF client[c].step = Len(script[c]) THEN "returned" ELSE @]

\* The closure runs again.
Restart(c) ==
    client' = [client EXCEPT ![c] = [pc |-> "statement", step |-> 1, inTxn |-> FALSE,
                                     retries |-> @.retries + 1]]

GoOn(c, pc) == client' = [client EXCEPT ![c].pc = pc]

Retry(c, r) ==
    /\ client[c].pc = "statement" /\ r \in Retryable /\ client[c].retries < MaxAttempts
    /\ IF client[c].inTxn THEN GoOn(c, "rollback") ELSE Restart(c)

\* Mutant: an error of the rollback is ignored.
RolledBackOrNot(c, r) == client[c].pc = "rollback" /\ Restart(c)

\* An error of the rollback ends the retries.
RolledBack(c, r) ==
    /\ client[c].pc = "rollback"
    /\ IF r = "rollback" THEN Restart(c) ELSE GoOn(c, "failed")

\* Another error, or too many retries: the error is returned after a rollback.
FinalRollback(c) ==
    GoOn(c, IF client[c].pc = "statement" /\ client[c].inTxn THEN "last rollback" ELSE "failed")

GiveUp(c, r) ==
    /\ client[c].pc = "statement" /\ r \notin Succeeded
    /\ r \in Retryable => client[c].retries = MaxAttempts
    /\ FinalRollback(c)

\* The last rollback takes the next response for its own, whatever it is.
LastResponse(c) == client[c].pc = "last rollback" /\ GoOn(c, "failed")

\* Nobody reads the response once the client has closed its connection.
Unread(c) == Closed(c) /\ UNCHANGED client

Receives(c, r) ==
    Proceed(c, r) \/ Retry(c, r) \/ RolledBack(c, r) \/ GiveUp(c, r) \/ LastResponse(c)
        \/ Unread(c)

-----------------------------------------------------------------------------
(* A session.  While it works on a request, `own' is the transaction.      *)

Idle(s) == [s EXCEPT !.stage = "idle", !.stmt = Statement("none"),
                     !.own = NoTxn, !.result = "ok"]

Respond(c, s, r) == session' = [session EXCEPT ![c] = Idle(s)] /\ Receives(c, r)

GoTo(c, s) == session' = [session EXCEPT ![c] = s] /\ UNCHANGED client

IsBegin(stmt)    == stmt.op \in {"begin", "begin read only"}
IsEnd(stmt)      == stmt.op \in {"commit", "rollback"}
IsReadOnly(stmt) == stmt.op \in {"begin read only", "select"}

\* sql_session reads a request, which Session::execute handles up to the first request
\* of Raft.
ReceiveRequest(c) ==
    /\ session[c].stage = "idle" /\ ~Closed(c)
    /\ UNCHANGED <<siVars, script, late, owner, forsaken, faults>>

ExecuteBegin(c) ==
    /\ ReceiveRequest(c) /\ IsBegin(Request(c))
    /\ IF session[c].txn # NoTxn THEN Respond(c, session[c], "InvalidInput")
       ELSE GoTo(c, [session[c] EXCEPT !.stage = "begin", !.stmt = Request(c)])

\* Mutant: the transaction stays in the session until it has ended.
ExecuteEndKept(c) ==
    /\ ReceiveRequest(c) /\ IsEnd(Request(c))
    /\ LET s == [session[c] EXCEPT !.own = session[c].txn, !.stmt = Request(c)]
       IN  CASE s.own = NoTxn    -> Respond(c, s, "InvalidInput")
             [] s.own = ReadOnly -> Respond(c, s, s.stmt.op)
             [] OTHER            -> GoTo(c, [s EXCEPT !.stage = s.stmt.op])

\* COMMIT and ROLLBACK take the transaction; a read-only one has nothing to end.
ExecuteEnd(c) ==
    /\ ReceiveRequest(c) /\ IsEnd(Request(c))
    /\ LET s == [session[c] EXCEPT !.txn = NoTxn, !.own = session[c].txn, !.stmt = Request(c)]
       IN  CASE s.own = NoTxn    -> Respond(c, s, "InvalidInput")
             [] s.own = ReadOnly -> Respond(c, s, s.stmt.op)
             [] OTHER            -> GoTo(c, [s EXCEPT !.stage = s.stmt.op])

\* with_txn begins a transaction if there is none.
ExecuteStatement(c) ==
    /\ ReceiveRequest(c) /\ ~IsBegin(Request(c)) /\ ~IsEnd(Request(c))
    /\ GoTo(c, [session[c] EXCEPT !.own = session[c].txn, !.stmt = Request(c),
                    !.stage = IF session[c].txn = NoTxn THEN "begin" ELSE "run"])

\* Transaction::begin: BEGIN keeps the transaction, an implicit one executes.
Begun(c, s, t) ==
    IF IsBegin(s.stmt) THEN Respond(c, [s EXCEPT !.txn = t], "begin")
    ELSE GoTo(c, [s EXCEPT !.own = t, !.stage = "run"])

BeginReadWrite(c) ==
    /\ session[c].stage = "begin" /\ ~IsReadOnly(session[c].stmt)
    /\ Begin(c)
    /\ Begun(c, session[c], NextTxn)
    /\ UNCHANGED <<script, late, forsaken, faults>>

BeginReadOnly(c) ==
    /\ session[c].stage = "begin" /\ IsReadOnly(session[c].stmt)
    /\ Begun(c, session[c], ReadOnly)
    /\ UNCHANGED <<siVars, script, late, owner, forsaken, faults>>

\* with_txn after the closure.
Finish(c, s, r) ==
    IF s.own = s.txn \/ s.own = ReadOnly THEN Respond(c, s, r)
    ELSE GoTo(c, [s EXCEPT !.result = r, !.stage = IF r = "ok" THEN "commit" ELSE "rollback"])

Select(c) ==
    /\ session[c].stage = "run" /\ IsReadOnly(session[c].stmt)
    /\ Finish(c, session[c], "ok")
    /\ UNCHANGED <<siVars, script, late, owner, forsaken, faults>>

\* The result of a command, as far as the session and the client tell errors apart.
Outcome(x) ==
    IF ~Failed(x) THEN "ok" ELSE IF x.error = "Serialization" THEN "Serialization"
    ELSE "InvalidInput"

Write(c) ==
    LET s == session[c]
        x == Execute(Start(View(s.own), Conflicts(s.own)), Command(View(s.own), s.stmt))
    IN  /\ s.stage = "run" /\ ~IsReadOnly(s.stmt)
        /\ Effect(s.own, x)
        /\ Finish(c, s, Outcome(x))
        /\ UNCHANGED <<status, db, snap, seen, past, script, late, owner, forsaken, faults>>

Commit(c) ==
    LET s == session[c]
    IN  /\ s.stage = "commit"
        /\ SI!SICommit(s.own)
        /\ Respond(c, s, IF IsEnd(s.stmt) THEN "commit" ELSE s.result)
        /\ UNCHANGED <<script, late, owner, forsaken, faults>>

Rollback(c) ==
    LET s == session[c]
    IN  /\ s.stage = "rollback"
        /\ SI!SIRollback(s.own)
        /\ IF s.stmt.op = "drop session" THEN GoTo(c, [Idle(s) EXCEPT !.stage = "dropped"])
           ELSE Respond(c, s, IF IsEnd(s.stmt) THEN "rollback" ELSE s.result)
        /\ UNCHANGED <<script, late, owner, forsaken, faults>>

-----------------------------------------------------------------------------
(* Requests that Raft does not answer.                                     *)

InRaft == {"begin", "run", "commit", "rollback"}

WriteCommand(s) == IF s.stage = "run" THEN Command(View(s.own), s.stmt) ELSE Statement(s.stage)

\* The write that the session waits for, if it is not a read.
Submitted(c) ==
    LET s == session[c]
    IN  IF s.stage \in {"begin", "run"} /\ IsReadOnly(s.stmt) THEN {}
        ELSE {[txn |-> s.own, client |-> c, attempt |-> client[c].retries, command |-> w]
              : w \in {WriteCommand(s)} \ {[op |-> "invalid"]}}

\* Nobody can tell any more whether the transaction ends. A statement leaves it with its
\* session.
Forsake(s) == forsaken' = forsaken \cup (IF s.stage = "run" THEN {} ELSE {s.own} \cap Txn)

Fault == faults > 0 /\ faults' = faults - 1

\* Error::Abort.  The statement's own reads may be aborted too.
Abort(c) ==
    LET s == session[c]
    IN  /\ s.stage \in InRaft /\ Fault
        /\ \/ late' = late \cup Submitted(c)
           \/ s.stage = "run" /\ UNCHANGED late
        /\ CASE s.stage = "run"              -> Finish(c, s, "Abort")
             [] s.stmt.op = "drop session"   -> GoTo(c, [Idle(s) EXCEPT !.stage = "dropped"])
             [] OTHER                        -> Respond(c, s, "Abort")
        /\ Forsake(s)
        /\ UNCHANGED <<siVars, script, owner>>

\* Raft::request waits for ever.
Lose(c) ==
    LET s == session[c]
    IN  /\ s.stage \in InRaft /\ Fault
        /\ late' = late \cup Submitted(c)
        /\ GoTo(c, [s EXCEPT !.stage = "hung"])
        /\ Forsake(s)
        /\ UNCHANGED <<siVars, script, owner>>

\* A command that was not answered is applied; it fails if its transaction has ended.
LateBegin(m) ==
    /\ m.command.op = "begin" /\ Begin(m.client)
    /\ late' = late \ {m} /\ forsaken' = forsaken \cup {NextTxn}
    /\ UNCHANGED <<script, client, session, faults>>

LateEnd(m) ==
    /\ \/ m.command.op = "commit" /\ SI!SICommit(m.txn)
       \/ m.command.op = "rollback" /\ SI!SIRollback(m.txn)
    /\ late' = late \ {m}
    /\ UNCHANGED <<script, client, session, owner, forsaken, faults>>

LateWrite(m) ==
    /\ m.command.op \notin {"begin", "commit", "rollback"} /\ status[m.txn] = "active"
    /\ Effect(m.txn, Execute(Start(View(m.txn), Conflicts(m.txn)), m.command))
    /\ late' = late \ {m}
    /\ UNCHANGED <<status, db, snap, seen, past, script, client, session, owner, forsaken, faults>>

-----------------------------------------------------------------------------
(* The end of a session: the connection is closed, Drop rolls back.        *)

\* Mutant: an open transaction is left alone.
DropWithoutRollback(c) ==
    /\ session[c].stage = "idle" /\ Closed(c)
    /\ GoTo(c, [Idle(session[c]) EXCEPT !.txn = NoTxn, !.stage = "dropped"])
    /\ UNCHANGED <<siVars, script, late, owner, forsaken, faults>>

\* A request that the client has left unread on its connection is a ROLLBACK.
Drop(c) ==
    LET s == session[c]
    IN  /\ s.stage = "idle" /\ Closed(c)
        /\ GoTo(c, IF s.txn \in Txn
                   THEN [s EXCEPT !.txn = NoTxn, !.own = s.txn, !.stage = "rollback",
                                  !.stmt = Statement("drop session")]
                   ELSE [Idle(s) EXCEPT !.txn = NoTxn, !.stage = "dropped"])
        /\ UNCHANGED <<siVars, script, late, owner, forsaken, faults>>

-----------------------------------------------------------------------------
(* The client's read timeout.  The error is an I/O error, which is not     *)
(* retried.                                                                *)

\* A session that still works on the request, or for ever.
Unanswered(c) ==
    \/ session[c].stage = "hung" /\ UNCHANGED faults
    \/ session[c].stage \in InRaft /\ Fault

\* Mutant: the last rollback waits without a timeout.
TimeoutOfStatements(c) ==
    /\ client[c].pc \in {"statement", "rollback"} /\ Unanswered(c)
    /\ FinalRollback(c)
    /\ UNCHANGED <<siVars, script, session, late, owner, forsaken>>

Timeout(c) ==
    /\ ~Closed(c) /\ Unanswered(c)
    /\ FinalRollback(c)
    /\ UNCHANGED <<siVars, script, session, late, owner, forsaken>>

-----------------------------------------------------------------------------
NewSession == [txn |-> NoTxn, stage |-> "idle", stmt |-> Statement("none"),
               own |-> NoTxn, result |-> "ok"]

SessionsInit ==
    /\ status = [t \in Txn |-> "idle"] /\ db = InitialDb
    /\ snap = [t \in Txn |-> SI!EmptyDb] /\ seen = [t \in Txn |-> {}]
    /\ wrote = [t \in Txn |-> SI!NoWrites] /\ past = <<>>
    /\ script \in [Client -> Script]
    /\ client = [c \in Client |->
                    [pc |-> "statement", step |-> 1, inTxn |-> FALSE, retries |-> 0]]
    /\ session = [c \in Client |-> NewSession]
    /\ late = {} /\ owner = [t \in Txn |-> NoTxn] /\ forsaken = {}
    /\ faults \in 0..MaxFaults

SessionStep(c) ==
    \/ ExecuteBegin(c) \/ ExecuteEnd(c) \/ ExecuteStatement(c)
    \/ BeginReadWrite(c) \/ BeginReadOnly(c) \/ Select(c) \/ Write(c) \/ Commit(c) \/ Rollback(c)
    \/ Abort(c) \/ Lose(c) \/ Drop(c)

\* What ENABLED SessionStep(c) comes to: the session's thread is not gone, Raft will not
\* leave it waiting for ever, and the bound on transactions lets it begin.
CanStep(c) ==
    /\ session[c].stage \notin {"hung", "dropped"}
    /\ session[c].stage = "begin" /\ ~IsReadOnly(session[c].stmt)
           => \E t \in Txn : status[t] = "idle"

Late == \E m \in late : LateBegin(m) \/ LateEnd(m) \/ LateWrite(m)

SessionsNext == Late \/ \E c \in Client : SessionStep(c) \/ Timeout(c)

SessionsSpec == SessionsInit /\ [][SessionsNext]_sessionVars

-----------------------------------------------------------------------------
(* Properties.                                                             *)

CommittedBy(c) == {t \in Txn : owner[t] = c /\ status[t] = "committed"}

\* The closure is one transaction.
IsTransaction(stmts) ==
    /\ stmts[1].op = "begin" /\ stmts[Len(stmts)].op = "commit"
    /\ \A i \in 2..Len(stmts) - 1 : ~IsEnd(stmts[i])

\* A call of with_retry that returns Ok has had its effect, and exactly once if the
\* closure is one transaction, however many of its requests were aborted and retried,
\* and whenever those that were aborted are applied after all.
ReturnedMeansOnce ==
    \A c \in Client : client[c].pc = "returned" =>
        /\ IsTransaction(script[c]) => Cardinality(CommittedBy(c)) = 1
        /\ ~IsBegin(script[c][1]) /\ ~IsReadOnly(script[c][1]) => CommittedBy(c) # {}

\* A client that believes it has no transaction sends its statements to a session that
\* has none either: BEGIN finds no transaction of an earlier attempt, and no statement
\* lands in one.
NoHiddenTransaction ==
    \A c \in Client :
        ~client[c].inTxn /\ session[c].stage = "idle" /\ ~Closed(c)
            => session[c].txn = NoTxn

\* Two transactions that committed without seeing each other.
Concurrent(t, u) ==
    /\ status[t] = "committed" /\ status[u] = "committed"
    /\ t \notin seen[u] /\ u \notin seen[t]

\* Write skew: of two concurrent transactions one wrote the row, the other the key that
\* the row relies on.
Skewed(row, key) ==
    \E t, u \in Txn : Concurrent(t, u) /\ wrote[t][row] # Absent /\ wrote[u][key] # Absent

\* The committed database keeps the constraints of the schemas after any sequence of
\* inserts, updates of keys, references and unique columns, deletions, and dropped and
\* created tables, also by clients that change tables at the same time: index entries
\* match rows and unique columns hold no value twice; a reference to a missing row, or a
\* row of a missing table, only arises from write skew.
ConstraintsHold ==
    /\ IndexesAreExact(db) /\ UniqueColumnsHold(db)
    /\ \A d \in Dangling(db) : Skewed(d[1], d[2])

\* A session waits for ever for the answer to a statement of the transaction. It neither
\* sees that its client has gone nor is dropped, so the transaction stays open.
HeldByHung(t) == \E c \in Client : session[c].stage = "hung" /\ session[c].own = t

Ended(t) == status[t] # "active" \/ t \in forsaken \/ HeldByHung(t)
=============================================================================
