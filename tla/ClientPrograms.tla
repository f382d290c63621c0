--------------------------- MODULE ClientPrograms ---------------------------
(***************************************************************************)
(* The programs that use a client, for model checking: the read workload   *)
(* of src/bin/workload.rs, clients that run transactions in with_retry,    *)
(* and a console that executes statement after statement, alone.           *)
(* A behaviour is a behaviour of one of them.                              *)
(***************************************************************************)
EXTENDS ReadWorkload, Sessions

VARIABLE program

programVars == <<workloadVars, sessionVars, program>>

-----------------------------------------------------------------------------
(* Two tables: items with a counter; links that refer to an item and to    *)
(* another link, with a unique code.                                       *)

ColumnOf(nullable, unique, index, references) ==
    [nullable |-> nullable, unique |-> unique, index |-> index, references |-> references,
     datatype |-> "INTEGER", default |-> IF nullable THEN Null ELSE Deleted]

Id == ColumnOf(FALSE, TRUE, FALSE, NoTable)

Item == [name |-> "item", primaryKey |-> 1,
         columns |-> <<Id, ColumnOf(FALSE, FALSE, FALSE, NoTable)>>]

Link(unique, index) ==
    [name |-> "link", primaryKey |-> 1,
     columns |-> <<Id, ColumnOf(TRUE, FALSE, TRUE, "item"), ColumnOf(TRUE, FALSE, TRUE, "link"),
                   ColumnOf(TRUE, unique, index, NoTable)>>]

\* References, and unique values.
Ids   == {1, 2}
Codes == {7}

Keys == {TableKey(t) : t \in {"item", "link"}} \cup {RowKey(t, id) : t \in {"item", "link"}, id \in Ids}
            \cup {IndexKey("link", i, v) : i \in {2, 3}, v \in Ids \cup {Null}}
            \cup {IndexKey("link", 4, v) : v \in Codes \cup {Null}}

Populated == [k \in Keys |->
    CASE k = TableKey("item")  -> Item
      [] k = TableKey("link")  -> Link(TRUE, TRUE)
      [] k = RowKey("item", 1) -> <<1, 0>>
      [] OTHER                 -> Deleted]

InsertLink(id, item, parent, code) ==
    [op |-> "insert", table |-> "link", map |-> [i \in 1..4 |-> i],
     rows |-> <<<<id, item, parent, code>>>>]

\* INSERT INTO link (code, id) VALUES ...
InsertCode(id, code) ==
    [op |-> "insert", table |-> "link", map |-> (1 :> 2 @@ 4 :> 1), rows |-> <<<<code, id>>>>]

Delete(t, ids) == [op |-> "delete", table |-> t, ids |-> ids]

Update(t, ids, column, value, add) ==
    [op |-> "update", table |-> t, ids |-> ids, column |-> column, value |-> value, add |-> add]

Increment == Update("item", {1}, 2, 1, TRUE)

DropTable(t, ifExists) == [op |-> "drop", table |-> t, ifExists |-> ifExists]

CreateTable(schema) == [op |-> "create", schema |-> schema]

InTransaction(stmt) == <<Statement("begin"), stmt, Statement("commit")>>

Scripts ==
    <<InTransaction(Increment), <<Increment>>, InTransaction(InsertLink(1, 1, Null, 7)),
      <<InsertCode(2, 7)>>, InTransaction(Delete("item", {1})), <<DropTable("link", FALSE)>>,
      <<Statement("begin read only"), Statement("select"), Statement("begin")>>>>

ScriptSet == ToSet(Scripts)

-----------------------------------------------------------------------------
(* The console.                                                            *)

ConsoleStatements ==
    {[op |-> "insert", table |-> "item", map |-> [i \in 1..2 |-> i], rows |-> <<<<1, 0>>, <<2, 0>>>>]}
    \cup {InsertLink(id, item, parent, Null) : id \in Ids, item \in {1, Null}, parent \in Ids}
    \cup {InsertCode(id, code) : id \in Ids, code \in Codes}
    \cup {Delete(t, ids) : t \in {"item", "link"}, ids \in SUBSET Ids}
    \cup {Update("link", ids, 1, id, FALSE) : ids \in {{1}, {2}, Ids}, id \in Ids}
    \cup {Update("item", {1}, 1, 2, FALSE)}
    \cup {Update("link", ids, 4, v, FALSE) : ids \in {{1}, Ids}, v \in Codes \cup {Null}}
    \cup {Update("link", {1}, 3, v, FALSE) : v \in Ids \cup {Null}}
    \cup {DropTable(t, e) : t \in {"item", "link"}, e \in BOOLEAN}
    \cup {CreateTable(Item)} \cup {CreateTable(Link(u, i)) : u, i \in BOOLEAN}

ConsoleResult(s) == Execute(Start(db, {}), Command(db, s))

\* An implicit transaction; it is rolled back if the statement is rejected.
ConsoleExecute(s) ==
    /\ ConsoleResult(s).error = "none"
    /\ db' = ConsoleResult(s).view

ConsoleNext ==
    /\ \E s \in ConsoleStatements : ConsoleExecute(s)
    /\ UNCHANGED <<status, snap, seen, wrote, past, script, client, session, late, owner,
                   forsaken, faults>>

-----------------------------------------------------------------------------
\* Two clients that get in each other's way: they increment the same counter, insert the
\* same code, refer to a row that is deleted, insert into a table that is dropped.
ScriptPairs == {<<Scripts[p[1]], Scripts[p[2]]>>
                : p \in {<<1, 1>>, <<1, 2>>, <<3, 4>>, <<3, 5>>, <<3, 6>>, <<4, 6>>}}

\* All the faults go to a client that increments beside one that reads.
Faulty == <<Scripts[1], Scripts[7]>>

ProgramsInit ==
    /\ WorkloadInit
    /\ \/ program \in {"workload", "console"} /\ script = Faulty /\ faults = 0
       \/ program = "clients" /\ script = Faulty /\ faults = MaxFaults
       \/ program = "clients" /\ script \in ScriptPairs /\ faults = 1
    /\ program # "workload" => settings = <<"LRU", MaxSize>>
    /\ SessionsInit

ProgramsNext ==
    /\ UNCHANGED program
    /\ \/ program = "workload" /\ WorkloadNext /\ UNCHANGED sessionVars
       \/ program = "console" /\ ConsoleNext /\ UNCHANGED workloadVars
       \/ program = "clients" /\ SessionsNext /\ UNCHANGED workloadVars

SessionsCanStep == program = "clients" /\ \E c \in Client : CanStep(c)

\* Each program's threads are scheduled; Raft answers, aborts or loses every request; the
\* clients have set a timeout on their sockets, as the workload does.
ProgramsSpec ==
    /\ ProgramsInit /\ [][ProgramsNext]_programVars
    /\ \A w \in Worker : WF_workloadVars(program = "workload" /\ Work(w))
    /\ []<>~SessionsCanStep \/ []<><<session' # session>>_session
    /\ \A c \in Client : WF_sessionVars(program = "clients" /\ Timeout(c))

-----------------------------------------------------------------------------
\* Every call of with_retry returns, though a session may wait for Raft for ever.
CallsReturn == <>(program = "clients" => \A c \in Client : Closed(c))

\* Every transaction ends in time: its session ends it, at the latest when the connection is
\* closed, also after statements that were aborted, answered late or timed out. There are
\* two exceptions, both because Raft::request waits without a timeout and is not repeated:
\* a transaction of which a begin, commit or rollback was aborted or lost (forsaken), and
\* one of which a statement was lost, which its hung session keeps open for ever, although
\* the client times out and closes the connection (HeldByHung).
TransactionsEnd == <>[](\A t \in Txn : Ended(t))
=============================================================================
