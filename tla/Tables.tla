------------------------------- MODULE Tables -------------------------------
(***************************************************************************)
(* SQL tables in the keys of a transaction: src/sql/engine/local.rs with   *)
(* the constraints of src/sql/types/schema.rs.  A view is what the         *)
(* transaction reads: a value, or Deleted, for each key.                   *)
(***************************************************************************)
EXTENDS Integers, FiniteSets, Sequences, SequencesExt

CONSTANTS
    Null, NaN,      \* Value::Null; Value::Float(f64::NAN); other values are integers
    NoTable,        \* a column references nothing
    Deleted         \* no value

TableKey(t)       == <<"table", t>>
RowKey(t, id)     == <<"row", t, id>>
IndexKey(t, c, v) == <<"index", t, c, v>>

IsUndefined(v) == v \in {Null, NaN}

DataType(v) == IF v = NaN THEN "FLOAT" ELSE "INTEGER"

PrimaryKey(table) == table.columns[table.primaryKey]

-----------------------------------------------------------------------------
(* Reads.                                                                  *)

GetTable(d, t) == IF TableKey(t) \in DOMAIN d THEN d[TableKey(t)] ELSE Deleted

ListTables(d) == {k[2] : k \in {key \in DOMAIN d : key[1] = "table" /\ d[key] # Deleted}}

GetRow(d, t, id) == IF RowKey(t, id) \in DOMAIN d THEN d[RowKey(t, id)] ELSE Deleted

HasRow(d, t, id) == GetRow(d, t, id) # Deleted

GetIndex(d, t, c, v) ==
    IF IndexKey(t, c, v) \notin DOMAIN d \/ d[IndexKey(t, c, v)] = Deleted THEN {}
    ELSE d[IndexKey(t, c, v)]

LookupIndex(d, t, c, values) == UNION {GetIndex(d, t, c, v) : v \in values}

\* The columns that reference a table.
TableReferences(d, t) ==
    UNION {{<<s, i>> : i \in {j \in DOMAIN GetTable(d, s).columns :
                                 GetTable(d, s).columns[j].references = t}}
           : s \in ListTables(d)}

-----------------------------------------------------------------------------
(* Table::validate and Table::validate_row.                                *)

ValidDefault(c) ==
    IF c.default = Deleted THEN ~c.nullable     \* no default
    ELSE IF c.default = Null THEN c.nullable
    ELSE DataType(c.default) = c.datatype

ValidReference(d, table, c) ==
    \/ c.references = NoTable
    \/ /\ c.references = table.name
       /\ c.datatype = PrimaryKey(table).datatype
    \/ /\ c.references # table.name /\ GetTable(d, c.references) # Deleted
       /\ c.datatype = PrimaryKey(GetTable(d, c.references)).datatype

Validate(d, table) ==
    /\ table.primaryKey \in DOMAIN table.columns
    /\ \A i \in DOMAIN table.columns :
          LET c == table.columns[i]
          IN  /\ i = table.primaryKey => ~c.nullable /\ c.unique /\ ~c.index
              /\ ValidDefault(c)
              /\ (c.unique \/ c.references # NoTable) /\ i # table.primaryKey => c.index
              /\ ValidReference(d, table, c)

ValidColumn(d, table, row, update, i) ==
    LET c  == table.columns[i]
        v  == row[i]
        id == row[table.primaryKey]
        same == LookupIndex(d, table.name, i, {v}) \ (IF update THEN {id} ELSE {})
    IN  /\ v # Null => DataType(v) = c.datatype
        /\ v = Null => c.nullable
        /\ c.references # NoTable =>
              \/ v = Null
              \/ c.references = table.name /\ v = id
              \/ HasRow(d, c.references, v)
        /\ c.unique /\ i # table.primaryKey /\ ~IsUndefined(v) => same = {}

ValidateRow(d, table, row, update) ==
    /\ Len(row) = Len(table.columns)
    /\ ~IsUndefined(row[table.primaryKey])
    /\ ~update => ~HasRow(d, table.name, row[table.primaryKey])
    /\ \A i \in DOMAIN row : ValidColumn(d, table, row, update, i)

-----------------------------------------------------------------------------
(* Statements.  An execution has the view with the writes so far, the keys *)
(* that were written, and the error that has ended it.                     *)

\* conflicts: the keys that another transaction has written.
Start(view, conflicts) ==
    [view |-> view, wrote |-> {}, conflicts |-> conflicts, error |-> "none"]

Failed(x) == x.error # "none"

Invalid(x) == [x EXCEPT !.error = "InvalidInput"]

\* Transaction::set and delete.
Put(x, key, value) ==
    IF Failed(x) THEN x
    ELSE IF key \in x.conflicts THEN [x EXCEPT !.error = "Serialization"]
    ELSE [x EXCEPT !.view = (key :> value) @@ @, !.wrote = @ \cup {key}]

SetIndex(x, t, c, v, ids) == Put(x, IndexKey(t, c, v), IF ids = {} THEN Deleted ELSE ids)

AddToIndex(x, t, c, v, id)      == SetIndex(x, t, c, v, GetIndex(x.view, t, c, v) \cup {id})
RemoveFromIndex(x, t, c, v, id) == SetIndex(x, t, c, v, GetIndex(x.view, t, c, v) \ {id})

\* The columns with an index, in order.
Indexes(table) == SelectSeq([i \in DOMAIN table.columns |-> i], LAMBDA i : table.columns[i].index)

InsertNewRow(x, table, row) ==
    LET id  == row[table.primaryKey]
        add(y, i) == AddToIndex(y, table.name, i, row[i], id)
    IN  IF Failed(x) THEN x
        ELSE IF ~ValidateRow(x.view, table, row, FALSE) THEN Invalid(x)
        ELSE FoldLeft(add, Put(x, RowKey(table.name, id), row), Indexes(table))

ExecInsert(x, t, rows) ==
    LET table == GetTable(x.view, t)
    IN  IF table = Deleted THEN Invalid(x)
        ELSE FoldLeft(LAMBDA y, row : InsertNewRow(y, table, row), x, rows)

\* The rows that reference those with the given ids.  References between the deleted
\* rows do not count.
ReferencedBy(d, t, ids) ==
    UNION {(IF ref[2] = GetTable(d, ref[1]).primaryKey
            THEN {id \in ids : HasRow(d, ref[1], id)}
            ELSE LookupIndex(d, ref[1], ref[2], ids))
               \ (IF ref[1] = t THEN ids ELSE {})
           : ref \in TableReferences(d, t)}

DeleteRow(x, table, id) ==
    LET row == GetRow(x.view, table.name, id)
        remove(y, i) == RemoveFromIndex(y, table.name, i, row[i], id)
        unindexed == IF row = Deleted THEN x ELSE FoldLeft(remove, x, Indexes(table))
    IN  Put(unindexed, RowKey(table.name, id), Deleted)

ExecDelete(x, t, ids) ==
    LET table == GetTable(x.view, t)
    IN  IF Failed(x) THEN x
        ELSE IF table = Deleted \/ ReferencedBy(x.view, t, ToSet(ids)) # {} THEN Invalid(x)
        ELSE FoldLeft(LAMBDA y, id : DeleteRow(y, table, id), x, ids)

UpdateRow(x, table, id, row) ==
    LET t   == table.name
        old == GetRow(x.view, t, id)
        move(y, i) == IF old[i] = row[i] THEN y
                      ELSE AddToIndex(RemoveFromIndex(y, t, i, old[i], id), t, i, row[i], id)
    IN  IF Failed(x) THEN x
        ELSE IF id # row[table.primaryKey]
        THEN LET deleted == ExecDelete(x, t, <<id>>)
             IN  IF Failed(deleted) THEN deleted ELSE ExecInsert(deleted, t, <<row>>)
        ELSE IF ~ValidateRow(x.view, table, row, TRUE) THEN Invalid(x)
        ELSE Put(FoldLeft(move, x, Indexes(table)), RowKey(t, id), row)

\* rows: pairs of a primary key and the row that replaces the one that has it, in the
\* order of the keys.
ExecUpdate(x, t, rows) ==
    LET table == GetTable(x.view, t)
    IN  IF table = Deleted THEN Invalid(x)
        ELSE FoldLeft(LAMBDA y, r : UpdateRow(y, table, r[1], r[2]), x, rows)

ExecCreateTable(x, table) ==
    IF GetTable(x.view, table.name) # Deleted \/ ~Validate(x.view, table) THEN Invalid(x)
    ELSE Put(x, TableKey(table.name), table)

\* The keys of a table's rows, then those of the entries of its indexes.
TableKeys(d, t) ==
    LET indexes == ToSet(Indexes(GetTable(d, t)))
        live    == {k \in DOMAIN d : k[1] # "table" /\ k[2] = t /\ d[k] # Deleted}
    IN  SetToSeq({k \in live : k[1] = "row"})
            \o SetToSeq({k \in live : k[1] = "index" /\ k[3] \in indexes})

\* References from other tables keep it.
ExecDropTable(x, t, ifExists) ==
    IF GetTable(x.view, t) = Deleted THEN IF ifExists THEN x ELSE Invalid(x)
    ELSE IF \E ref \in TableReferences(x.view, t) : ref[1] # t THEN Invalid(x)
    ELSE FoldLeft(LAMBDA y, k : Put(y, k, Deleted), Put(x, TableKey(t), Deleted),
                  TableKeys(x.view, t))

-----------------------------------------------------------------------------
(* The executor: a statement reads rows and submits a write.               *)

\* Executor::insert completes a row: map gives the value for each column that the
\* statement names, or all of the first ones.
CompleteRow(table, map, values) ==
    [i \in DOMAIN table.columns |->
        IF i \in DOMAIN map THEN values[map[i]] ELSE table.columns[i].default]

IsComplete(table, map, values) ==
    /\ Len(values) <= Len(table.columns) /\ Cardinality(DOMAIN map) = Len(values)
    /\ \A i \in DOMAIN table.columns \ DOMAIN map : table.columns[i].default # Deleted

\* The rows of a table with the given ids, in the order of the scan.
Matching(d, t, ids) == SetToSortSeq({id \in ids : HasRow(d, t, id)}, <)

\* Executor::update evaluates the expression on each row: a new value, or the old one
\* plus a number.
Updated(row, s) == [row EXCEPT ![s.column] = IF ~s.add THEN s.value
                                                 ELSE IF @ = Null THEN Null ELSE @ + s.value]

\* The write command that a statement submits in a transaction that reads d.
Command(d, s) ==
    CASE s.op \in {"create", "drop"} -> s
      [] s.op \in {"insert", "update", "delete"} /\ GetTable(d, s.table) = Deleted ->
            [op |-> "invalid"]
      [] OTHER ->
            LET table == GetTable(d, s.table)
                ids   == IF s.op = "insert" THEN <<>> ELSE Matching(d, s.table, s.ids)
            IN  CASE s.op = "delete" -> [op |-> "delete", table |-> s.table, ids |-> ids]
                  [] s.op = "update" ->
                        [op |-> "update", table |-> s.table,
                         rows |-> [i \in DOMAIN ids |->
                                      <<ids[i], Updated(GetRow(d, s.table, ids[i]), s)>>]]
                  [] s.op = "insert" ->
                        IF \E i \in DOMAIN s.rows : ~IsComplete(table, s.map, s.rows[i])
                        THEN [op |-> "invalid"]
                        ELSE [op |-> "insert", table |-> s.table,
                              rows |-> [i \in DOMAIN s.rows |->
                                           CompleteRow(table, s.map, s.rows[i])]]

\* State::write applies it.
Execute(x, c) ==
    CASE c.op = "invalid" -> Invalid(x)
      [] c.op = "insert"  -> ExecInsert(x, c.table, c.rows)
      [] c.op = "delete"  -> ExecDelete(x, c.table, c.ids)
      [] c.op = "update"  -> ExecUpdate(x, c.table, c.rows)
      [] c.op = "create"  -> ExecCreateTable(x, c.schema)
      [] c.op = "drop"    -> ExecDropTable(x, c.table, c.ifExists)

-----------------------------------------------------------------------------
(* The constraints that the tables of a database are to meet.              *)

RowIds(d, t) == {k[3] : k \in {key \in DOMAIN d : key[1] = "row" /\ key[2] = t /\ d[key] # Deleted}}

\* Every index entry holds the rows with its value.
IndexesAreExact(d) ==
    /\ \A k \in DOMAIN d : k[1] = "index" =>
          GetIndex(d, k[2], k[3], k[4]) \subseteq
              {id \in RowIds(d, k[2]) : GetRow(d, k[2], id)[k[3]] = k[4]}
    /\ \A t \in ListTables(d) :
          \A i \in ToSet(Indexes(GetTable(d, t))), id \in RowIds(d, t) :
              id \in GetIndex(d, t, i, GetRow(d, t, id)[i])

\* No two rows have the same value in a unique column.
UniqueColumnsHold(d) ==
    \A t \in ListTables(d) : \A i \in DOMAIN GetTable(d, t).columns :
        GetTable(d, t).columns[i].unique =>
            \A a, b \in RowIds(d, t) :
                /\ a # b /\ ~IsUndefined(GetRow(d, t, a)[i])
                => GetRow(d, t, a)[i] # GetRow(d, t, b)[i]

\* Rows of missing tables, each with the table's key.
WithoutTable(d) ==
    {<<k, TableKey(k[2])>> : k \in {key \in DOMAIN d :
        key[1] = "row" /\ d[key] # Deleted /\ GetTable(d, key[2]) = Deleted}}

\* The key of the row that a row's column refers to.
Target(d, t, id, i) == RowKey(GetTable(d, t).columns[i].references, GetRow(d, t, id)[i])

\* Rows that refer to missing rows, each with the missing row's key.
WithoutTarget(d, t) ==
    LET refs == {i \in DOMAIN GetTable(d, t).columns :
                    GetTable(d, t).columns[i].references # NoTable}
    IN  {<<RowKey(t, p[1]), Target(d, t, p[1], p[2])>>
         : p \in {q \in RowIds(d, t) \X refs :
                     /\ GetRow(d, t, q[1])[q[2]] # Null
                     /\ \/ Target(d, t, q[1], q[2]) \notin DOMAIN d
                        \/ d[Target(d, t, q[1], q[2])] = Deleted}}

Dangling(d) == WithoutTable(d) \cup UNION {WithoutTarget(d, t) : t \in ListTables(d)}
=============================================================================
