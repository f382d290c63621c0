------------------------------ MODULE SqlPlan ------------------------------
(***************************************************************************)
(* Queries on the table of SqlState: expressions (src/sql/types/           *)
(* expression.rs), plan nodes (src/sql/planner/plan.rs), the planner that  *)
(* builds them (planner.rs), the five optimizers that rewrite them         *)
(* (optimizer.rs) and their execution (src/sql/execution/).                *)
(*                                                                         *)
(* Column 1 is the primary key, column 2 the indexed column, of the same   *)
(* type; Rust counts them from 0.  Of the operators there are those that   *)
(* the optimizers tell apart: arithmetic, ordering and LIKE are evaluated  *)
(* in the same way in every plan.  Expressions are well typed, so none     *)
(* fails.  An expression is a constant, a column or an operator with its   *)
(* arguments.                                                              *)
(***************************************************************************)
EXTENDS SqlState, SequencesExt

CONSTANTS
    Null,       \* Value::Null
    None        \* no predicate

Constant(v) == [op |-> "Constant", value |-> v]
Column(i)   == [op |-> "Column", index |-> i]
And(x, y)   == [op |-> "And", args |-> <<x, y>>]
Or(x, y)    == [op |-> "Or", args |-> <<x, y>>]
Not(x)      == [op |-> "Not", args |-> <<x>>]
Equal(x, y) == [op |-> "Equal", args |-> <<x, y>>]
IsNull(x)   == [op |-> "Is", args |-> <<x>>]

IsLeaf(e) == e.op \in {"Constant", "Column"}

-----------------------------------------------------------------------------
(* Expressions.                                                            *)

\* NULL AND FALSE is FALSE, and NULL OR TRUE is TRUE.
EvalAnd(v) == IF FALSE \in ToSet(v) THEN FALSE
              ELSE IF Null \in ToSet(v) THEN Null ELSE TRUE
EvalOr(v)  == IF TRUE \in ToSet(v) THEN TRUE
              ELSE IF Null \in ToSet(v) THEN Null ELSE FALSE

RECURSIVE Evaluate(_, _)
Evaluate(e, row) ==
    IF e.op = "Constant" THEN e.value
    ELSE IF e.op = "Column" THEN row[e.index]
    ELSE LET v == [i \in DOMAIN e.args |-> Evaluate(e.args[i], row)]
         IN  CASE e.op = "And"   -> EvalAnd(v)
               [] e.op = "Or"    -> EvalOr(v)
               [] e.op = "Not"   -> IF v[1] = Null THEN Null ELSE ~v[1]
               [] e.op = "Equal" -> IF Null \in ToSet(v) THEN Null ELSE v[1] = v[2]
               [] e.op = "Is"    -> v[1] = Null

RECURSIVE Columns(_)
Columns(e) ==
    IF IsLeaf(e) THEN IF e.op = "Column" THEN {e.index} ELSE {}
    ELSE UNION {Columns(e.args[i]) : i \in DOMAIN e.args}

\* ConstantFolding::fold.
Fold(e) ==
    LET absorbing == e.op = "Or"        \* x OR TRUE, x AND FALSE
        has(v)    == \E i \in 1..2 : e.args[i] = Constant(v)
    IN  IF Columns(e) = {} THEN Constant(Evaluate(e, <<>>))
        ELSE IF e.op \notin {"And", "Or"} THEN e
        ELSE IF has(absorbing) THEN Constant(absorbing)
        ELSE IF has(~absorbing)
             THEN e.args[IF e.args[1] = Constant(~absorbing) THEN 2 ELSE 1]
        ELSE e

\* into_nnf: De Morgan's laws, one step.
NnfStep(e) ==
    IF e.op # "Not" THEN e
    ELSE LET x == e.args[1]
         IN  CASE x.op = "And" -> Or(Not(x.args[1]), Not(x.args[2]))
               [] x.op = "Or"  -> And(Not(x.args[1]), Not(x.args[2]))
               [] x.op = "Not" -> x.args[1]
               [] OTHER        -> e

\* into_cnf: the distributive law, one step.
CnfStep(e) ==
    IF e.op # "Or" THEN e
    ELSE LET x == e.args[1]
             y == e.args[2]
         IN  CASE x.op = "And" -> And(Or(x.args[1], y), Or(x.args[2], y))
               [] y.op = "And" -> And(Or(x, y.args[1]), Or(x, y.args[2]))
               [] OTHER        -> e

\* What a rule does to an expression before its arguments.
StepInto(rule, e) ==
    CASE rule.step = "nnf" -> NnfStep(e)
      [] rule.step = "cnf" -> CnfStep(e)
      [] rule.step = "map" /\ e.op = "Column" -> Column(rule.to[e.index])
      [] OTHER -> e

\* Expression::transform: a step before the arguments, and folding after them.
RECURSIVE Transform(_, _)
TransformArgs(rule, e) ==
    IF IsLeaf(e) THEN e
    ELSE [e EXCEPT !.args = [i \in DOMAIN e.args |-> Transform(rule, e.args[i])]]
Transform(rule, e) ==
    IF rule.step = "fold" THEN Fold(TransformArgs(rule, e))
    ELSE TransformArgs(rule, StepInto(rule, e))

Step(s) == [step |-> s]
MapColumns(e, f) == Transform([step |-> "map", to |-> f], e)
ReplaceColumn(e, from, to) ==
    MapColumns(e, [c \in Columns(e) |-> IF c = from THEN to ELSE c])
ShiftColumn(e, diff) == MapColumns(e, [c \in Columns(e) |-> c + diff])

RECURSIVE Conjuncts(_)
Conjuncts(e) ==
    IF e.op = "And" THEN Conjuncts(e.args[1]) \o Conjuncts(e.args[2]) ELSE <<e>>

IntoCnfVec(e) == Conjuncts(Transform(Step("cnf"), Transform(Step("nnf"), e)))

AndVec(es) ==
    LET and[i \in DOMAIN es] == IF i = 1 THEN es[1] ELSE And(and[i - 1], es[i])
    IN  IF es = <<>> THEN None ELSE and[Len(es)]

\* is_column_lookup: the column that the expression looks up, 0 if it is no lookup.
RECURSIVE LookupColumn(_)
LookupColumn(e) ==
    CASE e.op = "Equal" ->
            IF {e.args[1].op, e.args[2].op} = {"Column", "Constant"}
            THEN CHOOSE c \in Columns(e) : TRUE ELSE 0
      [] e.op = "Is" -> IF e.args[1].op = "Column" THEN e.args[1].index ELSE 0
      [] e.op = "Or" -> IF LookupColumn(e.args[1]) = LookupColumn(e.args[2])
                        THEN LookupColumn(e.args[1]) ELSE 0
      [] OTHER -> 0

\* Mutant: = NULL is looked up like IS NULL.
EqualValuesWithNull(v) == <<v>>

\* = NULL matches nothing.
EqualValues(v) == IF v = Null THEN <<>> ELSE <<v>>

\* into_column_values.
RECURSIVE ColumnValues(_)
ColumnValues(e) ==
    CASE e.op = "Equal" ->
            EqualValues(e.args[IF e.args[1].op = "Constant" THEN 1 ELSE 2].value)
      [] e.op = "Is" -> <<Null>>
      [] e.op = "Or" -> ColumnValues(e.args[1]) \o ColumnValues(e.args[2])

-----------------------------------------------------------------------------
(* Plan nodes.  The filter of a scan is its predicate.                     *)

Scan(p) == [node |-> "Scan", predicate |-> p]
Filter(n, p) == [node |-> "Filter", source |-> n, predicate |-> p]
Join(l, r, p, outer) ==
    [node |-> "NestedLoopJoin", left |-> l, right |-> r, predicate |-> p, outer |-> outer]
HashJoin(l, lc, r, rc, outer) ==
    [node |-> "HashJoin", left |-> l, leftColumn |-> lc, right |-> r, rightColumn |-> rc,
     outer |-> outer]
KeyLookup(keys) == [node |-> "KeyLookup", keys |-> keys]
IndexLookup(values) == [node |-> "IndexLookup", keys |-> values]
Projection(n, es) == [node |-> "Projection", source |-> n, expressions |-> es]
Aggregate(n, groupBy, es) ==        \* COUNT of each of es
    [node |-> "Aggregate", source |-> n, groupBy |-> groupBy, aggregates |-> es]
Limit(n, k) == [node |-> "Limit", source |-> n, limit |-> k]
Offset(n, k) == [node |-> "Offset", source |-> n, offset |-> k]
Remap(n, targets) == [node |-> "Remap", source |-> n, targets |-> targets]
Nothing(k) == [node |-> "Nothing", columns |-> k]

RECURSIVE NumColumns(_)
NumColumns(n) ==
    CASE n.node \in {"Scan", "KeyLookup", "IndexLookup"} -> 2
      [] n.node \in {"NestedLoopJoin", "HashJoin"} -> NumColumns(n.left) + NumColumns(n.right)
      [] n.node = "Nothing" -> n.columns
      [] n.node = "Remap" -> Len(n.targets)
      [] n.node = "Projection" -> Len(n.expressions)
      [] n.node = "Aggregate" -> Len(n.groupBy) + Len(n.aggregates)
      [] OTHER -> NumColumns(n.source)

-----------------------------------------------------------------------------
(* The planner.  Names are resolved: a column of a FROM item is its place  *)
(* in the item as it is written.                                           *)

TableItem == [type |-> "Table"]
JoinItem(type, l, r, on) == [type |-> type, left |-> l, right |-> r, on |-> on]

\* Columns 1..k + m with the first k of them moved behind the others.
Rotation(k, m) == [i \in 1..k + m |-> ((i - 1 + m) % (k + m)) + 1]

\* Planner::build_from.  A right join is a left join of the swapped sources, in
\* whose columns the predicate is resolved and whose columns are swapped back.
RECURSIVE BuildFrom(_)
BuildFrom(item) ==
    IF item.type = "Table" THEN Scan(None)
    ELSE LET l == BuildFrom(item.left)
             r == BuildFrom(item.right)
             swapped == Rotation(NumColumns(l), NumColumns(r))
         IN  IF item.type = "Right"
             THEN Remap(Join(r, l, MapColumns(item.on, swapped), TRUE),
                        Rotation(NumColumns(r), NumColumns(l)))
             ELSE Join(l, r, item.on, item.type = "Left")

\* Planner::build_from_clause: the items are joined.
BuildFromClause(items) ==
    LET node[i \in DOMAIN items] ==
            IF i = 1 THEN BuildFrom(items[1])
            ELSE Join(node[i - 1], BuildFrom(items[i]), None, FALSE)
    IN  node[Len(items)]

\* Planner::build_aggregate, if there is anything to aggregate.
BuildAggregate(n, groupBy, aggregates) ==
    IF groupBy = <<>> /\ aggregates = <<>> THEN n ELSE Aggregate(n, groupBy, aggregates)

\* Planner::build_select.
BuildSelect(s) ==
    LET from     == BuildFromClause(s.from)
        where    == IF s.where = None THEN from ELSE Filter(from, s.where)
        grouped  == BuildAggregate(where, s.groupBy, s.aggregates)
        selected == IF s.select = None THEN grouped ELSE Projection(grouped, s.select)
        having   == IF s.having = None THEN selected ELSE Filter(selected, s.having)
        offset   == IF s.offset = None THEN having ELSE Offset(having, s.offset)
    IN  IF s.limit = None THEN offset ELSE Limit(offset, s.limit)

\* Planner::build_delete, build_update: the rows to change are a scan with a filter.
BuildDelete(where) == Scan(where)

-----------------------------------------------------------------------------
(* Optimizers.                                                             *)

HasPredicate(n) == n.node \in {"Filter", "NestedLoopJoin", "Scan"}

\* Node::transform_expressions.
FoldNode(n) ==
    LET fold(e) == Transform(Step("fold"), e)
    IN  IF n.node = "Projection"
        THEN [n EXCEPT !.expressions = [i \in DOMAIN n.expressions |-> fold(n.expressions[i])]]
        ELSE IF HasPredicate(n) /\ n.predicate # None
        THEN [n EXCEPT !.predicate = fold(n.predicate)]
        ELSE n

\* FilterPushdown::push_into: the node with e, or None if it takes no predicate.
PushInto(e, n) ==
    IF HasPredicate(n)
    THEN [n EXCEPT !.predicate = IF @ = None THEN e ELSE And(e, @)] ELSE None

\* The last of es that looks up column c, as an empty or a one-element sequence.
LookupOf(es, c) ==
    LET found == SelectSeq(es, LAMBDA e : LookupColumn(e) = c)
    IN  IF found = <<>> THEN <<>> ELSE <<Last(found)>>

\* The conjuncts of a join's predicate that the left source of k columns can take,
\* those that the right one can take, and the others.
ForLeft(es, k)  == SelectSeq(es, LAMBDA e : \A c \in Columns(e) : c <= k)
ForRight(es, k) == SelectSeq(es, LAMBDA e : \A c \in Columns(e) : c > k)
ForBoth(es, k)  == SelectSeq(es, LAMBDA e : (\E c \in Columns(e) : c <= k)
                                            /\ (\E c \in Columns(e) : c > k))

\* Lookups of column "from" of an equijoin, copied to column "to".
CopiedLookup(es, from, to) ==
    LET found == LookupOf(es, from)
    IN  [i \in DOMAIN found |-> ReplaceColumn(found[i], from, to)]

\* The columns of an equijoin: that of the left source, and that of the right one.
LeftColumn(e)  == IF e.args[1].index < e.args[2].index THEN e.args[1].index ELSE e.args[2].index
RightColumn(e) == IF e.args[1].index < e.args[2].index THEN e.args[2].index ELSE e.args[1].index

IsEquijoin(e) == e.op = "Equal" /\ e.args[1].op = "Column" /\ e.args[2].op = "Column"

\* The join after pushing l and r, if any, into its sources, or else keeping them.
PushSides(n, l, r, forBoth) ==
    LET pushed(e, source, diff) ==
            IF e = None THEN source ELSE PushInto(ShiftColumn(e, diff), source)
        left  == pushed(l, n.left, 0)
        right == pushed(r, n.right, -NumColumns(n.left))
    IN  [n EXCEPT !.left = IF left = None THEN @ ELSE left,
                  !.right = IF right = None THEN @ ELSE right,
                  !.predicate = AndVec(forBoth \o (IF left = None THEN <<l>> ELSE <<>>)
                                               \o (IF right = None THEN <<r>> ELSE <<>>))]

\* Lookups of the columns of equijoins are copied to the other source.
PushCopied(n, forLeft, forRight, forBoth, equijoins) ==
    PushSides(n,
        AndVec(forLeft \o FlattenSeq([i \in DOMAIN equijoins |->
            CopiedLookup(forRight, RightColumn(equijoins[i]), LeftColumn(equijoins[i]))])),
        AndVec(forRight \o FlattenSeq([i \in DOMAIN equijoins |->
            CopiedLookup(forLeft, LeftColumn(equijoins[i]), RightColumn(equijoins[i]))])),
        forBoth)

\* FilterPushdown::maybe_push_join.
PushConjuncts(n, cnf, k) ==
    PushCopied(n, ForLeft(cnf, k), ForRight(cnf, k), ForBoth(cnf, k),
               SelectSeq(ForBoth(cnf, k), IsEquijoin))
PushJoin(n) ==
    IF n.node # "NestedLoopJoin" \/ n.predicate = None THEN n
    ELSE PushConjuncts(n, IntoCnfVec(n.predicate), NumColumns(n.left))

\* FilterPushdown::push_filters.
RECURSIVE PushFilters(_)
PushFilters(n) ==
    PushJoin(IF n.node = "Filter" /\ HasPredicate(n.source)
             THEN PushFilters(PushInto(n.predicate, n.source)) ELSE n)

\* The scan's conjunct i becomes a lookup, and the others a filter on its rows.
LookupBy(cnf, i) ==
    LET keys  == ColumnValues(cnf[i])
        found == IF LookupColumn(cnf[i]) = 1 THEN KeyLookup(keys) ELSE IndexLookup(keys)
    IN  IF Len(cnf) = 1 THEN found ELSE Filter(found, AndVec(RemoveAt(cnf, i)))

\* IndexLookup::index_lookup: the first lookup, of the key or of the indexed column.
LookupFirst(n, cnf, lookups) ==
    IF lookups = {} THEN n
    ELSE LookupBy(cnf, CHOOSE i \in lookups : \A j \in lookups : i <= j)
LookupConjunct(n, cnf) == LookupFirst(n, cnf, {i \in DOMAIN cnf : LookupColumn(cnf[i]) # 0})
LookupScan(n) ==
    IF n.node # "Scan" \/ n.predicate = None THEN n
    ELSE LookupConjunct(n, IntoCnfVec(n.predicate))

\* HashJoin::hash_join.
UseHashJoin(n) ==
    IF n.node # "NestedLoopJoin" \/ n.predicate = None THEN n
    ELSE IF ~IsEquijoin(n.predicate) THEN n
    ELSE LET a == n.predicate.args[1].index
             b == n.predicate.args[2].index
             k == NumColumns(n.left)
         IN  IF a < b THEN HashJoin(n.left, a, n.right, b - k, n.outer)
             ELSE HashJoin(n.left, b, n.right, a - k, n.outer)

IsNoop(n) ==
    /\ n.node = "Projection" /\ NumColumns(n.source) = Len(n.expressions)
    /\ \A i \in DOMAIN n.expressions : n.expressions[i] = Column(i)

\* The sources without which a node yields nothing; not those of an aggregate,
\* and that of a LIMIT is not looked at.
Pulled(n) ==
    IF "left" \in DOMAIN n THEN {n.left, n.right}
    ELSE IF n.node \in {"Filter", "Offset", "Projection"} THEN {n.source} ELSE {}

\* Nodes and predicates that change nothing are removed.
WithoutUseless(n) ==
    IF HasPredicate(n) /\ n.predicate = Constant(TRUE)
    THEN IF n.node = "Filter" THEN n.source ELSE [n EXCEPT !.predicate = None]
    ELSE IF IsNoop(n) THEN n.source ELSE n

YieldsNothing(n) ==
    \/ HasPredicate(n) /\ n.predicate \in {Constant(FALSE), Constant(Null)}
    \/ n.node \in {"KeyLookup", "IndexLookup"} /\ n.keys = <<>>
    \/ n.node = "Limit" /\ n.limit = 0
    \/ \E s \in Pulled(n) : s.node = "Nothing"

WithoutEmpty(n) == IF YieldsNothing(n) THEN Nothing(NumColumns(n)) ELSE n

\* What an optimizer does to a node before its sources.
Rewrite(optimizer, n) ==
    CASE optimizer = "ConstantFolding" -> FoldNode(n)
      [] optimizer = "FilterPushdown"  -> PushFilters(n)
      [] optimizer = "IndexLookup"     -> LookupScan(n)
      [] optimizer = "HashJoin"        -> UseHashJoin(n)
      [] optimizer = "ShortCircuit"    -> n

\* Node::transform.  ShortCircuit::short_circuit works after the sources.
RECURSIVE TransformNode(_, _)
TransformSources(optimizer, n) ==
    CASE "source" \in DOMAIN n -> [n EXCEPT !.source = TransformNode(optimizer, @)]
      [] "left" \in DOMAIN n -> [n EXCEPT !.left = TransformNode(optimizer, @),
                                          !.right = TransformNode(optimizer, @)]
      [] OTHER -> n
TransformNode(optimizer, n) ==
    IF optimizer = "ShortCircuit"
    THEN WithoutEmpty(WithoutUseless(TransformSources(optimizer, n)))
    ELSE TransformSources(optimizer, Rewrite(optimizer, n))

OPTIMIZERS == <<"ConstantFolding", "FilterPushdown", "IndexLookup", "HashJoin", "ShortCircuit">>

\* Plan::optimize.
Optimize(n) ==
    LET after[i \in 0..Len(OPTIMIZERS)] ==
            IF i = 0 THEN n ELSE TransformNode(OPTIMIZERS[i], after[i - 1])
    IN  after[Len(OPTIMIZERS)]

-----------------------------------------------------------------------------
(* Execution, on the rows and the index entries that a transaction reads.  *)

Table == [rows : [Id -> Val \cup {Deleted}], index : [Val -> SUBSET Id]]

IdOrder == SetToSeq(Id)

\* Transaction::get: the rows of those ids that exist.
GetRows(table, ids) ==
    LET exist == SelectSeq(ids, LAMBDA id : id \in Id /\ table.rows[id] # Deleted)
    IN  [i \in DOMAIN exist |-> <<exist[i], table.rows[exist[i]]>>]

\* A predicate that is not TRUE, NULL too, discards the row.
Passing(rows, p) ==
    IF p = None THEN rows ELSE SelectSeq(rows, LAMBDA row : Evaluate(p, row) = TRUE)

\* A left row with its matches, or with NULLs in an outer join that has none.
JoinRow(l, matches, n) ==
    IF matches = <<>> /\ n.outer THEN <<l \o [i \in 1..NumColumns(n.right) |-> Null]>>
    ELSE [i \in DOMAIN matches |-> l \o matches[i]]

\* HashJoiner leaves NULLs out of its hash map.
HashMatches(n, l, rights) ==
    SelectSeq(rights, LAMBDA r : r[n.rightColumn] # Null
                                 /\ r[n.rightColumn] = l[n.leftColumn])

LoopMatches(n, l, rights) ==
    SelectSeq(rights, LAMBDA r : n.predicate = None \/ Evaluate(n.predicate, l \o r) = TRUE)

\* Aggregator: a row per bucket, or one row if there is no GROUP BY.  COUNT does
\* not count NULLs.
AggregateRows(n, rows) ==
    LET values(es, row) == [i \in DOMAIN es |-> Evaluate(es[i], row)]
        count(b, e) == Len(SelectSeq(rows, LAMBDA row : /\ values(n.groupBy, row) = b
                                                        /\ Evaluate(e, row) # Null))
        buckets == IF rows = <<>> /\ n.groupBy = <<>> THEN {<<>>}
                   ELSE {values(n.groupBy, rows[i]) : i \in DOMAIN rows}
    IN  SetToSeq({b \o [i \in DOMAIN n.aggregates |-> count(b, n.aggregates[i])] : b \in buckets})

\* Executor::execute_node.
RECURSIVE Execute(_, _)
Execute(n, table) ==
    LET source == Execute(n.source, table)
        lefts  == Execute(n.left, table)
        rights == Execute(n.right, table)
    IN  CASE n.node = "Scan" -> Passing(GetRows(table, IdOrder), n.predicate)
          [] n.node = "KeyLookup" -> GetRows(table, n.keys)
          [] n.node = "IndexLookup" ->
                LET ids == UNION {table.index[v] : v \in ToSet(n.keys) \cap Val}
                IN  GetRows(table, SelectSeq(IdOrder, LAMBDA id : id \in ids))
          [] n.node = "Filter" -> Passing(source, n.predicate)
          [] n.node = "NestedLoopJoin" ->
                FlattenSeq([i \in DOMAIN lefts |->
                    JoinRow(lefts[i], LoopMatches(n, lefts[i], rights), n)])
          [] n.node = "HashJoin" ->
                FlattenSeq([i \in DOMAIN lefts |->
                    JoinRow(lefts[i], HashMatches(n, lefts[i], rights), n)])
          [] n.node = "Projection" ->
                [i \in DOMAIN source |->
                    [j \in DOMAIN n.expressions |-> Evaluate(n.expressions[j], source[i])]]
          [] n.node = "Aggregate" -> AggregateRows(n, source)
          [] n.node = "Limit" -> SubSeq(source, 1, IF n.limit < Len(source) THEN n.limit ELSE Len(source))
          [] n.node = "Offset" -> SubSeq(source, n.offset + 1, Len(source))
          [] n.node = "Remap" ->
                [i \in DOMAIN source |-> [j \in DOMAIN n.targets |->
                    source[i][CHOOSE k \in DOMAIN n.targets : n.targets[k] = j]]]
          [] n.node = "Nothing" -> <<>>

-----------------------------------------------------------------------------
(* The queries looked at.                                                  *)

\* Comparisons of the columns of a table at c and c + 1, and constants.
Atoms(c) ==
    {Equal(Column(c), Constant(id)) : id \in Id}
        \cup {Equal(Constant(v), Column(c + 1)) : v \in Val}
        \cup {IsNull(Column(c + 1)), Equal(Column(c), Column(c + 1))}
        \cup {Constant(TRUE), Constant(FALSE), Constant(Null)}

\* Conjunctions and disjunctions of two of them, and their negations.  (That of
\* an atom with itself is left out: see RepeatingQueries.)
Pairs(c) ==
    LET pairs == {p \in Atoms(c) \X Atoms(c) : p[1] # p[2]}
    IN  {And(p[1], p[2]) : p \in pairs} \cup {Or(p[1], p[2]) : p \in pairs}

Predicates == Atoms(1) \cup Pairs(1) \cup {Not(e) : e \in Atoms(1) \cup Pairs(1)}

\* Equijoins of the table with itself, in either order of the columns.
Equijoins ==
    {Equal(Column(1), Column(3)), Equal(Column(4), Column(2)), Equal(Column(2), Column(3)),
     Equal(Column(4), Column(1))}

JoinPredicates ==
    Equijoins \cup {And(e, a) : e \in Equijoins, a \in Atoms(1) \cup Atoms(3)}
              \cup {Or(IsNull(Column(2)), e) : e \in Equijoins}

\* SELECT * of one table or of two.
Plain == [from |-> <<TableItem>>, where |-> None, groupBy |-> <<>>, aggregates |-> <<>>,
          select |-> None, having |-> None, offset |-> None, limit |-> None]
Joined(type, on) == [Plain EXCEPT !.from = <<JoinItem(type, TableItem, TableItem, on)>>]
Crossed == [Plain EXCEPT !.from = <<TableItem, TableItem>>]

\* COUNT(value), COUNT(*) by nothing or by value, and one of these columns.
Counted(groupBy, column) ==
    [Plain EXCEPT !.groupBy = groupBy, !.aggregates = <<Column(2), Constant(TRUE)>>,
                  !.select = <<Column(Len(groupBy) + 1), Column(column)>>]

\* The SELECT statements, each for every WHERE clause of a set.  (A left join only
\* has a bare equijoin: see OuterQueries.)
Selects ==
    LET Where(s, ps) == {[s EXCEPT !.where = p] : p \in ps}
    IN  Where(Plain, Predicates)
        \cup UNION {Where(Joined("Inner", on), {None}) : on \in JoinPredicates}
        \cup UNION {Where(Joined("Inner", on), Atoms(1) \cup Atoms(3)) : on \in Equijoins}
        \cup UNION {Where(Joined("Left", on), {None}) : on \in Equijoins}
        \cup UNION {Where(Joined("Right", on), Atoms(1) \cup Atoms(3)) : on \in Equijoins}
        \cup Where(Crossed, JoinPredicates \cup {None})
        \cup UNION {Where([Counted(g, c) EXCEPT !.having = h], Atoms(1)) :
                g \in {<<>>, <<Column(2)>>}, c \in 1..2, h \in {None, IsNull(Column(2))}}
        \cup UNION {Where([Plain EXCEPT !.select = es], Atoms(1)) :
                es \in {<<Column(1), Column(2)>>, <<Column(2), Column(1)>>}}
        \cup UNION {Where([Plain EXCEPT !.offset = 1, !.limit = k], Atoms(1)) : k \in 0..1}

\* Their plans, and the sources of DELETE and UPDATE.
Queries == {BuildSelect(s) : s \in Selects} \cup {BuildDelete(p) : p \in Predicates}

\* Queries whose rows the optimizers change: left joins with predicates that are pushed
\* into their sources, and disjunctions that name a key twice.
OuterQueries ==
    {BuildSelect(Joined("Left", on)) : on \in JoinPredicates}
        \cup {BuildSelect([Joined("Left", on) EXCEPT !.where = p])
              : on \in Equijoins, p \in Atoms(1) \cup Atoms(3)}

RepeatingQueries == {Scan(Or(a, a)) : a \in Atoms(1)} \cup {Scan(And(Or(a, a), b)) : a, b \in Atoms(1)}

-----------------------------------------------------------------------------
(* Properties.                                                             *)

Occurrences(row, rows) == Cardinality({i \in DOMAIN rows : rows[i] = row})

SameRows(r, s) ==
    \A row \in ToSet(r) \cup ToSet(s) : Occurrences(row, r) = Occurrences(row, s)

\* The tables on which some query's optimized plan returns other rows than the plan
\* that was built for it, which reads the rows and not the index.
Disagreements ==
    LET plans == {<<q, Optimize(q)>> : q \in Queries}
    IN  {c[2] : c \in {<<p, table>> \in plans \X Table :
                          ~SameRows(Execute(p[1], table), Execute(p[2], table))}}

\* The rows of a join of two tables that are not filled up with NULLs.
Matched(rows) == SelectSeq(rows, LAMBDA row : row[3] # Null)

\* The tables on which queries that return other rows have other matches, or other rows
\* but for their number.
LostMatches ==
    LET plans(qs) == {<<q, Optimize(q)>> : q \in qs}
    IN  {c[2] : c \in {<<p, table>> \in plans(OuterQueries) \X Table :
                 ~SameRows(Matched(Execute(p[1], table)), Matched(Execute(p[2], table)))}}
        \cup {c[2] : c \in {<<p, table>> \in plans(RepeatingQueries) \X Table :
                 ToSet(Execute(p[1], table)) # ToSet(Execute(p[2], table))}}

\* What transaction t reads of the table.
Contents(t) ==
    [rows |-> [id \in Id |-> GetRow(Start(engine), t, id)],
     index |-> [val \in Val |-> GetIndex(Start(engine), t, val)]]

\* The optimizers keep every query's rows, with their number: predicates moved
\* into the sources of joins and copied across equijoins, lookups of keys and of
\* the index entries that concurrent transactions and reapplied commands have
\* left, hash joins and short circuits together return what the executor gets
\* from the plan as it was built, with NULLs or without.
\* Where they do change what a query returns, they change no more than this:
\* left joins whose predicates were pushed return the same pairs of rows, and differ in
\* those that have no match; a key that is named twice returns its row twice, but no
\* other row.
OptimizedPlansAgree ==
    engine.applied = index =>
        \A t \in Readers : Contents(t) \notin Disagreements \cup LostMatches
=============================================================================
