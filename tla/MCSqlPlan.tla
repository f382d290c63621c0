----------------------------- MODULE MCSqlPlan ------------------------------
(***************************************************************************)
(* The SQL state machine and the plans that read its tables, for model     *)
(* checking, together with the functions that these rest on: the parser of *)
(* the expressions in plans, the values that they compare, and the keys    *)
(* under which rows, versions and log entries are stored.  A behaviour is  *)
(* one of the state machine, or a single input of one of the functions.    *)
(***************************************************************************)
EXTENDS SqlPlan, Parser, Values

VARIABLE input

InputOf(kind, set) == {[kind |-> kind, of |-> x] : x \in set}

InputInit ==
    \/ input \in InputOf("expression", SomeExpressions)
    \/ input \in InputOf("raft key", RaftKeys)
    \/ input \in InputOf("mvcc key", MvccKeys)
    \/ input \in InputOf("sql key", SqlKeys)
    \/ input \in InputOf("engine scan", KeysOf(MvccKeyPrefix, FieldsOf))
    \/ input \in InputOf("range scan", Bounds \X Bounds)
    \/ input \in InputOf("prefix scan", ByteStrings(MaxKeyLen))
    \/ input \in InputOf("sql scan", KeysOf(SqlKeyPrefix, NamesOf))
    \/ input \in InputOf("entry scan", SomeWords \X SomeWords)
    \/ input \in InputOf("values", SomeValues \X SomeValues)
    \/ input \in InputOf("integers", SomeIntegers \X SomeIntegers)

NoInput == [kind |-> "none"]

PlansInit == SqlInit /\ (input = NoInput \/ InputInit)

PlansNext == input = NoInput /\ SqlNext /\ UNCHANGED input

PlansSpec == PlansInit /\ [][PlansNext]_<<stateVars, input>>

-----------------------------------------------------------------------------
\* An expression that is written with no more parentheses than precedence and
\* associativity require is parsed as itself, but for one case: once the parser has
\* applied IS to an infix expression it takes no further infix operator at that level,
\* so that the rest is refused or becomes an operand of an operator further out.
PrecedenceIsKept ==
    input.kind = "expression" => (IsParsedAsWritten(input.of) <=> ~Resumes(input.of))

\* Encoded keys decode to themselves and have the order of their fields' values,
\* whatever zero and highest bytes names and values contain: no two keys share an
\* encoding, and the engines, which order bytes, scan them in that order.
KeysKeepOrder ==
    /\ input.kind = "raft key" => KeepsOrder(RaftKey, RaftKeys, input.of)
    /\ input.kind = "mvcc key" => KeepsOrder(MvccKey, MvccKeys, input.of)
    /\ input.kind = "sql key"  => KeepsOrder(SqlKey, SqlKeys, input.of)

\* Every scan returns exactly the keys that it asks for: the records of a
\* transaction, the log entries of a range, the versions of the keys with a prefix
\* (of which scan_prefix chops the terminator off), the rows of a table and the
\* entries of an index, also where a prefix ends in the highest byte or a name in a
\* zero byte.
ScansAreExact ==
    /\ input.kind = "engine scan" => EngineScanIsExact(input.of)
    /\ input.kind = "range scan"  => RangeScanIsExact(input.of)
    /\ input.kind = "prefix scan" => PrefixScanIsExact(input.of)
    /\ input.kind = "sql scan"    => SqlScanIsExact(input.of)
    /\ input.kind = "entry scan"  => EntryScanIsExact(input.of)

\* The four notions of equal values agree: index lookups and hash joins, which the
\* optimizer puts in the place of filters and nested loops, find the values that `='
\* finds, whatever the signs of zeros and NaNs; except that an INTEGER and a FLOAT may be
\* equal, and are then not found.  Values are totally ordered across types, and those
\* that are neither less nor greater are equal, as sorts and ordered sets of keys
\* require; except for integers that are rounded as floats, and for -0.0 and -NaN
\* before they are stored.
EqualityIsConsistent ==
    input.kind = "values" =>
        /\ LookupFollowsEquality(input.of[1], input.of[2])
        /\ input.of \in StoredValues \X StoredValues => OrderIsTotal(input.of[1], input.of[2])

\* An operation on integers that yields a result can be undone by the inverse one, up to
\* the limits of the range: nothing wraps around.  Quotient and remainder make up the
\* dividend.  Only the quotient and the remainder of the least integer by -1, and its
\* negation, yield neither a result nor an error (or, of the negation, a wrong result).
ArithmeticIsChecked ==
    input.kind = "integers" =>
        LET a == input.of[1]
            b == input.of[2]
        IN  /\ IsUndone(a, b)
            /\ Panic \in CheckedDiv(a, b) \cup CheckedRem(a, b) => a = MinInt /\ b = -1
            /\ b = 0 \/ (a = MinInt /\ b = -1) \/ IsDivided(a, b)
=============================================================================
