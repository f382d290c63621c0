------------------------------- MODULE Values -------------------------------
(***************************************************************************)
(* SQL values: equality, hash, order and integer arithmetic of             *)
(* src/sql/types/value.rs, and the comparisons of expressions in           *)
(* src/sql/types/expression.rs.  Values are those that Keycode encodes.    *)
(***************************************************************************)
EXTENDS KeySpaces

IntRange == -(Words \div 2)..Words \div 2 - 1

MinInt == -(Words \div 2)

IsNullValue(v) == v.variant = 1
IsInt(v) == v.variant = 3
IsFloat(v) == v.variant = 4
IsNumber(v) == v.variant \in {3, 4}

Content(v) == v.fields[1]

IsNaN(f) == f.rest > Infinity

\* Value::is_undefined.
IsUndefined(v) == IsNullValue(v) \/ (IsFloat(v) /\ IsNaN(Content(v)))

\* `as f64': exact up to a number, rounded to it beyond, as integers are from 2^53 on.
LargestExact == Infinity - 1

AsF64(n) == [negative |-> n < 0,
             rest |-> IF n > LargestExact \/ -n > LargestExact THEN LargestExact
                      ELSE IF n < 0 THEN -n ELSE n]

ToFloat(v) == IF IsInt(v) THEN AsF64(Content(v)) ELSE Content(v)

\* == of f64.
FloatEqual(f, g) == ~IsNaN(f) /\ ~IsNaN(g) /\ FloatRank(f) = FloatRank(g)

-----------------------------------------------------------------------------
(* Equality, hash and order of values in code.                             *)

\* PartialEq for Value.
ValueEq(v, w) ==
    IF IsNumber(v) /\ IsNumber(w) /\ (IsFloat(v) \/ IsFloat(w))
    THEN \/ FloatEqual(ToFloat(v), ToFloat(w))
         \/ IsFloat(v) /\ IsFloat(w) /\ IsNaN(Content(v)) /\ IsNaN(Content(w))
    ELSE v = w

\* Mutant: a float is hashed by its bits.
HashedBits(v) == v

\* Hash for Value: what the hasher is fed.
Hashed(v) == IF IsFloat(v) THEN Variant(4, <<Normalized(Content(v))>>) ELSE v

\* f64::total_cmp, as an order of numbers: the sign comes first.
TotalRank(f) == IF f.negative THEN -f.rest - 1 ELSE f.rest

\* The order of the variants; integers and floats are compared with each other.
TypeRank(v) == IF IsFloat(v) THEN 3 ELSE v.variant

\* Ord for Value: v is less than w.
ValueLess(v, w) ==
    CASE TypeRank(v) # TypeRank(w) -> TypeRank(v) < TypeRank(w)
      [] IsFloat(v) \/ IsFloat(w)  -> TotalRank(ToFloat(v)) < TotalRank(ToFloat(w))
      [] IsNullValue(v)                 -> FALSE
      [] OTHER                     -> ScalarBefore(ValueEnum[v.variant][1], Content(v), Content(w))

-----------------------------------------------------------------------------
(* Where rows are found by value.                                          *)

\* Expression::evaluate of `=': a row passes a filter.
SqlEqual(v, w) ==
    /\ ~IsNullValue(v) /\ ~IsNullValue(w)
    /\ IF IsNumber(v) /\ IsNumber(w) /\ (IsFloat(v) \/ IsFloat(w))
       THEN FloatEqual(ToFloat(v), ToFloat(w))
       ELSE v = w

\* Expression::into_column_values of `=', and the lookup of the value's key.
LookupFinds(v, w) ==
    ~IsUndefined(v)
        /\ SerializeField("value", v) = SerializeField("value", w)

\* HashJoiner: undefined values are left out of the hash table.
HashFinds(v, w) == ~IsUndefined(w) /\ Hashed(v) = Hashed(w) /\ ValueEq(v, w)

-----------------------------------------------------------------------------
(* Integer arithmetic: the set of outcomes, of which the build decides one.*)

Result(n) == [result |-> n]

Overflow     == [error |-> "integer overflow"]
DivideByZero == [error |-> "can't divide by zero"]
Panic        == [error |-> "panic"]

Checked(n) == {IF n \in IntRange THEN Result(n) ELSE Overflow}

Abs(n) == IF n < 0 THEN -n ELSE n

\* Division truncates.
Quotient(a, b) == (Abs(a) \div Abs(b)) * (IF (a < 0) = (b < 0) THEN 1 ELSE -1)

\* Mutant: the sum wraps around.
CheckedAddWraps(a, b) == {Result(Signed((a + b) % Words))}

CheckedAdd(a, b) == Checked(a + b)
CheckedSub(a, b) == Checked(a - b)
CheckedMul(a, b) == Checked(a * b)

\* / and % are not checked: every build panics on the one quotient out of range.
CheckedDiv(a, b) ==
    {IF b = 0 THEN DivideByZero
     ELSE IF Quotient(a, b) \in IntRange THEN Result(Quotient(a, b)) ELSE Panic}

\* The remainder has the sign of the dividend.
CheckedRem(a, b) ==
    {IF b = 0 THEN DivideByZero
     ELSE IF Quotient(a, b) \in IntRange THEN Result(a - b * Quotient(a, b)) ELSE Panic}

\* Expression::Negate: -i panics in a debug build, and wraps in a release build.
Negate(a) == IF a = MinInt THEN {Panic, Result(MinInt)} ELSE {Result(-a)}

-----------------------------------------------------------------------------
(* What is expected of values.                                             *)

\* Lookups and hash joins find what `=' finds, among values of a type.
LookupFollowsEquality(v, w) ==
    /\ LookupFinds(v, w) = (SqlEqual(v, w) /\ v.variant = w.variant)
    /\ HashFinds(v, w) = (SqlEqual(v, w) /\ v.variant = w.variant)

\* Values as they are stored, with integers that are exact as floats.
StoredValues ==
    {v \in SomeValues : IF IsInt(v) THEN Abs(Content(v)) <= LargestExact ELSE Hashed(v) = v}

OrderIsTotal(v, w) ==
    /\ (ValueLess(v, w) \/ ValueLess(w, v)) = ~ValueEq(v, w)
    /\ ~(ValueLess(v, w) /\ ValueLess(w, v))
    /\ \A u \in StoredValues : ValueLess(u, v) /\ ValueLess(v, w) => ValueLess(u, w)

\* Integers at the limits of the range and around zero.
SomeIntegers == {n \in IntRange : n < MinInt + 3 \/ n > -MinInt - 4 \/ n \in -3..3}

\* The inverse operation gives a back.
IsUndone(a, b) ==
    \A n \in IntRange :
        /\ Result(n) \in CheckedAdd(a, b) => CheckedSub(n, b) = {Result(a)}
        /\ Result(n) \in CheckedSub(a, b) => CheckedAdd(n, b) = {Result(a)}
        /\ Result(n) \in CheckedMul(a, b) /\ b # 0 => CheckedDiv(n, b) = {Result(a)}
        /\ Result(n) \in Negate(a) /\ a # MinInt => CheckedAdd(n, a) = {Result(0)}

\* Quotient and remainder make up the dividend.
IsDivided(a, b) ==
    \E q, r \in IntRange :
        /\ Result(q) \in CheckedDiv(a, b) /\ Result(r) \in CheckedRem(a, b)
        /\ a = b * q + r /\ Abs(r) < Abs(b) /\ (r = 0 \/ (r < 0) = (a < 0))
=============================================================================
