----------------------------- MODULE KeySpaces -----------------------------
(***************************************************************************)
(* The keys that the Raft log, MVCC and the SQL engine keep in a storage   *)
(* engine, encoded by Keycode, and the ranges by which they are scanned.   *)
(* A SQL key is the byte string of an MVCC key, so it is encoded twice.    *)
(***************************************************************************)
EXTENDS Keycode

CONSTANT MaxKeyLen      \* bound: bytes in a raw key or a name

Variant(variant, fields) == [variant |-> variant, fields |-> fields]

-----------------------------------------------------------------------------
(* The key enums; a prefix has some of its key's leading fields.           *)

\* raft/log.rs: Entry, TermVote and CommitIndex.
RaftKey == << <<"u64">>, <<>>, <<>> >>

\* storage/mvcc.rs: NextVersion, TxnActive, TxnActiveSnapshot, TxnWrite, Version and
\* Unversioned.
MvccKey == << <<>>, <<"u64">>, <<"u64">>, <<"u64", "bytes">>, <<"bytes", "u64">>, <<"bytes">> >>

MvccKeyPrefix == << <<>>, <<>>, <<>>, <<"u64">>, <<"bytes">>, <<>> >>

VersionKey(raw, version) == Serialize(MvccKey, Variant(5, <<raw, version>>))

\* sql/engine/local.rs: Table, Index and Row.
SqlKey == << <<"bytes">>, <<"bytes", "bytes", "value">>, <<"bytes", "value">> >>

SqlKeyPrefix == << <<>>, <<"bytes", "bytes">>, <<"bytes">> >>

-----------------------------------------------------------------------------
(* The ranges that are scanned.                                            *)

\* log.rs, Log::scan of the indexes from first to last, or to the end.
EntryRange(first, last) ==
    <<Included(Serialize(RaftKey, Variant(1, <<first>>))),
      Included(Serialize(RaftKey, Variant(1, <<last>>)))>>

\* mvcc.rs, Transaction::scan.
ScanRange(start, end) ==
    <<CASE start.kind = "Excluded"  -> Excluded(VersionKey(start.key, Words - 1))
        [] start.kind = "Included"  -> Included(VersionKey(start.key, 0))
        [] start.kind = "Unbounded" -> Included(VersionKey(<<>>, 0)),
      CASE end.kind = "Excluded"  -> Excluded(VersionKey(end.key, 0))
        [] end.kind = "Included"  -> Included(VersionKey(end.key, Words - 1))
        [] end.kind = "Unbounded" -> Excluded(Serialize(MvccKeyPrefix, Variant(6, <<>>)))>>

\* Mutant: the terminator of the byte string is not chopped off.
ScanPrefixWhole(prefix) == PrefixRange(Serialize(MvccKeyPrefix, Variant(5, <<prefix>>)))

\* mvcc.rs, Transaction::scan_prefix.
ScanPrefix(prefix) ==
    LET encoded == Serialize(MvccKeyPrefix, Variant(5, <<prefix>>))
    IN  PrefixRange(SubSeq(encoded, 1, Len(encoded) - 2))

-----------------------------------------------------------------------------
(* The keys that are checked: byte strings of the lowest and the highest   *)
(* bytes, and numbers next to the boundaries of their types.               *)

ByteStrings(n) == UNION {[1..m -> {0, 1, MaxByte}] : m \in 0..n}

SomeWords == {0, 1, Base - 1, Base, Words - 1}

SomeValues ==
    {Variant(1, <<>>)}
        \cup {Variant(2, <<b>>) : b \in BOOLEAN}
        \cup {Variant(3, <<n>>) : n \in {-(Words \div 2), -1, 0, 1, Words \div 2 - 1}}
        \cup {Variant(4, <<f>>) : f \in [negative : BOOLEAN, rest : {0, 1, Infinity, Infinity + 1}]}
        \cup {Variant(5, <<s>>) : s \in ByteStrings(1)}

FieldsOf(type) ==
    CASE type = "u64" -> SomeWords [] type = "bytes" -> ByteStrings(MaxKeyLen)

NamesOf(type) ==
    CASE type = "value" -> SomeValues [] type = "bytes" -> ByteStrings(1)

\* All keys of an enum with these fields.
KeysOf(enum, Fields(_)) ==
    UNION {CASE Len(enum[i]) = 0 -> {Variant(i, <<>>)}
             [] Len(enum[i]) = 1 -> {Variant(i, <<f>>) : f \in Fields(enum[i][1])}
             [] Len(enum[i]) = 2 -> {Variant(i, f) : f \in Fields(enum[i][1]) \X Fields(enum[i][2])}
             [] Len(enum[i]) = 3 -> {Variant(i, f) : f \in Fields(enum[i][1]) \X Fields(enum[i][2])
                                                          \X Fields(enum[i][3])}
           : i \in DOMAIN enum}

\* Each key with its encoding.
Encoded(enum, keys) == {<<k, Serialize(enum, k)>> : k \in keys}

RaftKeys == Encoded(RaftKey, KeysOf(RaftKey, FieldsOf))
MvccKeys == Encoded(MvccKey, KeysOf(MvccKey, FieldsOf))
SqlKeys  == Encoded(SqlKey, KeysOf(SqlKey, NamesOf))

-----------------------------------------------------------------------------
(* What is expected of encoded keys.                                       *)

\* The order of numbers, with -0.0 and 0.0 as one and the NaNs as one, at the end.
FloatRank(f) ==
    IF f.rest > Infinity THEN Words ELSE IF f.negative THEN -f.rest ELSE f.rest

ScalarBefore(type, a, b) ==
    CASE type = "bool"  -> ~a /\ b
      [] type \in {"u64", "i64"} -> a < b
      [] type = "f64"   -> FloatRank(a) < FloatRank(b)
      [] type = "bytes" -> Before(a, b)

\* Variants in their order, then fields in theirs.
KeyBefore(enum, a, b, FieldBefore(_, _, _)) ==
    \/ a.variant < b.variant
    \/ /\ a.variant = b.variant
       /\ \E i \in DOMAIN a.fields :
             /\ FieldBefore(enum[a.variant][i], a.fields[i], b.fields[i])
             /\ \A j \in 1..i - 1 :
                   ~FieldBefore(enum[a.variant][j], b.fields[j], a.fields[j])

FieldBefore(type, a, b) ==
    IF type = "value" THEN KeyBefore(ValueEnum, a, b, ScalarBefore) ELSE ScalarBefore(type, a, b)

\* The key x, with its encoding, keeps its order among keys, and decodes to itself, or to
\* what is equal to it, as floats are serialized as positive.
KeepsOrder(enum, keys, x) ==
    /\ \A y \in keys : Before(x[2], y[2]) = KeyBefore(enum, x[1], y[1], FieldBefore)
    /\ LET decoded == Deserialize(enum, x[2])
       IN  decoded.ok /\ ~KeyBefore(enum, x[1], decoded.v, FieldBefore)
                      /\ ~KeyBefore(enum, decoded.v, x[1], FieldBefore)

\* The keys of an enum under a prefix of it.
Under(keys, p) ==
    {x \in keys : x[1].variant = p.variant
                    /\ SubSeq(x[1].fields, 1, Len(p.fields)) = p.fields}

\* Scans of engine prefixes, of raw keys by range and by prefix, of SQL keys by prefix and
\* of log entries, and the keys that they ask for.
EngineScanIsExact(p) ==
    {x \in MvccKeys : InRange(PrefixRange(Serialize(MvccKeyPrefix, p)), x[2])}
        = Under(MvccKeys, p)

RangeScanIsExact(b) ==
    {x \in MvccKeys : InRange(ScanRange(b[1], b[2]), x[2])}
        = {x \in MvccKeys : x[1].variant = 5 /\ InRange(b, x[1].fields[1])}

PrefixScanIsExact(p) ==
    {x \in MvccKeys : InRange(ScanPrefix(p), x[2])}
        = {x \in MvccKeys : x[1].variant = 5 /\ IsPrefix(p, x[1].fields[1])}

\* A SQL key in MVCC, with a version.
StoredSqlKeys == {<<x[1], VersionKey(x[2], v)>> : x \in SqlKeys, v \in {0, Words - 1}}

SqlScanIsExact(p) ==
    {x \in StoredSqlKeys : InRange(ScanPrefix(Serialize(SqlKeyPrefix, p)), x[2])}
        = Under(StoredSqlKeys, p)

EntryScanIsExact(w) ==
    {x \in RaftKeys : InRange(EntryRange(w[1], w[2]), x[2])}
        = {x \in RaftKeys : x[1].variant = 1 /\ x[1].fields[1] \in w[1]..w[2]}

Bounds == {Included(k) : k \in ByteStrings(1)} \cup {Excluded(k) : k \in ByteStrings(1)}
              \cup {Unbounded}
=============================================================================
