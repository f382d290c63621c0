------------------------------ MODULE Keycode ------------------------------
(***************************************************************************)
(* The order-preserving key encoding of src/encoding/keycode.rs, for bytes *)
(* of Base values and words of WordBytes bytes (256 and 8 in the code),    *)
(* with a byte for every variant of an enum below the highest.             *)
(* A float is its sign and the rest of its bits, of which 0 is zero and    *)
(* those above Infinity are the NaNs.                                      *)
(***************************************************************************)
EXTENDS Integers, Sequences, SequencesExt

CONSTANTS Base, WordBytes, Infinity

ASSUME KeycodeAssumption ==
    /\ Base \in Nat /\ Base > 6 /\ Base % 2 = 0 /\ WordBytes \in Nat \ {0}
    /\ Infinity \in Nat /\ Infinity < Base ^ WordBytes \div 2

Byte == 0..Base - 1

MaxByte == Base - 1

Words == Base ^ WordBytes

-----------------------------------------------------------------------------
(* Serializer.                                                             *)

ToBytes(w) == [i \in 1..WordBytes |-> (w \div Base ^ (WordBytes - i)) % Base]

FlipSign(bytes) == [bytes EXCEPT ![1] = (@ + Base \div 2) % Base]

FlipAll(bytes) == [i \in DOMAIN bytes |-> MaxByte - bytes[i]]

SerializeU64(n) == ToBytes(n)

\* Mutant: the sign bit is not flipped.
SerializeI64Plain(n) == ToBytes(n % Words)

SerializeI64(n) == FlipSign(ToBytes(n % Words))

FloatBits(f) == f.rest + (IF f.negative THEN Words \div 2 ELSE 0)

SerializeF64(f) ==
    IF f.negative THEN FlipAll(ToBytes(FloatBits(f))) ELSE FlipSign(ToBytes(FloatBits(f)))

SerializeBytes(v) ==
    FlattenSeq([i \in DOMAIN v |-> IF v[i] = 0 THEN <<0, MaxByte>> ELSE <<v[i]>>]) \o <<0, 0>>

\* value.rs: -0.0 and -NaN are serialized as positive.
Normalized(f) ==
    [f EXCEPT !.negative = @ /\ f.rest # 0 /\ f.rest <= Infinity]

SerializeScalar(type, v) ==
    CASE type = "bool"  -> <<IF v THEN 1 ELSE 0>>
      [] type = "u64"   -> SerializeU64(v)
      [] type = "i64"   -> SerializeI64(v)
      [] type = "f64"   -> SerializeF64(Normalized(v))
      [] type = "bytes" -> SerializeBytes(v)

\* An enum is the variants' sequences of field types, and a value of it its variant
\* and fields: the variant's index in a byte, then the fields.
SerializeVariant(enum, k, Field(_, _)) ==
    <<k.variant - 1>>
        \o FlattenSeq([i \in DOMAIN k.fields |-> Field(enum[k.variant][i], k.fields[i])])

\* value.rs, Value: Null, Boolean, Integer, Float and String.
ValueEnum == << <<>>, <<"bool">>, <<"i64">>, <<"f64">>, <<"bytes">> >>

SerializeField(type, v) ==
    IF type = "value" THEN SerializeVariant(ValueEnum, v, SerializeScalar)
    ELSE SerializeScalar(type, v)

Serialize(enum, k) == SerializeVariant(enum, k, SerializeField)

-----------------------------------------------------------------------------
(* Deserializer: a result, or an error, and the rest of the input.         *)

Error == [ok |-> FALSE]

Decoded(v, rest) == [ok |-> TRUE, v |-> v, rest |-> rest]

FromBytes(bytes) ==
    LET value[i \in 0..WordBytes] == IF i = 0 THEN 0 ELSE value[i - 1] * Base + bytes[i]
    IN  value[WordBytes]

Signed(w) == IF w < Words \div 2 THEN w ELSE w - Words

\* A word whose first bit is clear was negative.
DeserializeF64(bytes) ==
    LET negative == bytes[1] < Base \div 2
        bits == FromBytes(IF negative THEN FlipAll(bytes) ELSE FlipSign(bytes))
    IN  [negative |-> negative, rest |-> bits % (Words \div 2)]

RECURSIVE DecodeNextBytes(_, _)
DecodeNextBytes(input, decoded) ==
    IF input = <<>> THEN Error
    ELSE IF input[1] # 0 THEN DecodeNextBytes(Tail(input), Append(decoded, input[1]))
    ELSE IF Len(input) = 1 THEN Error
    ELSE CASE input[2] = 0       -> Decoded(decoded, SubSeq(input, 3, Len(input)))
           [] input[2] = MaxByte -> DecodeNextBytes(SubSeq(input, 3, Len(input)),
                                                    Append(decoded, 0))
           [] OTHER              -> Error

\* take_bytes, and what the type makes of the bytes.
TakeBytes(input, n, Read(_)) ==
    IF Len(input) < n THEN Error
    ELSE Decoded(Read(SubSeq(input, 1, n)), SubSeq(input, n + 1, Len(input)))

DeserializeScalar(type, input) ==
    CASE type = "bool"  -> IF input # <<>> /\ input[1] > 1 THEN Error
                           ELSE TakeBytes(input, 1, LAMBDA b : b[1] = 1)
      [] type = "u64"   -> TakeBytes(input, WordBytes, FromBytes)
      [] type = "i64"   -> TakeBytes(input, WordBytes, LAMBDA b : Signed(FromBytes(FlipSign(b))))
      [] type = "f64"   -> TakeBytes(input, WordBytes, DeserializeF64)
      [] type = "bytes" -> DecodeNextBytes(input, <<>>)

\* The fields in turn, each from what the one before has left.
DeserializeFields(types, input, Field(_, _)) ==
    LET next(before, field) ==
            IF field.ok THEN Decoded(Append(before.v, field.v), field.rest) ELSE Error
        read[i \in 0..Len(types)] ==
            IF i = 0 THEN Decoded(<<>>, input)
            ELSE IF ~read[i - 1].ok THEN Error
            ELSE next(read[i - 1], Field(types[i], read[i - 1].rest))
    IN  read[Len(types)]

DeserializeVariant(enum, input, Field(_, _)) ==
    IF input = <<>> \/ input[1] >= Len(enum) THEN Error
    ELSE LET content == DeserializeFields(enum[input[1] + 1], Tail(input), Field)
         IN  IF ~content.ok THEN Error
             ELSE Decoded([variant |-> input[1] + 1, fields |-> content.v], content.rest)

DeserializeField(type, input) ==
    IF type = "value" THEN DeserializeVariant(ValueEnum, input, DeserializeScalar)
    ELSE DeserializeScalar(type, input)

\* Trailing bytes are an error.
Deserialize(enum, input) ==
    LET k == DeserializeVariant(enum, input, DeserializeField)
    IN  IF k.ok /\ k.rest = <<>> THEN k ELSE Error

-----------------------------------------------------------------------------
(* Ranges of keys.                                                         *)

\* The order of byte strings, in which the storage engines keep keys.
Before(a, b) ==
    \E i \in 1..Len(b) :
        /\ i <= Len(a) + 1
        /\ \A j \in 1..i - 1 : a[j] = b[j]
        /\ i <= Len(a) => a[i] < b[i]

\* std::ops::Bound.
Included(key) == [kind |-> "Included", key |-> key]
Excluded(key) == [kind |-> "Excluded", key |-> key]
Unbounded     == [kind |-> "Unbounded"]

InRange(range, bytes) ==
    /\ CASE range[1].kind = "Included" -> ~Before(bytes, range[1].key)
         [] range[1].kind = "Excluded" -> Before(range[1].key, bytes)
         [] OTHER -> TRUE
    /\ CASE range[2].kind = "Included" -> ~Before(range[2].key, bytes)
         [] range[2].kind = "Excluded" -> Before(bytes, range[2].key)
         [] OTHER -> TRUE

\* The end is the prefix up to its last byte that can be incremented.
PrefixRange(prefix) ==
    LET below == {i \in DOMAIN prefix : prefix[i] # MaxByte}
        last  == CHOOSE i \in below : \A j \in below : j <= i
    IN  <<Included(prefix),
          IF below = {} THEN Unbounded
          ELSE Excluded(Append(SubSeq(prefix, 1, last - 1), prefix[last] + 1))>>
=============================================================================
