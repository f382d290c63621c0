-------------------------- MODULE LogStore_proofs --------------------------
(***************************************************************************)
(* The log on disk, for any number of entries, terms, crashes and          *)
(* compactions: what Log keeps in memory is what its engine holds, a       *)
(* splice that runs to its end is the one of RaftLog, and crashes lose no  *)
(* entry, vote or committed entry.                                         *)
(*                                                                         *)
(* Only commit indexes are written without a flush, so a power failure     *)
(* that strikes between operations loses nothing else; and the entry of    *)
(* every commit index that may come back was flushed before it, and cannot *)
(* have been replaced since.                                               *)
(***************************************************************************)
EXTENDS LogStore, Extrema_proofs, FiniteSetTheorems, SequenceTheorems

-----------------------------------------------------------------------------
(* The invariant.                                                          *)

Datum == EntryValue \cup TermVoteValue \cup CommitValue \cup {Absent}

\* Value v is of the type that is stored under key k.
Fits(k, v) ==
    \/ v = Absent
    \/ (\E i \in Index : k = Entry(i)) /\ v \in EntryValue
    \/ k = TermVote /\ v \in TermVoteValue
    \/ k = CommitIndex /\ v \in CommitValue

EngineWrite == {w \in [key : EngineKey, value : Datum] : Fits(w.key, w.value)}

EngineContent == {d \in [EngineKey -> Datum] : \A k \in EngineKey : Fits(k, d[k])}

\* Log::new would read from the engine what the log has in memory.
Loaded ==
    LET d == Content
    IN  /\ term = IF d[TermVote] = Absent THEN 0 ELSE d[TermVote].term
        /\ vote = IF d[TermVote] = Absent THEN NoVote ELSE d[TermVote].vote
        /\ lastIndex \in Stored(d) \cup {0} /\ \A i \in Stored(d) : i <= lastIndex
        /\ lastTerm = IF lastIndex = 0 THEN 0 ELSE d[Entry(lastIndex)].term
        /\ commitIndex = IF d[CommitIndex] = Absent THEN 0 ELSE d[CommitIndex].index
        /\ commitTerm = IF d[CommitIndex] = Absent THEN 0 ELSE d[CommitIndex].term

StoreTypes ==
    /\ disk \in EngineContent /\ unsynced \in Seq(EngineWrite) /\ inherited \in BOOLEAN

\* The entry that commit index v is about is there.
Sound(v, d) == v # Absent => d[Entry(v.index)] = [term |-> v.term]

\* One that may still come back.
MayReturn(v) == Sound(v, Content) /\ (v # Absent => v.index <= commitIndex)

CommitsInv ==
    /\ MayReturn(Content[CommitIndex])
    /\ ~inherited =>
          /\ MayReturn(disk[CommitIndex])
          /\ \A i \in 1..Len(unsynced) :
                unsynced[i].key = CommitIndex /\ MayReturn(unsynced[i].value)

StoreInv == StoreTypes /\ Loaded

-----------------------------------------------------------------------------
(* Keys and values.                                                        *)

LEMMA KeyFacts ==
    /\ TermVote \in EngineKey /\ CommitIndex \in EngineKey /\ TermVote # CommitIndex
    /\ \A i \in Index : Entry(i) \in EngineKey
    /\ \A i : Entry(i) # TermVote /\ Entry(i) # CommitIndex
    /\ \A i, j : Entry(i) = Entry(j) => i = j
    /\ \A k \in EngineKey : k = TermVote \/ k = CommitIndex \/ \E i \in Index : k = Entry(i)
<1>1. \A i : Entry(i) # TermVote /\ Entry(i) # CommitIndex
    BY DEF Entry, TermVote, CommitIndex
<1>2. \A i, j : Entry(i) = Entry(j) => i = j
    BY DEF Entry
<1>3. TermVote # CommitIndex
    BY DEF TermVote, CommitIndex
<1> QED BY <1>1, <1>2, <1>3, Zenon DEF EngineKey

LEMMA FitFacts ==
    /\ \A k : Fits(k, Absent)
    /\ \A i \in Index : \A v : Fits(Entry(i), v) <=> v = Absent \/ v \in EntryValue
    /\ \A v : Fits(TermVote, v) <=> v = Absent \/ v \in TermVoteValue
    /\ \A v : Fits(CommitIndex, v) <=> v = Absent \/ v \in CommitValue
    /\ Absent \notin EntryValue /\ Absent \notin TermVoteValue /\ Absent \notin CommitValue
    /\ \A k, v : Fits(k, v) => v \in Datum
<1>1. \A k : Fits(k, Absent)
    BY DEF Fits
<1>2. \A i \in Index : \A v : Fits(Entry(i), v) <=> v = Absent \/ v \in EntryValue
    BY KeyFacts, Zenon DEF Fits
<1>3. \A v : Fits(TermVote, v) <=> v = Absent \/ v \in TermVoteValue
    BY KeyFacts, Zenon DEF Fits
<1>4. \A v : Fits(CommitIndex, v) <=> v = Absent \/ v \in CommitValue
    BY KeyFacts, Zenon DEF Fits
<1>5. Absent \notin EntryValue /\ Absent \notin TermVoteValue /\ Absent \notin CommitValue
    BY LogStoreAssumption, Zenon
<1>6. \A k, v : Fits(k, v) => v \in Datum
    BY Zenon DEF Fits, Datum
<1> QED BY <1>1, <1>2, <1>3, <1>4, <1>5, <1>6

LEMMA SetIsWrite ==
    ASSUME NEW k \in EngineKey, NEW v, Fits(k, v)
    PROVE  Set(k, v) \in EngineWrite /\ Set(k, v).key = k /\ Set(k, v).value = v
BY FitFacts DEF Set, EngineWrite

LEMMA SeqOfFunction ==
    ASSUME NEW S, NEW n \in Nat, NEW f \in [1..n -> S]
    PROVE  f \in Seq(S) /\ Len(f) = n
OBVIOUS

LEMMA ConcatFacts ==
    ASSUME NEW S, NEW a \in Seq(S), NEW b \in Seq(S), NEW c, c = a \o b
    PROVE  /\ c \in Seq(S) /\ Len(a) \in Nat /\ Len(b) \in Nat /\ Len(c) = Len(a) + Len(b)
           /\ \A i \in 1..Len(a) + Len(b) : c[i] = IF i <= Len(a) THEN a[i] ELSE b[i - Len(a)]
BY ConcatProperties

LEMMA WriteFacts ==
    ASSUME NEW ws \in Seq(EngineWrite)
    PROVE  /\ Len(ws) \in Nat /\ DOMAIN ws = 1..Len(ws)
           /\ \A i \in 1..Len(ws) :
                 /\ ws[i] \in EngineWrite /\ ws[i].key \in EngineKey
                 /\ Fits(ws[i].key, ws[i].value)
BY DEF EngineWrite

-----------------------------------------------------------------------------
(* What the engine holds after writes.                                     *)

\* Whether key k was written, and by which write at last.
LEMMA LastWrite ==
    ASSUME NEW ws \in Seq(EngineWrite), NEW k
    PROVE  \/ \A i \in 1..Len(ws) : ws[i].key # k
           \/ \E i \in 1..Len(ws) :
                 ws[i].key = k /\ \A j \in 1..Len(ws) : ws[j].key = k => j <= i
<1> DEFINE S == {i \in 1..Len(ws) : ws[i].key = k}
<1>1. CASE S = {}
    BY <1>1
<1>2. CASE S # {}
  <2>1. Len(ws) \in Nat /\ S \subseteq 0..Len(ws)
    OBVIOUS
  <2>2. \E m \in S : \A v \in S : v <= m
    <3> HIDE DEF S
    <3> QED BY <1>2, <2>1, HasMaximum
  <2> QED BY <2>2
<1> QED BY <1>1, <1>2

LEMMA ApplyAt ==
    ASSUME NEW d \in EngineContent, NEW ws \in Seq(EngineWrite), NEW i \in 1..Len(ws),
           \A j \in 1..Len(ws) : ws[j].key = ws[i].key => j <= i
    PROVE  Apply(d, ws)[ws[i].key] = ws[i].value
<1> DEFINE k == ws[i].key
           S == WritesOf(ws, k)
<1>1. i \in S /\ \A j \in S : j <= i /\ j \in 1..Len(ws)
    BY WriteFacts DEF WritesOf
<1>2. LastOf(S) = i
  <2>1. PICK T, m : T = S /\ m = LastOf(T)
    OBVIOUS
  <2> HIDE DEF S
  <2>2. i \in T /\ \A j \in T : j <= i /\ j \in Int
    <3>1. Len(ws) \in Int
      BY WriteFacts
    <3> QED BY <1>1, <2>1, <3>1
  <2>3. m \in T /\ \A j \in T : j <= m
    BY <2>1, <2>2 DEF LastOf
  <2> QED BY <2>1, <2>2, <2>3
<1>3. k \in DOMAIN d
    BY WriteFacts DEF EngineContent
<1>4. S # {}
    BY <1>1
<1> HIDE DEF k, S
<1>5. Apply(d, ws)[k] = IF S = {} THEN d[k] ELSE ws[LastOf(S)].value
    BY <1>3 DEF Apply, S
<1> QED BY <1>2, <1>4, <1>5 DEF k

LEMMA ApplyElse ==
    ASSUME NEW d \in EngineContent, NEW ws \in Seq(EngineWrite), NEW k \in EngineKey,
           \A j \in 1..Len(ws) : ws[j].key # k
    PROVE  Apply(d, ws)[k] = d[k]
<1>1. WritesOf(ws, k) = {}
    BY WriteFacts DEF WritesOf
<1>2. k \in DOMAIN d
    BY DEF EngineContent
<1> QED BY <1>1, <1>2 DEF Apply

LEMMA ApplyType ==
    ASSUME NEW d \in EngineContent, NEW ws \in Seq(EngineWrite)
    PROVE  Apply(d, ws) \in EngineContent
<1> DEFINE e == Apply(d, ws)
<1>1. DOMAIN d = EngineKey
    BY DEF EngineContent
<1>2. e = [k \in EngineKey |-> e[k]]
    BY <1>1 DEF Apply
<1>3. ASSUME NEW k \in EngineKey PROVE Fits(k, e[k])
  <2>1. CASE \A j \in 1..Len(ws) : ws[j].key # k
    <3>1. e[k] = d[k]
      BY <2>1, ApplyElse
    <3> HIDE DEF e
    <3> QED BY <3>1 DEF EngineContent
  <2>2. ASSUME NEW i \in 1..Len(ws), ws[i].key = k,
               \A j \in 1..Len(ws) : ws[j].key = k => j <= i
        PROVE  Fits(k, e[k])
    <3>1. e[k] = ws[i].value
      BY <2>2, ApplyAt
    <3> HIDE DEF e
    <3> QED BY <2>2, <3>1, WriteFacts
  <2> HIDE DEF e
  <2> QED BY <2>1, <2>2, LastWrite
<1> HIDE DEF e
<1>4. \A k \in EngineKey : e[k] \in Datum
    BY <1>3, FitFacts
<1>5. e \in [EngineKey -> Datum]
    BY <1>2, <1>4
<1> QED BY <1>3, <1>5 DEF EngineContent, e

LEMMA SameContent ==
    ASSUME NEW d \in EngineContent, NEW e \in EngineContent,
           \A k \in EngineKey : d[k] = e[k]
    PROVE  d = e
BY DEF EngineContent

LEMMA ApplyNone ==
    ASSUME NEW d \in EngineContent
    PROVE  Apply(d, <<>>) = d /\ <<>> \in Seq(EngineWrite) /\ Len(<<>>) = 0
<1>1. <<>> \in Seq(EngineWrite) /\ Len(<<>>) = 0
    OBVIOUS
<1>2. ASSUME NEW k \in EngineKey PROVE Apply(d, <<>>)[k] = d[k]
  <2>1. PICK ws : ws = <<>>
    OBVIOUS
  <2>2. ws \in Seq(EngineWrite) /\ \A j \in 1..Len(ws) : ws[j].key # k
    BY <1>1, <2>1
  <2> QED BY <2>1, <2>2, ApplyElse
<1> QED BY <1>1, <1>2, ApplyType, SameContent

LEMMA ApplyConcat ==
    ASSUME NEW d \in EngineContent, NEW a \in Seq(EngineWrite), NEW b \in Seq(EngineWrite)
    PROVE  Apply(d, a \o b) = Apply(Apply(d, a), b)
<1> DEFINE ab == a \o b
           e == Apply(d, a)
<1>1. /\ ab \in Seq(EngineWrite) /\ Len(a) \in Nat /\ Len(b) \in Nat
      /\ Len(ab) = Len(a) + Len(b)
      /\ \A i \in 1..Len(a) : ab[i] = a[i]
      /\ \A i \in 1..Len(b) : ab[Len(a) + i] = b[i]
      /\ \A i \in 1..Len(ab) : i \in 1..Len(a) \/ \E j \in 1..Len(b) : i = Len(a) + j
  <2>1. /\ ab \in Seq(EngineWrite) /\ Len(a) \in Nat /\ Len(b) \in Nat
        /\ Len(ab) = Len(a) + Len(b)
        /\ \A i \in 1..Len(ab) : ab[i] = IF i <= Len(a) THEN a[i] ELSE b[i - Len(a)]
    BY ConcatProperties
  <2> HIDE DEF ab
  <2>2. \A i \in 1..Len(a) : ab[i] = a[i]
    BY <2>1
  <2>3. \A i \in 1..Len(b) : ab[Len(a) + i] = b[i]
    <3> SUFFICES ASSUME NEW i \in 1..Len(b) PROVE ab[Len(a) + i] = b[i]
      OBVIOUS
    <3>1. Len(a) + i \in 1..Len(ab) /\ ~(Len(a) + i <= Len(a)) /\ (Len(a) + i) - Len(a) = i
      BY <2>1
    <3> QED BY <2>1, <3>1
  <2>4. \A i \in 1..Len(ab) : i \in 1..Len(a) \/ \E j \in 1..Len(b) : i = Len(a) + j
    <3> SUFFICES ASSUME NEW i \in 1..Len(ab), i \notin 1..Len(a)
                 PROVE  \E j \in 1..Len(b) : i = Len(a) + j
      OBVIOUS
    <3>1. i - Len(a) \in 1..Len(b) /\ i = Len(a) + (i - Len(a))
      BY <2>1
    <3> QED BY <3>1
  <2> QED BY <2>1, <2>2, <2>3, <2>4
<1>2. e \in EngineContent
    BY ApplyType
<1> HIDE DEF ab, e
<1>3. ASSUME NEW k \in EngineKey PROVE Apply(d, ab)[k] = Apply(e, b)[k]
  <2>1. CASE \E i \in 1..Len(b) : b[i].key = k
    <3>1. PICK i \in 1..Len(b) : b[i].key = k /\ \A j \in 1..Len(b) : b[j].key = k => j <= i
      BY <2>1, LastWrite
    <3>2. Apply(e, b)[k] = b[i].value
      BY <1>2, <3>1, ApplyAt
    <3>3. PICK n : n = Len(a) + i
      OBVIOUS
    <3>4. n \in 1..Len(ab) /\ ab[n] = b[i]
      BY <1>1, <3>3
    <3>5. ASSUME NEW j \in 1..Len(ab), ab[j].key = k PROVE j <= n
      <4>1. CASE j \in 1..Len(a)
        BY <1>1, <3>3, <4>1
      <4>2. ASSUME NEW m \in 1..Len(b), j = Len(a) + m PROVE j <= n
        <5>1. b[m].key = k
          BY <1>1, <3>5, <4>2
        <5>2. m <= i
          BY <3>1, <5>1
        <5> QED BY <1>1, <3>3, <4>2, <5>2
      <4> QED BY <1>1, <4>1, <4>2
    <3>6. Apply(d, ab)[ab[n].key] = ab[n].value
      <4>1. ab \in Seq(EngineWrite)
        BY <1>1
      <4>2. \A j \in 1..Len(ab) : ab[j].key = ab[n].key => j <= n
        BY <3>1, <3>4, <3>5
      <4> QED BY <3>4, <4>1, <4>2, ApplyAt
    <3> QED BY <3>1, <3>2, <3>4, <3>6
  <2>2. CASE ~\E i \in 1..Len(b) : b[i].key = k
    <3>1. Apply(e, b)[k] = e[k]
      BY <1>2, <2>2, ApplyElse
    <3>2. CASE \E i \in 1..Len(a) : a[i].key = k
      <4>1. PICK i \in 1..Len(a) : a[i].key = k /\ \A j \in 1..Len(a) : a[j].key = k => j <= i
        BY <3>2, LastWrite
      <4>2. e[k] = a[i].value
        BY <4>1, ApplyAt DEF e
      <4>3. i \in 1..Len(ab) /\ ab[i] = a[i]
        BY <1>1
      <4>4. ASSUME NEW j \in 1..Len(ab), ab[j].key = k PROVE j <= i
        <5>1. CASE j \in 1..Len(a)
          BY <1>1, <4>1, <4>4, <5>1
        <5>2. ASSUME NEW m \in 1..Len(b), j = Len(a) + m PROVE FALSE
          BY <1>1, <2>2, <4>4, <5>2
        <5> QED BY <1>1, <5>1, <5>2
      <4>5. Apply(d, ab)[ab[i].key] = ab[i].value
        <5>1. ab \in Seq(EngineWrite)
          BY <1>1
        <5>2. \A j \in 1..Len(ab) : ab[j].key = ab[i].key => j <= i
          BY <4>1, <4>3, <4>4
        <5> QED BY <4>3, <5>1, <5>2, ApplyAt
      <4> QED BY <3>1, <4>1, <4>2, <4>3, <4>5
    <3>3. CASE ~\E i \in 1..Len(a) : a[i].key = k
      <4>1. e[k] = d[k]
        BY <3>3, ApplyElse DEF e
      <4>2. \A j \in 1..Len(ab) : ab[j].key # k
        <5> SUFFICES ASSUME NEW j \in 1..Len(ab) PROVE ab[j].key # k
          OBVIOUS
        <5>1. CASE j \in 1..Len(a)
          BY <1>1, <3>3, <5>1
        <5>2. ASSUME NEW m \in 1..Len(b), j = Len(a) + m PROVE ab[j].key # k
          BY <1>1, <2>2, <5>2
        <5> QED BY <1>1, <5>1, <5>2
      <4>3. Apply(d, ab)[k] = d[k]
        BY <1>1, <4>2, ApplyElse
      <4> QED BY <3>1, <4>1, <4>3
    <3> QED BY <3>2, <3>3
  <2> QED BY <2>1, <2>2
<1>4. Apply(d, ab) \in EngineContent /\ Apply(e, b) \in EngineContent
    BY <1>1, <1>2, ApplyType
<1> QED BY <1>3, <1>4, SameContent DEF ab, e

-----------------------------------------------------------------------------
(* Compaction.                                                             *)

LEMMA KeyAtFacts ==
    /\ \A n \in 1..MaxIndex + 2 : KeyAt(n) \in EngineKey
    /\ \A k \in EngineKey : \E n \in 1..MaxIndex + 2 : KeyAt(n) = k
<1>1. MaxIndex \in Nat
    BY LogStoreAssumption
<1>2. ASSUME NEW n \in 1..MaxIndex + 2 PROVE KeyAt(n) \in EngineKey
    BY KeyFacts, Zenon DEF KeyAt
<1>3. ASSUME NEW k \in EngineKey PROVE \E n \in 1..MaxIndex + 2 : KeyAt(n) = k
  <2>1. CASE k = TermVote
    <3>1. MaxIndex + 1 \in 1..MaxIndex + 2 /\ MaxIndex + 1 \notin Index
      BY <1>1 DEF Index
    <3> QED BY <2>1, <3>1 DEF KeyAt
  <2>2. CASE k = CommitIndex
    <3>1. MaxIndex + 2 \in 1..MaxIndex + 2 /\ MaxIndex + 2 \notin Index
          /\ MaxIndex + 2 # MaxIndex + 1
      BY <1>1 DEF Index
    <3> QED BY <2>2, <3>1 DEF KeyAt
  <2>3. ASSUME NEW i \in Index, k = Entry(i) PROVE \E n \in 1..MaxIndex + 2 : KeyAt(n) = k
    <3>1. i \in 1..MaxIndex + 2
      BY <1>1 DEF Index
    <3> QED BY <2>3, <3>1 DEF KeyAt
  <2> QED BY <2>1, <2>2, <2>3, KeyFacts
<1> QED BY <1>2, <1>3

LEMMA EmptyFacts == Empty \in EngineContent /\ \A k \in EngineKey : Empty[k] = Absent
<1>1. \A k \in EngineKey : Empty[k] = Absent
    BY DEF Empty
<1>2. Empty \in [EngineKey -> Datum]
    BY DEF Empty, Datum
<1> QED BY <1>1, <1>2, FitFacts DEF EngineContent

\* The file that compaction writes holds what the engine held.
LEMMA CompactionKeepsContent ==
    ASSUME NEW d \in EngineContent
    PROVE  LiveWrites(d) \in Seq(EngineWrite) /\ Apply(Empty, LiveWrites(d)) = d
<1> DEFINE live == {n \in 1..MaxIndex + 2 : d[KeyAt(n)] # Absent}
           rank(p) == Cardinality({m \in live : m <= p})
           at(i) == CHOOSE n \in live : rank(n) = i
           ws == LiveWrites(d)
<1>1. /\ Cardinality(live) \in Nat
      /\ \A p \in live : rank(p) \in 1..Cardinality(live)
      /\ \A p, q \in live : rank(p) = rank(q) => p = q
      /\ \A i \in 1..Cardinality(live) : \E p \in live : rank(p) = i
  <2>1. MaxIndex + 2 \in Int /\ live \in SUBSET (1..MaxIndex + 2)
    BY LogStoreAssumption
  <2> HIDE DEF live
  <2>2. IsFiniteSet(1..MaxIndex + 2)
    BY <2>1, FS_Interval
  <2>3. IsFiniteSet(live)
    BY <2>1, <2>2, FS_Subset
  <2>4. live \subseteq Nat
    BY <2>1
  <2> QED BY <2>3, <2>4, Ranks
<1>2. ws = [i \in 1..Cardinality(live) |-> Set(KeyAt(at(i)), d[KeyAt(at(i))])]
    BY Zenon DEF LiveWrites
<1>3. \A n \in live : KeyAt(n) \in EngineKey /\ d[KeyAt(n)] # Absent
    BY KeyAtFacts
<1>4. \A k \in EngineKey : d[k] # Absent => \E n \in live : KeyAt(n) = k
    BY KeyAtFacts
<1> HIDE DEF live, rank, ws
<1>5. \A i \in 1..Cardinality(live) : at(i) \in live /\ rank(at(i)) = i
    BY <1>1
<1> HIDE DEF at
<1>6. \A k \in EngineKey : Fits(k, d[k])
    BY DEF EngineContent
<1>7. \A i \in 1..Cardinality(live) :
         /\ ws[i] \in EngineWrite /\ ws[i].key = KeyAt(at(i)) /\ ws[i].key \in EngineKey
         /\ ws[i].value = d[KeyAt(at(i))]
  <2> SUFFICES ASSUME NEW i \in 1..Cardinality(live)
               PROVE  /\ ws[i] \in EngineWrite /\ ws[i].key = KeyAt(at(i))
                      /\ ws[i].key \in EngineKey /\ ws[i].value = d[KeyAt(at(i))]
    OBVIOUS
  <2>1. PICK k : k = KeyAt(at(i))
    OBVIOUS
  <2>2. k \in EngineKey /\ Fits(k, d[k])
    BY <1>3, <1>5, <1>6, <2>1
  <2>3. ws[i] = Set(k, d[k])
    BY <1>2, <2>1
  <2> QED BY <2>1, <2>2, <2>3, SetIsWrite
<1>8. ws \in Seq(EngineWrite) /\ Len(ws) = Cardinality(live)
  <2>1. PICK c : c = Cardinality(live)
    OBVIOUS
  <2>2. ws \in [1..c -> EngineWrite] /\ c \in Nat
    BY <1>1, <1>2, <1>7, <2>1
  <2> QED BY <2>1, <2>2, SeqOfFunction
<1>9. ASSUME NEW k \in EngineKey PROVE Apply(Empty, ws)[k] = d[k]
  <2>1. CASE \A i \in 1..Len(ws) : ws[i].key # k
    <3>1. Apply(Empty, ws)[k] = Absent
      BY <1>8, <2>1, ApplyElse, EmptyFacts
    <3>2. ASSUME d[k] # Absent PROVE FALSE
      <4>1. PICK n \in live : KeyAt(n) = k
        BY <1>4, <3>2
      <4>2. PICK i : i = rank(n)
        OBVIOUS
      <4>3. i \in 1..Cardinality(live)
        BY <1>1, <4>2
      <4>4. at(i) = n
        BY <1>1, <1>5, <4>2, <4>3
      <4> QED BY <1>7, <1>8, <2>1, <4>1, <4>3, <4>4
    <3> QED BY <3>1, <3>2
  <2>2. ASSUME NEW i \in 1..Len(ws), ws[i].key = k,
               \A j \in 1..Len(ws) : ws[j].key = k => j <= i
        PROVE  Apply(Empty, ws)[k] = d[k]
    <3>1. Apply(Empty, ws)[k] = ws[i].value
      BY <1>8, <2>2, ApplyAt, EmptyFacts
    <3> QED BY <1>7, <1>8, <2>2, <3>1
  <2> QED BY <1>8, <2>1, <2>2, LastWrite
<1>10. Apply(Empty, ws) = d
    BY <1>8, <1>9, EmptyFacts, ApplyType, SameContent
<1> QED BY <1>8, <1>10 DEF ws

-----------------------------------------------------------------------------
(* Crashes.                                                                *)

LEMMA PrefixFacts ==
    ASSUME NEW ws \in Seq(EngineWrite), NEW n \in 0..Len(ws)
    PROVE  /\ SubSeq(ws, 1, n) \in Seq(EngineWrite) /\ Len(SubSeq(ws, 1, n)) = n
           /\ \A i \in 1..n : i \in 1..Len(ws) /\ SubSeq(ws, 1, n)[i] = ws[i]
<1>1. Len(ws) \in Nat /\ n \in Int /\ \A i \in 1..n : i \in 1..Len(ws) /\ ws[i] \in EngineWrite
    BY WriteFacts
<1>2. /\ SubSeq(ws, 1, n) \in Seq(EngineWrite)
      /\ Len(SubSeq(ws, 1, n)) = IF 1 <= n THEN n - 1 + 1 ELSE 0
      /\ \A i \in 1..n - 1 + 1 : SubSeq(ws, 1, n)[i] = ws[1 + i - 1]
    BY <1>1, SubSeqProperties
<1>3. n - 1 + 1 = n /\ \A i \in 1..n : 1 + i - 1 = i
    BY <1>1
<1>4. Len(SubSeq(ws, 1, n)) = n
    BY <1>1, <1>2, <1>3
<1> QED BY <1>1, <1>2, <1>3, <1>4

LEMMA PrefixOfConcat ==
    ASSUME NEW a \in Seq(EngineWrite), NEW b \in Seq(EngineWrite),
           NEW n \in 0..Len(a) + Len(b)
    PROVE  /\ SubSeq(a \o b, 1, n) \in Seq(EngineWrite)
           /\ \/ n \in 0..Len(a) /\ SubSeq(a \o b, 1, n) = SubSeq(a, 1, n)
              \/ /\ n - Len(a) \in 0..Len(b)
                 /\ SubSeq(a \o b, 1, n) = a \o SubSeq(b, 1, n - Len(a))
           /\ n >= Len(a) => /\ n - Len(a) \in 0..Len(b)
                             /\ SubSeq(a \o b, 1, n) = a \o SubSeq(b, 1, n - Len(a))
<1> DEFINE ab == a \o b
           kept == SubSeq(ab, 1, n)
<1>1. /\ ab \in Seq(EngineWrite) /\ Len(a) \in Nat /\ Len(b) \in Nat
      /\ Len(ab) = Len(a) + Len(b)
      /\ \A i \in 1..Len(a) + Len(b) : ab[i] = IF i <= Len(a) THEN a[i] ELSE b[i - Len(a)]
    BY ConcatProperties
<1> HIDE DEF ab
<1>2. n \in 0..Len(ab)
    BY <1>1
<1>3. /\ kept \in Seq(EngineWrite) /\ Len(kept) = n
      /\ \A i \in 1..n : i \in 1..Len(ab) /\ kept[i] = ab[i]
    BY <1>1, <1>2, PrefixFacts
<1> HIDE DEF kept
<1>4. ASSUME n <= Len(a) PROVE n \in 0..Len(a) /\ kept = SubSeq(a, 1, n)
  <2>1. n \in 0..Len(a)
    BY <1>1, <1>4
  <2>2. PICK s : s = SubSeq(a, 1, n)
    OBVIOUS
  <2>3. s \in Seq(EngineWrite) /\ Len(s) = n /\ \A i \in 1..n : s[i] = a[i]
    BY <2>1, <2>2, PrefixFacts
  <2>4. \A i \in 1..n : kept[i] = s[i]
    BY <1>1, <1>3, <1>4, <2>3
  <2>5. kept = s
    BY <1>3, <2>3, <2>4, SeqEqual
  <2> QED BY <2>1, <2>2, <2>5
<1>5. ASSUME n >= Len(a)
      PROVE  n - Len(a) \in 0..Len(b) /\ kept = a \o SubSeq(b, 1, n - Len(a))
  <2>1. PICK m : m = n - Len(a)
    OBVIOUS
  <2>2. m \in 0..Len(b) /\ n = Len(a) + m
    BY <1>1, <1>5, <2>1
  <2>3. PICK s : s = SubSeq(b, 1, m)
    OBVIOUS
  <2>4. s \in Seq(EngineWrite) /\ Len(s) = m /\ \A i \in 1..m : s[i] = b[i]
    BY <2>2, <2>3, PrefixFacts
  <2>5. PICK t : t = a \o s
    OBVIOUS
  <2>6. /\ t \in Seq(EngineWrite) /\ Len(t) = Len(a) + m
        /\ \A i \in 1..Len(a) + m : t[i] = IF i <= Len(a) THEN a[i] ELSE s[i - Len(a)]
    <3>1. /\ t \in Seq(EngineWrite) /\ Len(t) = Len(a) + Len(s)
          /\ \A i \in 1..Len(a) + Len(s) : t[i] = IF i <= Len(a) THEN a[i] ELSE s[i - Len(a)]
      BY <2>4, <2>5, ConcatProperties
    <3> QED BY <2>4, <3>1
  <2>7. ASSUME NEW i \in 1..n PROVE kept[i] = t[i]
    <3>1. kept[i] = IF i <= Len(a) THEN a[i] ELSE b[i - Len(a)]
      BY <1>1, <1>3
    <3>2. t[i] = IF i <= Len(a) THEN a[i] ELSE s[i - Len(a)]
      BY <2>2, <2>6
    <3>3. ~(i <= Len(a)) => i - Len(a) \in 1..m
      BY <1>1, <2>2
    <3> QED BY <2>4, <3>1, <3>2, <3>3
  <2>8. kept = t
    BY <1>3, <2>2, <2>6, <2>7, SeqEqual
  <2> QED BY <2>1, <2>2, <2>3, <2>5, <2>8
<1>6. n <= Len(a) \/ n >= Len(a)
    BY <1>1
<1> QED BY <1>3, <1>4, <1>5, <1>6 DEF kept, ab

\* Log::new reads what the engine holds.
LEMMA LoadFacts ==
    ASSUME NEW d \in EngineContent, Load(d), Content' = d
    PROVE  Loaded'
<1>1. PICK last : last = IF Stored(d) = {} THEN 0 ELSE LastOf(Stored(d))
    OBVIOUS
<1>2. last \in Stored(d) \cup {0} /\ \A i \in Stored(d) : i <= last
  <2>1. CASE Stored(d) = {}
    BY <1>1, <2>1
  <2>2. CASE Stored(d) # {}
    <3>1. Stored(d) \subseteq 0..MaxIndex /\ MaxIndex \in Nat
      BY LogStoreAssumption DEF Stored, Index
    <3>2. \E m \in Stored(d) : \A v \in Stored(d) : v <= m
      BY <2>2, <3>1, HasMaximum
    <3>3. last \in Stored(d) /\ \A j \in Stored(d) : j <= last
      BY <1>1, <2>2, <3>2 DEF LastOf
    <3> QED BY <3>3
  <2> QED BY <2>1, <2>2
<1>3. /\ term' = IF d[TermVote] = Absent THEN 0 ELSE d[TermVote].term
      /\ vote' = IF d[TermVote] = Absent THEN NoVote ELSE d[TermVote].vote
      /\ lastIndex' = last
      /\ lastTerm' = IF last = 0 THEN 0 ELSE d[Entry(last)].term
      /\ commitIndex' = IF d[CommitIndex] = Absent THEN 0 ELSE d[CommitIndex].index
      /\ commitTerm' = IF d[CommitIndex] = Absent THEN 0 ELSE d[CommitIndex].term
    BY <1>1, Zenon DEF Load
<1> QED BY <1>2, <1>3 DEF Loaded

LEMMA CrashFacts ==
    ASSUME StoreTypes, NEW ws \in Seq(EngineWrite), CrashDuring(ws)
    PROVE  /\ StoreTypes' /\ Loaded'
           /\ ~inherited' => unsynced' = <<>> /\ disk' = Content'
           /\ \/ \E m \in 0..Len(ws) : Content' = Apply(Content, SubSeq(ws, 1, m))
              \/ /\ inherited => FailureAfterOpen
                 /\ \E n \in 0..Len(unsynced) : Content' = Apply(disk, SubSeq(unsynced, 1, n))
<1>1. PICK kind \in CrashKind, n \in 0..Len(unsynced) + Len(ws) :
         LET kept == SubSeq(unsynced \o ws, 1, n)
             d    == Apply(disk, kept)
             g    == garbage \/ MakesGarbage(disk, kept)
         IN  /\ kind = "process" => n >= Len(unsynced)
             /\ kind = "power" /\ inherited => FailureAfterOpen
             /\ Load(d)
             /\ \/ /\ kind = "process"
                   /\ unsynced' = kept /\ inherited' = (kept # <<>>)
                   /\ UNCHANGED <<disk, garbage, compactions>>
                \/ /\ kind = "power"
                   /\ disk' = d /\ unsynced' = <<>> /\ inherited' = FALSE /\ garbage' = g
                   /\ UNCHANGED compactions
                \/ /\ g /\ compactions < MaxCompactions
                   /\ compactions' = compactions + 1
                   /\ disk' = Empty /\ unsynced' = LiveWrites(d) /\ garbage' = FALSE
                   /\ inherited' = TRUE
    BY Zenon DEF CrashDuring
<1>2. PICK kept, d : kept = SubSeq(unsynced \o ws, 1, n) /\ d = Apply(disk, kept)
    OBVIOUS
<1>3. /\ kind = "process" => n >= Len(unsynced)
      /\ kind = "power" /\ inherited => FailureAfterOpen
      /\ Load(d)
    BY <1>1, <1>2, Zenon
<1>4. \/ unsynced' = kept /\ inherited' = (kept # <<>>) /\ disk' = disk
      \/ disk' = d /\ unsynced' = <<>> /\ inherited' = FALSE
      \/ disk' = Empty /\ unsynced' = LiveWrites(d) /\ inherited' = TRUE
    BY <1>1, <1>2, Zenon
<1>5. disk \in EngineContent /\ unsynced \in Seq(EngineWrite)
    BY DEF StoreTypes
<1>6. kept \in Seq(EngineWrite)
    BY <1>2, <1>5, PrefixOfConcat
<1>7. d \in EngineContent
    BY <1>2, <1>5, <1>6, ApplyType
<1>8. StoreTypes' /\ Content' = d /\ (~inherited' => unsynced' = <<>> /\ disk' = Content')
  <2>1. CASE unsynced' = kept /\ inherited' = (kept # <<>>) /\ disk' = disk
    <3>1. Content' = d
      BY <1>2, <2>1 DEF Content
    <3>2. kept = <<>> => d = disk
      BY <1>2, <1>5, ApplyNone
    <3>3. StoreTypes'
      BY <1>5, <1>6, <2>1 DEF StoreTypes
    <3> QED BY <2>1, <3>1, <3>2, <3>3
  <2>2. CASE disk' = d /\ unsynced' = <<>> /\ inherited' = FALSE
    <3>1. Content' = d
      BY <1>7, <2>2, ApplyNone DEF Content
    <3>2. StoreTypes'
      BY <1>7, <2>2, ApplyNone DEF StoreTypes
    <3> QED BY <2>2, <3>1, <3>2
  <2>3. CASE disk' = Empty /\ unsynced' = LiveWrites(d) /\ inherited' = TRUE
    <3>1. Content' = d
      BY <1>7, <2>3, CompactionKeepsContent DEF Content
    <3>2. StoreTypes'
      BY <1>7, <2>3, EmptyFacts, CompactionKeepsContent DEF StoreTypes
    <3> QED BY <2>3, <3>1, <3>2
  <2> QED BY <1>4, <2>1, <2>2, <2>3
<1>9. Loaded'
    BY <1>3, <1>7, <1>8, LoadFacts
<1>10. ASSUME kept = unsynced \o SubSeq(ws, 1, n - Len(unsynced)), n - Len(unsynced) \in 0..Len(ws)
       PROVE  \E m \in 0..Len(ws) : Content' = Apply(Content, SubSeq(ws, 1, m))
  <2>1. PICK m : m = n - Len(unsynced)
    OBVIOUS
  <2>2. PICK s : s = SubSeq(ws, 1, m)
    OBVIOUS
  <2>3. s \in Seq(EngineWrite) /\ m \in 0..Len(ws)
    BY <1>10, <2>1, <2>2, PrefixFacts
  <2>4. kept = unsynced \o s
    BY <1>10, <2>1, <2>2, Zenon
  <2>5. Apply(disk, unsynced \o s) = Apply(Apply(disk, unsynced), s)
    BY <1>5, <2>3, ApplyConcat
  <2>6. d = Apply(Apply(disk, unsynced), s)
    BY <1>2, <2>4, <2>5, Zenon
  <2> QED BY <1>8, <2>2, <2>3, <2>6 DEF Content
<1>11. ASSUME kind # "process" PROVE inherited => FailureAfterOpen
  <2>1. kind = "power"
    BY <1>11, LogStoreAssumption
  <2> QED BY <1>3, <2>1
<1>12. CASE kind = "process"
  <2>1. kept = unsynced \o SubSeq(ws, 1, n - Len(unsynced)) /\ n - Len(unsynced) \in 0..Len(ws)
    BY <1>2, <1>3, <1>5, <1>12, PrefixOfConcat
  <2> QED BY <1>8, <1>9, <1>10, <2>1
<1>13. CASE kind # "process"
  <2>1. \/ n \in 0..Len(unsynced) /\ kept = SubSeq(unsynced, 1, n)
        \/ kept = unsynced \o SubSeq(ws, 1, n - Len(unsynced)) /\ n - Len(unsynced) \in 0..Len(ws)
    BY <1>2, <1>5, PrefixOfConcat
  <2>2. CASE n \in 0..Len(unsynced) /\ kept = SubSeq(unsynced, 1, n)
    <3>1. Content' = Apply(disk, SubSeq(unsynced, 1, n))
      BY <1>2, <1>8, <2>2
    <3> QED BY <1>8, <1>9, <1>11, <1>13, <2>2, <3>1
  <2>3. CASE kept = unsynced \o SubSeq(ws, 1, n - Len(unsynced)) /\ n - Len(unsynced) \in 0..Len(ws)
    BY <1>8, <1>9, <1>10, <2>3
  <2> QED BY <2>1, <2>2, <2>3
<1> QED BY <1>12, <1>13

-----------------------------------------------------------------------------
(* What operations and crashes do to the content.                          *)

LEMMA ContentFacts ==
    ASSUME NEW d \in EngineContent
    PROVE  /\ d[TermVote] = Absent \/ d[TermVote] \in TermVoteValue
           /\ d[CommitIndex] = Absent \/ d[CommitIndex] \in CommitValue
           /\ \A i \in Index : d[Entry(i)] = Absent \/ d[Entry(i)] \in EntryValue
           /\ \A i \in Index : i \in Stored(d) <=> d[Entry(i)] # Absent
           /\ Stored(d) \subseteq Index
<1>1. \A k \in EngineKey : Fits(k, d[k])
    BY DEF EngineContent
<1>2. \A i \in Index : d[Entry(i)] = Absent \/ d[Entry(i)] \in EntryValue
    BY <1>1, KeyFacts, FitFacts, Zenon
<1>3. /\ d[TermVote] = Absent \/ d[TermVote] \in TermVoteValue
      /\ d[CommitIndex] = Absent \/ d[CommitIndex] \in CommitValue
    BY <1>1, KeyFacts, FitFacts, Zenon
<1> QED BY <1>2, <1>3, Zenon DEF Stored

LEMMA MemoryFacts ==
    ASSUME StoreInv
    PROVE  /\ disk \in EngineContent /\ unsynced \in Seq(EngineWrite)
           /\ Content \in EngineContent
           /\ MaxIndex \in Nat /\ lastIndex \in 0..MaxIndex /\ commitIndex \in 0..MaxIndex
           /\ term \in Nat /\ vote \in Node \cup {NoVote}
           /\ Content[TermVote] = Absent => term = 0 /\ vote = NoVote
           /\ Content[TermVote] # Absent => /\ Content[TermVote] = [term |-> term, vote |-> vote]
                                            /\ term > 0
           /\ Content[CommitIndex] = Absent => commitIndex = 0 /\ commitTerm = 0
           /\ Content[CommitIndex] # Absent =>
                 /\ Content[CommitIndex] = [index |-> commitIndex, term |-> commitTerm]
                 /\ commitIndex > 0
<1>1. disk \in EngineContent /\ unsynced \in Seq(EngineWrite)
    BY DEF StoreInv, StoreTypes
<1>2. Content \in EngineContent
    BY <1>1, ApplyType DEF Content
<1>3. PICK d : d = Content
    OBVIOUS
<1>4. /\ term = IF d[TermVote] = Absent THEN 0 ELSE d[TermVote].term
      /\ vote = IF d[TermVote] = Absent THEN NoVote ELSE d[TermVote].vote
      /\ lastIndex \in Stored(d) \cup {0}
      /\ commitIndex = IF d[CommitIndex] = Absent THEN 0 ELSE d[CommitIndex].index
      /\ commitTerm = IF d[CommitIndex] = Absent THEN 0 ELSE d[CommitIndex].term
    BY <1>3, Zenon DEF StoreInv, Loaded
<1>5. /\ d[TermVote] = Absent \/ d[TermVote] \in TermVoteValue
      /\ d[CommitIndex] = Absent \/ d[CommitIndex] \in CommitValue
      /\ Stored(d) \subseteq Index
    BY <1>2, <1>3, ContentFacts
<1>6. MaxIndex \in Nat
    BY LogStoreAssumption
<1>7. lastIndex \in 0..MaxIndex
    BY <1>4, <1>5, <1>6 DEF Index
<1>8. /\ term \in Nat /\ vote \in Node \cup {NoVote}
      /\ d[TermVote] = Absent => term = 0 /\ vote = NoVote
      /\ d[TermVote] # Absent => d[TermVote] = [term |-> term, vote |-> vote] /\ term > 0
  <2>1. CASE d[TermVote] = Absent
    BY <1>4, <2>1
  <2>2. CASE d[TermVote] # Absent
    <3>1. PICK t \in Nat \ {0}, v \in Node \cup {NoVote} : d[TermVote] = [term |-> t, vote |-> v]
      BY <1>5, <2>2 DEF TermVoteValue
    <3> QED BY <1>4, <2>2, <3>1
  <2> QED BY <2>1, <2>2
<1>9. /\ commitIndex \in 0..MaxIndex
      /\ d[CommitIndex] = Absent => commitIndex = 0 /\ commitTerm = 0
      /\ d[CommitIndex] # Absent =>
            d[CommitIndex] = [index |-> commitIndex, term |-> commitTerm] /\ commitIndex > 0
  <2>1. CASE d[CommitIndex] = Absent
    BY <1>4, <1>6, <2>1
  <2>2. CASE d[CommitIndex] # Absent
    <3>1. PICK i \in 1..MaxIndex, t \in Nat : d[CommitIndex] = [index |-> i, term |-> t]
      BY <1>5, <2>2 DEF CommitValue
    <3> QED BY <1>4, <1>6, <2>2, <3>1
  <2> QED BY <2>1, <2>2
<1> QED BY <1>1, <1>2, <1>3, <1>6, <1>7, <1>8, <1>9

LEMMA PerformFacts ==
    ASSUME StoreTypes, NEW ws \in Seq(EngineWrite), NEW flush \in BOOLEAN, Perform(ws, flush)
    PROVE  /\ StoreTypes' /\ Content' = Apply(Content, ws)
           /\ flush => disk' = Content' /\ unsynced' = <<>> /\ ~inherited'
           /\ ~flush => disk' = disk /\ unsynced' = unsynced \o ws /\ inherited' = inherited
<1>1. disk \in EngineContent /\ unsynced \in Seq(EngineWrite) /\ inherited \in BOOLEAN
    BY DEF StoreTypes
<1>2. Content \in EngineContent
    BY <1>1, ApplyType DEF Content
<1>3. Apply(Content, ws) \in EngineContent
    BY <1>2, ApplyType
<1>4. CASE flush
  <2>1. disk' = Apply(Content, ws) /\ unsynced' = <<>> /\ inherited' = FALSE
    BY <1>4, Zenon DEF Perform
  <2>2. Content' = disk'
    BY <1>3, <2>1, ApplyNone DEF Content
  <2>3. StoreTypes'
    BY <1>3, <2>1, ApplyNone DEF StoreTypes
  <2> QED BY <1>4, <2>1, <2>2, <2>3
<1>5. CASE ~flush
  <2>1. unsynced' = unsynced \o ws /\ disk' = disk /\ inherited' = inherited
    BY <1>5, Zenon DEF Perform
  <2>2. Content' = Apply(Content, ws)
    BY <1>1, <2>1, ApplyConcat DEF Content
  <2>3. unsynced \o ws \in Seq(EngineWrite)
    BY <1>1, ConcatProperties
  <2>4. StoreTypes'
    BY <1>1, <2>1, <2>3 DEF StoreTypes
  <2> QED BY <1>5, <2>1, <2>2, <2>4
<1> QED BY <1>4, <1>5

\* A key holds its old value or one that was written.
LEMMA ApplyChanges ==
    ASSUME NEW d \in EngineContent, NEW ws \in Seq(EngineWrite), NEW n \in 0..Len(ws),
           NEW k \in EngineKey
    PROVE  \/ Apply(d, SubSeq(ws, 1, n))[k] = d[k]
           \/ \E i \in 1..Len(ws) :
                 ws[i].key = k /\ Apply(d, SubSeq(ws, 1, n))[k] = ws[i].value
<1>1. PICK s : s = SubSeq(ws, 1, n)
    OBVIOUS
<1>2. /\ s \in Seq(EngineWrite) /\ Len(s) = n
      /\ \A i \in 1..n : i \in 1..Len(ws) /\ s[i] = ws[i]
    BY <1>1, PrefixFacts
<1>3. ASSUME \A i \in 1..Len(s) : s[i].key # k PROVE Apply(d, s)[k] = d[k]
    BY <1>2, <1>3, ApplyElse
<1>4. ASSUME NEW i \in 1..Len(s), s[i].key = k, \A j \in 1..Len(s) : s[j].key = k => j <= i
      PROVE  \E j \in 1..Len(ws) : ws[j].key = k /\ Apply(d, s)[k] = ws[j].value
  <2>1. Apply(d, s)[k] = s[i].value
    BY <1>2, <1>4, ApplyAt
  <2>2. i \in 1..Len(ws) /\ s[i] = ws[i]
    BY <1>2
  <2> QED BY <1>4, <2>1, <2>2
<1>5. \/ Apply(d, s)[k] = d[k]
      \/ \E i \in 1..Len(ws) : ws[i].key = k /\ Apply(d, s)[k] = ws[i].value
  <2>1. \/ \A i \in 1..Len(s) : s[i].key # k
        \/ \E i \in 1..Len(s) : s[i].key = k /\ \A j \in 1..Len(s) : s[j].key = k => j <= i
    BY <1>2, LastWrite
  <2> QED BY <1>3, <1>4, <2>1
<1> QED BY <1>1, <1>5, Zenon

LEMMA OneWrite ==
    ASSUME NEW d \in EngineContent, NEW k \in EngineKey, NEW v, Fits(k, v)
    PROVE  /\ <<Set(k, v)>> \in Seq(EngineWrite) /\ Len(<<Set(k, v)>>) = 1
           /\ <<Set(k, v)>>[1].key = k /\ <<Set(k, v)>>[1].value = v
           /\ Apply(d, <<Set(k, v)>>)[k] = v
           /\ \A j \in EngineKey \ {k} : Apply(d, <<Set(k, v)>>)[j] = d[j]
<1>1. PICK w, ws : w = Set(k, v) /\ ws = <<w>>
    OBVIOUS
<1>2. w \in EngineWrite /\ w.key = k /\ w.value = v
    BY <1>1, SetIsWrite
<1>3. ws \in Seq(EngineWrite) /\ Len(ws) = 1 /\ ws[1] = w /\ 1..Len(ws) = {1}
    BY <1>1, <1>2
<1>4. Apply(d, ws)[k] = v
  <2>1. 1 \in 1..Len(ws) /\ \A j \in 1..Len(ws) : j <= 1
    BY <1>3
  <2> QED BY <1>2, <1>3, <2>1, ApplyAt
<1>5. \A j \in EngineKey \ {k} : Apply(d, ws)[j] = d[j]
  <2> SUFFICES ASSUME NEW j \in EngineKey, j # k PROVE Apply(d, ws)[j] = d[j]
    OBVIOUS
  <2>1. \A i \in 1..Len(ws) : ws[i].key # j
    BY <1>2, <1>3
  <2> QED BY <1>3, <2>1, ApplyElse
<1> QED BY <1>1, <1>2, <1>3, <1>4, <1>5

\* The commit index is written only with a sound value, and by itself; entries
\* up to it are not written.
SafeWrites(ws) ==
    \/ \A i \in 1..Len(ws) : ws[i].key = CommitIndex /\ Sound(ws[i].value, Content)
    \/ \A i \in 1..Len(ws) :
          \/ ws[i].key = TermVote
          \/ \E j \in Index : j > commitIndex /\ ws[i].key = Entry(j)

LEMMA StoredCommit ==
    StoreInv => (Content[CommitIndex] # Absent => /\ Content[CommitIndex].index = commitIndex
                                                  /\ commitIndex \in Int)
BY MemoryFacts

\* Where the last write was flushed, or is not known to be, the commit index that
\* the engine holds is the only one that may be seen.
LEMMA CommitsAtEnd ==
    ASSUME StoreInv', ~inherited' => unsynced' = <<>> /\ disk' = Content',
           Sound(Content'[CommitIndex], Content')
    PROVE  CommitsInv'
<1>1. PICK v : v = Content'[CommitIndex]
    OBVIOUS
<1>2. v # Absent => v.index <= commitIndex'
  <2>1. (Content[CommitIndex] # Absent => /\ Content[CommitIndex].index = commitIndex
                                          /\ commitIndex \in Int)'
    BY StoredCommit, PTL
  <2> QED BY <1>1, <2>1
<1>3. MayReturn(Content[CommitIndex])'
    BY <1>1, <1>2 DEF MayReturn, Sound
<1>4. ASSUME ~inherited' PROVE MayReturn(disk[CommitIndex])' /\ 1..Len(unsynced') = {}
    BY <1>3, <1>4 DEF MayReturn, Sound
<1> QED BY <1>3, <1>4 DEF CommitsInv

\* A crash in the middle of an operation loses or changes nothing but what that
\* operation writes, and the commit index, whose entry is there.
LEMMA CrashKeeps ==
    ASSUME StoreInv, CommitsInv, ~FailureAfterOpen,
           NEW ws \in Seq(EngineWrite), SafeWrites(ws), CrashDuring(ws)
    PROVE  /\ StoreInv' /\ CommitsInv'
           /\ \A i \in 1..commitIndex : Content'[Entry(i)] = Content[Entry(i)]
           /\ \A k \in EngineKey :
                 \/ k = CommitIndex \/ Content'[k] = Content[k]
                 \/ \E i \in 1..Len(ws) : ws[i].key = k /\ Content'[k] = ws[i].value
<1>1. PICK d, e : d = Content /\ e = Content'
    OBVIOUS
<1>2. /\ StoreInv' /\ (~inherited' => unsynced' = <<>> /\ disk' = Content')
      /\ \/ \E m \in 0..Len(ws) : e = Apply(d, SubSeq(ws, 1, m))
         \/ ~inherited /\ \E n \in 0..Len(unsynced) : e = Apply(disk, SubSeq(unsynced, 1, n))
    BY <1>1, CrashFacts DEF StoreInv
<1>3. /\ disk \in EngineContent /\ unsynced \in Seq(EngineWrite) /\ d \in EngineContent
      /\ MaxIndex \in Nat /\ commitIndex \in 0..MaxIndex
    BY <1>1, MemoryFacts
<1>4. MayReturn(d[CommitIndex])
    BY <1>1 DEF CommitsInv
<1> DEFINE Kept ==
      /\ e \in EngineContent
      /\ \A k \in EngineKey :
            \/ k = CommitIndex \/ e[k] = d[k]
            \/ \E i \in 1..Len(ws) : ws[i].key = k /\ e[k] = ws[i].value
      /\ \/ MayReturn(e[CommitIndex])
         \/ \E i \in 1..Len(ws) : ws[i].key = CommitIndex /\ e[CommitIndex] = ws[i].value
<1>5. Kept
  <2>1. ASSUME NEW m \in 0..Len(ws), e = Apply(d, SubSeq(ws, 1, m)) PROVE Kept
    <3>1. SubSeq(ws, 1, m) \in Seq(EngineWrite)
      BY PrefixFacts
    <3>2. e \in EngineContent
      BY <1>3, <2>1, <3>1, ApplyType
    <3>3. \A k \in EngineKey :
             e[k] = d[k] \/ \E i \in 1..Len(ws) : ws[i].key = k /\ e[k] = ws[i].value
      BY <1>3, <2>1, ApplyChanges
    <3> QED BY <1>4, <3>2, <3>3, KeyFacts
  <2>2. ASSUME ~inherited, NEW n \in 0..Len(unsynced), e = Apply(disk, SubSeq(unsynced, 1, n))
        PROVE  Kept
    <3>1. SubSeq(unsynced, 1, n) \in Seq(EngineWrite)
      BY <1>3, PrefixFacts
    <3>2. e \in EngineContent
      BY <1>3, <2>2, <3>1, ApplyType
    <3>3. /\ MayReturn(disk[CommitIndex])
          /\ \A i \in 1..Len(unsynced) :
                unsynced[i].key = CommitIndex /\ MayReturn(unsynced[i].value)
      BY <2>2 DEF CommitsInv
    <3>4. \A k \in EngineKey :
             \/ e[k] = disk[k]
             \/ \E i \in 1..Len(unsynced) : unsynced[i].key = k /\ e[k] = unsynced[i].value
      BY <1>3, <2>2, ApplyChanges
    <3>5. ASSUME NEW k \in EngineKey, k # CommitIndex PROVE e[k] = d[k]
      <4>1. \A i \in 1..Len(unsynced) : unsynced[i].key # k
        BY <3>3, <3>5
      <4>2. d[k] = disk[k]
        BY <1>1, <1>3, <4>1, ApplyElse DEF Content
      <4> QED BY <3>4, <4>1, <4>2
    <3>6. MayReturn(e[CommitIndex])
      BY <3>3, <3>4, KeyFacts
    <3> QED BY <3>2, <3>5, <3>6
  <2> QED BY <1>2, <2>1, <2>2
<1>6. ASSUME NEW i \in 1..commitIndex PROVE e[Entry(i)] = d[Entry(i)]
  <2>1. i \in Index /\ ~(i > commitIndex)
    BY <1>3 DEF Index
  <2>2. \A j \in 1..Len(ws) : ws[j].key # Entry(i)
    BY <2>1, KeyFacts, Zenon DEF SafeWrites
  <2> QED BY <1>5, <2>1, <2>2, KeyFacts
<1>7. Sound(e[CommitIndex], e)
  <2> SUFFICES ASSUME NEW v, v = e[CommitIndex], v # Absent
               PROVE  e[Entry(v.index)] = [term |-> v.term]
    BY DEF Sound
  <2>1. v \in CommitValue
    BY <1>5, ContentFacts
  <2>2. v.index \in 1..MaxIndex /\ v.index \in Index
    BY <2>1 DEF CommitValue, Index
  <2>3. CASE MayReturn(v)
    <3>1. d[Entry(v.index)] = [term |-> v.term] /\ v.index <= commitIndex
      BY <1>1, <2>3 DEF MayReturn, Sound
    <3>2. v.index \in 1..commitIndex
      BY <1>3, <2>2, <3>1
    <3> QED BY <1>6, <3>1, <3>2
  <2>4. ASSUME NEW i \in 1..Len(ws), ws[i].key = CommitIndex, v = ws[i].value
        PROVE  e[Entry(v.index)] = [term |-> v.term]
    <3>1. \A j \in 1..Len(ws) : ws[j].key = CommitIndex /\ Sound(ws[j].value, d)
      BY <1>1, <2>4, KeyFacts DEF SafeWrites
    <3>2. e[Entry(v.index)] = d[Entry(v.index)]
      BY <1>5, <2>2, <3>1, KeyFacts
    <3>3. Sound(v, d)
      BY <2>4, <3>1
    <3> QED BY <3>2, <3>3 DEF Sound
  <2> QED BY <1>5, <2>3, <2>4
<1>8. CommitsInv'
    BY <1>1, <1>2, <1>7, CommitsAtEnd
<1> QED BY <1>1, <1>2, <1>5, <1>6, <1>8

\* The same for an operation that runs to its end and flushes.
LEMMA FlushKeeps ==
    ASSUME StoreInv, CommitsInv, NEW ws \in Seq(EngineWrite), StoreInv',
           \A i \in 1..Len(ws) :
              ws[i].key = TermVote \/ \E j \in Index : j > commitIndex /\ ws[i].key = Entry(j),
           Perform(ws, TRUE)
    PROVE  /\ CommitsInv'
           /\ \A i \in 1..commitIndex : Content'[Entry(i)] = Content[Entry(i)]
<1>1. PICK d, e : d = Content /\ e = Content'
    OBVIOUS
<1>2. e = Apply(d, ws) /\ disk' = Content' /\ unsynced' = <<>>
    BY <1>1, PerformFacts DEF StoreInv
<1>3. /\ d \in EngineContent /\ MaxIndex \in Nat /\ commitIndex \in 0..MaxIndex
    BY <1>1, MemoryFacts
<1>4. MayReturn(d[CommitIndex])
    BY <1>1 DEF CommitsInv
<1>5. ASSUME NEW i \in 1..commitIndex PROVE e[Entry(i)] = d[Entry(i)]
  <2>1. i \in Index /\ ~(i > commitIndex)
    BY <1>3 DEF Index
  <2>2. \A j \in 1..Len(ws) : ws[j].key # Entry(i)
    BY <2>1, KeyFacts, Zenon
  <2> QED BY <1>2, <1>3, <2>1, <2>2, KeyFacts, ApplyElse
<1>6. e[CommitIndex] = d[CommitIndex]
  <2>1. \A j \in 1..Len(ws) : ws[j].key # CommitIndex
    BY KeyFacts, Zenon
  <2> QED BY <1>2, <1>3, <2>1, KeyFacts, ApplyElse
<1>7. Sound(e[CommitIndex], e)
  <2> SUFFICES ASSUME NEW v, v = d[CommitIndex], v # Absent
               PROVE  e[Entry(v.index)] = [term |-> v.term]
    BY <1>6 DEF Sound
  <2>1. v \in CommitValue
    BY <1>3, ContentFacts
  <2>2. v.index \in 1..MaxIndex
    BY <2>1 DEF CommitValue
  <2>3. d[Entry(v.index)] = [term |-> v.term] /\ v.index <= commitIndex
    BY <1>1, <1>4 DEF MayReturn, Sound
  <2>4. v.index \in 1..commitIndex
    BY <1>3, <2>2, <2>3
  <2> QED BY <1>5, <2>3, <2>4
<1>8. CommitsInv'
    BY <1>1, <1>2, <1>7, CommitsAtEnd
<1> QED BY <1>1, <1>5, <1>8

-----------------------------------------------------------------------------
(* The operations.                                                         *)

LEMMA LoadedFacts ==
    StoreInv =>
        /\ term = IF Content[TermVote] = Absent THEN 0 ELSE Content[TermVote].term
        /\ vote = IF Content[TermVote] = Absent THEN NoVote ELSE Content[TermVote].vote
        /\ lastIndex \in Stored(Content) \cup {0} /\ \A i \in Stored(Content) : i <= lastIndex
        /\ lastTerm = IF lastIndex = 0 THEN 0 ELSE Content[Entry(lastIndex)].term
        /\ commitIndex = IF Content[CommitIndex] = Absent THEN 0 ELSE Content[CommitIndex].index
        /\ commitTerm = IF Content[CommitIndex] = Absent THEN 0 ELSE Content[CommitIndex].term
BY Zenon DEF StoreInv, Loaded

\* The conditions under which Loaded holds after a step.
LEMMA LoadedAfter ==
    ASSUME NEW e, e = Content', StoreTypes',
           /\ term' = IF e[TermVote] = Absent THEN 0 ELSE e[TermVote].term
           /\ vote' = IF e[TermVote] = Absent THEN NoVote ELSE e[TermVote].vote
           /\ lastIndex' \in Stored(e) \cup {0} /\ \A i \in Stored(e) : i <= lastIndex'
           /\ lastTerm' = IF lastIndex' = 0 THEN 0 ELSE e[Entry(lastIndex')].term
           /\ commitIndex' = IF e[CommitIndex] = Absent THEN 0 ELSE e[CommitIndex].index
           /\ commitTerm' = IF e[CommitIndex] = Absent THEN 0 ELSE e[CommitIndex].term
    PROVE  StoreInv'
BY Zenon DEF StoreInv, Loaded

\* No vote is lost where the engine's term and vote stay.
VoteKept == term' >= term /\ (term' = term /\ vote # NoVote => vote' = vote)

LEMMA SameVote ==
    ASSUME StoreInv, StoreInv', Content'[TermVote] = Content[TermVote]
    PROVE  term' = term /\ vote' = vote /\ VoteKept
<1>1. /\ term = IF Content[TermVote] = Absent THEN 0 ELSE Content[TermVote].term
      /\ vote = IF Content[TermVote] = Absent THEN NoVote ELSE Content[TermVote].vote
    BY LoadedFacts
<1>2. /\ term' = IF Content'[TermVote] = Absent THEN 0 ELSE Content'[TermVote].term
      /\ vote' = IF Content'[TermVote] = Absent THEN NoVote ELSE Content'[TermVote].vote
  <2>1. (/\ term = IF Content[TermVote] = Absent THEN 0 ELSE Content[TermVote].term
         /\ vote = IF Content[TermVote] = Absent THEN NoVote ELSE Content[TermVote].vote)'
    BY LoadedFacts, PTL
  <2> QED BY <2>1
<1>3. term' = term /\ vote' = vote
    BY <1>1, <1>2
<1>4. term \in Nat
    BY MemoryFacts
<1> QED BY <1>3, <1>4 DEF VoteKept

\* What an operation must keep.
Keeps ==
    /\ CommitsInv'
    /\ \A i \in 1..commitIndex : Content'[Entry(i)] = Content[Entry(i)]
    /\ VoteKept

LEMMA TermVoteStep ==
    ASSUME StoreInv, NEW t \in 1..MaxTerm, NEW v \in Node \cup {NoVote}, SetTermVote(t, v)
    PROVE  StoreInv' /\ (CommitsInv /\ ~FailureAfterOpen => Keeps)
<1>1. PICK d, e, tv, ws : /\ d = Content /\ e = Content'
                          /\ tv = [term |-> t, vote |-> v] /\ ws = TermVoteWrites(t, v)
    OBVIOUS
<1>2. d \in EngineContent /\ term \in Nat /\ StoreTypes
    BY <1>1, MemoryFacts DEF StoreInv
<1>3. t \in Nat \ {0}
    BY LogStoreAssumption
<1>4. /\ tv \in TermVoteValue /\ tv # Absent /\ tv.term = t /\ tv.vote = v
      /\ Fits(TermVote, tv) /\ TermVote \in EngineKey
  <2>1. tv \in TermVoteValue /\ tv.term = t /\ tv.vote = v
    BY <1>1, <1>3 DEF TermVoteValue
  <2> QED BY <2>1, FitFacts, KeyFacts
<1>5. /\ ws \in Seq(EngineWrite) /\ Len(ws) = 1 /\ ws[1].key = TermVote /\ ws[1].value = tv
      /\ Apply(d, ws)[TermVote] = tv
      /\ \A k \in EngineKey \ {TermVote} : Apply(d, ws)[k] = d[k]
    BY <1>1, <1>2, <1>4, OneWrite DEF TermVoteWrites
<1>6. \A i \in 1..Len(ws) : i = 1
    BY <1>5
<1>7. t >= term /\ (t > term \/ vote = NoVote)
    BY DEF SetTermVote
<1>8. ASSUME term' = t, vote' = v PROVE VoteKept
    BY <1>2, <1>3, <1>7, <1>8 DEF VoteKept
<1>9. CASE /\ Perform(ws, TRUE) /\ term' = t /\ vote' = v
           /\ UNCHANGED <<lastIndex, lastTerm, commitIndex, commitTerm, crashes, compactions>>
  <2>1. StoreTypes' /\ e = Apply(d, ws)
    BY <1>1, <1>2, <1>5, <1>9, PerformFacts
  <2>2. e[TermVote] = tv /\ e[CommitIndex] = d[CommitIndex] /\ \A i \in Index : e[Entry(i)] = d[Entry(i)]
    BY <1>5, <2>1, KeyFacts
  <2>3. Stored(e) = Stored(d) /\ Stored(d) \subseteq Index
    BY <2>2 DEF Stored
  <2>4. /\ lastIndex \in Stored(d) \cup {0} /\ \A i \in Stored(d) : i <= lastIndex
        /\ lastTerm = IF lastIndex = 0 THEN 0 ELSE d[Entry(lastIndex)].term
        /\ commitIndex = IF d[CommitIndex] = Absent THEN 0 ELSE d[CommitIndex].index
        /\ commitTerm = IF d[CommitIndex] = Absent THEN 0 ELSE d[CommitIndex].term
    BY <1>1, LoadedFacts
  <2>5. /\ lastIndex' = lastIndex /\ lastTerm' = lastTerm /\ commitIndex' = commitIndex
        /\ commitTerm' = commitTerm
    BY <1>9
  <2>6. StoreInv'
    <3>1. lastTerm' = IF lastIndex' = 0 THEN 0 ELSE e[Entry(lastIndex')].term
      BY <2>2, <2>3, <2>4, <2>5
    <3> QED BY <1>1, <1>4, <1>9, <2>1, <2>2, <2>3, <2>4, <2>5, <3>1, LoadedAfter
  <2>7. ASSUME CommitsInv PROVE Keeps
    BY <1>5, <1>6, <1>8, <1>9, <2>6, <2>7, FlushKeeps DEF Keeps
  <2> QED BY <2>6, <2>7
<1>10. CASE CrashDuring(ws)
  <2>1. StoreInv'
    BY <1>2, <1>5, <1>10, CrashFacts DEF StoreInv
  <2>2. ASSUME CommitsInv, ~FailureAfterOpen PROVE Keeps
    <3>1. SafeWrites(ws)
      BY <1>5, <1>6 DEF SafeWrites
    <3>2. /\ CommitsInv'
          /\ \A i \in 1..commitIndex : Content'[Entry(i)] = Content[Entry(i)]
          /\ \A k \in EngineKey :
                \/ k = CommitIndex \/ Content'[k] = Content[k]
                \/ \E i \in 1..Len(ws) : ws[i].key = k /\ Content'[k] = ws[i].value
      BY <1>5, <1>10, <2>2, <3>1, CrashKeeps
    <3>3. Content'[TermVote] = Content[TermVote] \/ Content'[TermVote] = tv
      BY <1>5, <1>6, <3>2, KeyFacts
    <3>4. CASE Content'[TermVote] = Content[TermVote]
      BY <2>1, <3>2, <3>4, SameVote DEF Keeps
    <3>5. CASE Content'[TermVote] = tv
      <4>1. (/\ term = IF Content[TermVote] = Absent THEN 0 ELSE Content[TermVote].term
             /\ vote = IF Content[TermVote] = Absent THEN NoVote ELSE Content[TermVote].vote)'
        BY <2>1, LoadedFacts, PTL
      <4>2. term' = t /\ vote' = v
        BY <1>4, <3>5, <4>1
      <4> QED BY <1>8, <3>2, <4>2 DEF Keeps
    <3> QED BY <3>3, <3>4, <3>5
  <2> QED BY <2>1, <2>2
<1> QED BY <1>1, <1>9, <1>10, Zenon DEF SetTermVote

LEMMA CrashStep ==
    ASSUME StoreInv, NEW ws \in Seq(EngineWrite), CrashDuring(ws),
           \A i \in 1..Len(ws) : ws[i].key # TermVote
    PROVE  StoreInv' /\ (CommitsInv /\ ~FailureAfterOpen /\ SafeWrites(ws) => Keeps)
<1>1. StoreInv'
    BY CrashFacts DEF StoreInv
<1>2. ASSUME CommitsInv, ~FailureAfterOpen, SafeWrites(ws) PROVE Keeps
  <2>1. /\ CommitsInv'
        /\ \A i \in 1..commitIndex : Content'[Entry(i)] = Content[Entry(i)]
        /\ \A k \in EngineKey :
              \/ k = CommitIndex \/ Content'[k] = Content[k]
              \/ \E i \in 1..Len(ws) : ws[i].key = k /\ Content'[k] = ws[i].value
    BY <1>2, CrashKeeps
  <2>2. Content'[TermVote] = Content[TermVote]
    BY <2>1, KeyFacts
  <2> QED BY <1>1, <2>1, <2>2, SameVote DEF Keeps
<1> QED BY <1>1, <1>2

LEMMA AppendStep ==
    ASSUME StoreInv, AppendEntry
    PROVE  StoreInv' /\ (CommitsInv /\ ~FailureAfterOpen => Keeps)
<1>1. PICK d, e, n, en, ws : /\ d = Content /\ e = Content' /\ n = lastIndex + 1
                             /\ en = [term |-> term] /\ ws = AppendWrites
    OBVIOUS
<1>2. /\ d \in EngineContent /\ term \in Nat /\ StoreTypes /\ MaxIndex \in Nat
      /\ lastIndex \in 0..MaxIndex /\ commitIndex \in 0..MaxIndex
    BY <1>1, MemoryFacts DEF StoreInv
<1>3. n \in Index /\ n > lastIndex /\ n # 0
    BY <1>1, <1>2 DEF AppendEntry, Index
<1>4. /\ en \in EntryValue /\ en # Absent /\ en.term = term
      /\ Fits(Entry(n), en) /\ Entry(n) \in EngineKey
  <2>1. en \in EntryValue /\ en.term = term
    BY <1>1, <1>2 DEF EntryValue
  <2> QED BY <1>3, <2>1, FitFacts, KeyFacts
<1>5. /\ ws \in Seq(EngineWrite) /\ Len(ws) = 1 /\ ws[1].key = Entry(n) /\ ws[1].value = en
      /\ Apply(d, ws)[Entry(n)] = en
      /\ \A k \in EngineKey \ {Entry(n)} : Apply(d, ws)[k] = d[k]
    BY <1>1, <1>2, <1>4, OneWrite DEF AppendWrites
<1>6. \A i \in 1..Len(ws) : i = 1
    BY <1>5
<1>7. /\ term = IF d[TermVote] = Absent THEN 0 ELSE d[TermVote].term
      /\ vote = IF d[TermVote] = Absent THEN NoVote ELSE d[TermVote].vote
      /\ lastIndex \in Stored(d) \cup {0} /\ \A i \in Stored(d) : i <= lastIndex
      /\ commitIndex = IF d[CommitIndex] = Absent THEN 0 ELSE d[CommitIndex].index
      /\ commitTerm = IF d[CommitIndex] = Absent THEN 0 ELSE d[CommitIndex].term
    BY <1>1, LoadedFacts
<1>8. ASSUME CommitsInv
      PROVE  \A i \in 1..Len(ws) : \E j \in Index : j > commitIndex /\ ws[i].key = Entry(j)
  <2>1. commitIndex <= lastIndex
    <3>1. CASE d[CommitIndex] = Absent
      BY <1>2, <1>7, <3>1
    <3>2. CASE d[CommitIndex] # Absent
      <4>1. d[Entry(commitIndex)] = [term |-> commitTerm] /\ commitIndex \in Index
        <5>1. /\ d[CommitIndex] = [index |-> commitIndex, term |-> commitTerm]
              /\ commitIndex > 0
          BY <1>1, <3>2, MemoryFacts
        <5>2. d[Entry(d[CommitIndex].index)] = [term |-> d[CommitIndex].term]
          BY <1>1, <1>8, <3>2 DEF CommitsInv, MayReturn, Sound
        <5> QED BY <1>2, <5>1, <5>2 DEF Index
      <4>2. d[Entry(commitIndex)] # Absent
        <5>1. d[CommitIndex] \in CommitValue
          BY <1>2, <3>2, ContentFacts
        <5>2. commitTerm \in Nat
          BY <1>7, <3>2, <5>1 DEF CommitValue
        <5>3. [term |-> commitTerm] \in EntryValue
          BY <5>2 DEF EntryValue
        <5> QED BY <4>1, <5>3, FitFacts
      <4>3. commitIndex \in Stored(d)
        BY <4>1, <4>2 DEF Stored
      <4> QED BY <1>7, <4>3
    <3> QED BY <3>1, <3>2
  <2>2. n > commitIndex
    BY <1>1, <1>2, <2>1
  <2> QED BY <1>3, <1>5, <1>6, <2>2
<1>9. CASE /\ Perform(ws, TRUE) /\ lastIndex' = lastIndex + 1 /\ lastTerm' = term
           /\ UNCHANGED <<term, vote, commitIndex, commitTerm, crashes, compactions>>
  <2>1. StoreTypes' /\ e = Apply(d, ws)
    BY <1>1, <1>2, <1>5, <1>9, PerformFacts
  <2>2. /\ e[Entry(n)] = en /\ e[CommitIndex] = d[CommitIndex] /\ e[TermVote] = d[TermVote]
        /\ \A i \in Index : i # n => e[Entry(i)] = d[Entry(i)]
    BY <1>5, <2>1, KeyFacts
  <2>3. n \in Stored(e) /\ \A i \in Stored(e) : i = n \/ i \in Stored(d)
    BY <1>3, <1>4, <2>2 DEF Stored
  <2>4. \A i \in Stored(e) : i <= n
    <3>1. \A i \in Stored(d) : i \in Int
      BY DEF Stored, Index
    <3>2. lastIndex \in Int /\ n = lastIndex + 1
      BY <1>1, <1>2
    <3>3. ASSUME NEW i \in Stored(d) PROVE i <= n
      <4>1. i <= lastIndex /\ i \in Int
        BY <1>7, <3>1
      <4> QED BY <3>2, <4>1
    <3>4. n <= n
      BY <3>2
    <3> QED BY <2>3, <3>3, <3>4, Zenon
  <2>5. /\ lastIndex' = n /\ lastTerm' = en.term /\ commitIndex' = commitIndex
        /\ commitTerm' = commitTerm /\ term' = term /\ vote' = vote
    BY <1>1, <1>4, <1>9
  <2>6. StoreInv'
    BY <1>1, <1>3, <1>7, <2>1, <2>2, <2>3, <2>4, <2>5, LoadedAfter
  <2>7. ASSUME CommitsInv PROVE Keeps
    <3>1. VoteKept
      BY <1>1, <2>2, <2>6, SameVote
    <3> QED BY <1>5, <1>8, <1>9, <2>6, <2>7, <3>1, FlushKeeps DEF Keeps
  <2> QED BY <2>6, <2>7
<1>10. CASE CrashDuring(ws)
  <2>1. \A i \in 1..Len(ws) : ws[i].key # TermVote
    BY <1>5, <1>6, KeyFacts
  <2>2. CommitsInv => SafeWrites(ws)
    BY <1>8 DEF SafeWrites
  <2> QED BY <1>5, <1>10, <2>1, <2>2, CrashStep
<1> QED BY <1>1, <1>9, <1>10, Zenon DEF AppendEntry

LEMMA CommitStep ==
    ASSUME StoreInv, NEW i \in Index, Commit(i)
    PROVE  StoreInv' /\ (CommitsInv /\ ~FailureAfterOpen => Keeps)
<1>1. PICK d, e, t, ci, ws : /\ d = Content /\ e = Content' /\ t = Content[Entry(i)].term
                             /\ ci = [index |-> i, term |-> t] /\ ws = <<Set(CommitIndex, ci)>>
    OBVIOUS
<1>2. /\ d \in EngineContent /\ term \in Nat /\ StoreTypes /\ MaxIndex \in Nat
      /\ unsynced \in Seq(EngineWrite) /\ commitIndex \in 0..MaxIndex
    BY <1>1, MemoryFacts DEF StoreInv
<1>3. i > commitIndex /\ d[Entry(i)] # Absent
    BY <1>1 DEF Commit
<1>4. d[Entry(i)] = [term |-> t] /\ t \in Nat
  <2>1. d[Entry(i)] \in EntryValue
    BY <1>2, <1>3, ContentFacts
  <2> QED BY <1>1, <2>1 DEF EntryValue
<1>5. /\ ci \in CommitValue /\ ci # Absent /\ ci.index = i /\ ci.term = t
      /\ Fits(CommitIndex, ci) /\ CommitIndex \in EngineKey
  <2>1. ci \in CommitValue /\ ci.index = i /\ ci.term = t
    BY <1>1, <1>4 DEF CommitValue, Index
  <2> QED BY <2>1, FitFacts, KeyFacts
<1>6. /\ ws \in Seq(EngineWrite) /\ Len(ws) = 1 /\ ws[1].key = CommitIndex /\ ws[1].value = ci
      /\ Apply(d, ws)[CommitIndex] = ci
      /\ \A k \in EngineKey \ {CommitIndex} : Apply(d, ws)[k] = d[k]
    BY <1>1, <1>2, <1>5, OneWrite
<1>7. \A j \in 1..Len(ws) : j = 1
    BY <1>6
<1>8. Sound(ci, d)
    BY <1>4, <1>5 DEF Sound
<1>9. CASE /\ Perform(ws, FALSE) /\ commitIndex' = i /\ commitTerm' = t
           /\ UNCHANGED <<term, vote, lastIndex, lastTerm, crashes, compactions>>
  <2>1. /\ StoreTypes' /\ e = Apply(d, ws)
        /\ disk' = disk /\ unsynced' = unsynced \o ws /\ inherited' = inherited
    BY <1>1, <1>2, <1>6, <1>9, PerformFacts
  <2>2. /\ e[CommitIndex] = ci /\ e[TermVote] = d[TermVote]
        /\ \A j \in Index : e[Entry(j)] = d[Entry(j)]
    BY <1>6, <2>1, KeyFacts
  <2>3. Stored(e) = Stored(d) /\ Stored(d) \subseteq Index
    BY <2>2 DEF Stored
  <2>4. /\ term = IF d[TermVote] = Absent THEN 0 ELSE d[TermVote].term
        /\ vote = IF d[TermVote] = Absent THEN NoVote ELSE d[TermVote].vote
        /\ lastIndex \in Stored(d) \cup {0} /\ \A j \in Stored(d) : j <= lastIndex
        /\ lastTerm = IF lastIndex = 0 THEN 0 ELSE d[Entry(lastIndex)].term
    BY <1>1, LoadedFacts
  <2>5. /\ lastIndex' = lastIndex /\ lastTerm' = lastTerm /\ commitIndex' = i
        /\ commitTerm' = t /\ term' = term /\ vote' = vote
    BY <1>9
  <2>6. StoreInv'
    <3>1. lastTerm' = IF lastIndex' = 0 THEN 0 ELSE e[Entry(lastIndex')].term
      BY <2>2, <2>3, <2>4, <2>5
    <3> QED BY <1>1, <1>5, <2>1, <2>2, <2>3, <2>4, <2>5, <3>1, LoadedAfter
  <2>7. ASSUME CommitsInv PROVE Keeps
    <3>1. VoteKept
      BY <1>1, <2>2, <2>6, SameVote
    <3>2. \A j \in 1..commitIndex : e[Entry(j)] = d[Entry(j)]
      BY <1>2, <2>2 DEF Index
    <3>3. ASSUME NEW x, x = Absent \/ x \in CommitValue, MayReturn(x) PROVE MayReturn(x)'
      <4>1. CASE x = Absent
        BY <4>1 DEF MayReturn, Sound
      <4>2. CASE x # Absent
        <5>1. x.index \in Index /\ x.index \in Int
          BY <3>3, <4>2 DEF CommitValue, Index
        <5>2. d[Entry(x.index)] = [term |-> x.term] /\ x.index <= commitIndex
          BY <1>1, <3>3, <4>2 DEF MayReturn, Sound
        <5>3. e[Entry(x.index)] = [term |-> x.term] /\ x.index <= commitIndex'
          BY <1>2, <1>3, <2>2, <2>5, <5>1, <5>2 DEF Index
        <5> QED BY <1>1, <5>3 DEF MayReturn, Sound
      <4> QED BY <4>1, <4>2
    <3>4. MayReturn(ci)'
      <4>1. e[Entry(ci.index)] = [term |-> ci.term] /\ ci.index <= commitIndex'
        BY <1>4, <1>5, <2>2, <2>5 DEF Index
      <4> QED BY <1>1, <4>1 DEF MayReturn, Sound
    <3>5. MayReturn(Content[CommitIndex])'
      <4>1. Content'[CommitIndex] = ci
        BY <1>1, <2>2
      <4> QED BY <3>4, <4>1 DEF MayReturn, Sound
    <3>6. ASSUME ~inherited' PROVE MayReturn(disk[CommitIndex])'
      <4>1. MayReturn(disk[CommitIndex]) /\ disk \in EngineContent
        BY <2>1, <2>7, <3>6, MemoryFacts DEF CommitsInv
      <4>2. PICK x : x = disk[CommitIndex]
        OBVIOUS
      <4>3. MayReturn(x)'
        BY <3>3, <4>1, <4>2, ContentFacts
      <4> QED BY <2>1, <4>2, <4>3 DEF MayReturn, Sound
    <3>7. ASSUME ~inherited', NEW j \in 1..Len(unsynced')
          PROVE  unsynced'[j].key = CommitIndex /\ MayReturn(unsynced[j].value)'
      <4>1. Len(unsynced) \in Nat /\ Len(unsynced') = Len(unsynced) + 1
            /\ \A m \in 1..Len(unsynced) + 1 :
                  unsynced'[m] = IF m <= Len(unsynced) THEN unsynced[m] ELSE ws[m - Len(unsynced)]
        <5>1. PICK u, w : u = unsynced /\ w = unsynced'
          OBVIOUS
        <5>2. /\ Len(u) \in Nat /\ Len(w) = Len(u) + Len(ws)
              /\ \A m \in 1..Len(u) + Len(ws) :
                    w[m] = IF m <= Len(u) THEN u[m] ELSE ws[m - Len(u)]
          <6>1. u \in Seq(EngineWrite) /\ w = u \o ws
            BY <1>2, <2>1, <5>1
          <6>2. ws \in Seq(EngineWrite)
            BY <1>6
          <6> QED BY <6>1, <6>2, ConcatFacts
        <5> QED BY <1>6, <5>1, <5>2
      <4>2. CASE j <= Len(unsynced)
        <5>1. j \in 1..Len(unsynced) /\ unsynced'[j] = unsynced[j]
          BY <4>1, <4>2
        <5>2. unsynced[j].key = CommitIndex /\ MayReturn(unsynced[j].value)
          BY <2>1, <2>7, <3>7, <5>1 DEF CommitsInv
        <5>3. PICK x : x = unsynced[j].value
          OBVIOUS
        <5>4. x = Absent \/ x \in CommitValue
          BY <1>2, <5>1, <5>2, <5>3, WriteFacts, FitFacts
        <5>5. MayReturn(x)'
          BY <3>3, <5>2, <5>3, <5>4
        <5> QED BY <5>1, <5>2, <5>3, <5>5 DEF MayReturn, Sound
      <4>3. CASE ~(j <= Len(unsynced))
        <5>1. j - Len(unsynced) = 1 /\ unsynced'[j] = ws[j - Len(unsynced)]
          BY <4>1, <4>3
        <5>2. unsynced'[j].key = CommitIndex /\ unsynced'[j].value = ci
          BY <1>6, <5>1
        <5> QED BY <3>4, <5>2 DEF MayReturn, Sound
      <4> QED BY <4>2, <4>3
    <3>8. CommitsInv'
      BY <3>5, <3>6, <3>7 DEF CommitsInv
    <3> QED BY <1>1, <3>1, <3>2, <3>8 DEF Keeps
  <2> QED BY <2>6, <2>7
<1>10. CASE CrashDuring(ws)
  <2>1. \A j \in 1..Len(ws) : ws[j].key # TermVote
    BY <1>6, <1>7, KeyFacts
  <2>2. SafeWrites(ws)
    BY <1>1, <1>6, <1>7, <1>8 DEF SafeWrites
  <2> QED BY <1>6, <1>10, <2>1, <2>2, CrashStep
<1> QED BY <1>1, <1>9, <1>10, Zenon DEF Commit

-----------------------------------------------------------------------------
(* Splices.                                                                *)

\* Writes to entries that follow each other, from index first + 1 on.
Run(first, n, f) == [i \in 1..n |-> Set(Entry(first + i), f[i])]

RunDone(d, first, n, f, ws) ==
    /\ ws \in Seq(EngineWrite) /\ Len(ws) = n
    /\ \A i \in 1..n : /\ first + i \in Index /\ ws[i].key = Entry(first + i)
                       /\ Apply(d, ws)[Entry(first + i)] = f[i]
    /\ \A k \in EngineKey :
          (\A i \in 1..n : k # Entry(first + i)) => Apply(d, ws)[k] = d[k]

LEMMA RunOfWrites ==
    ASSUME NEW d \in EngineContent, NEW first \in Nat, NEW n \in Nat, first + n <= MaxIndex,
           NEW f \in [1..n -> EntryValue \cup {Absent}],
           NEW ws, ws = Run(first, n, f)
    PROVE  RunDone(d, first, n, f, ws)
<1> USE DEF Run
<1>1. MaxIndex \in Nat
    BY LogStoreAssumption
<1>2. \A i \in 1..n : first + i \in Index
    BY <1>1 DEF Index
<1>3. \A i \in 1..n : Fits(Entry(first + i), f[i]) /\ Entry(first + i) \in EngineKey
    BY <1>2, FitFacts, KeyFacts
<1>4. \A i \in 1..n : /\ ws[i] \in EngineWrite /\ ws[i].key = Entry(first + i)
                      /\ ws[i].value = f[i]
  <2> SUFFICES ASSUME NEW i \in 1..n
               PROVE  /\ ws[i] \in EngineWrite /\ ws[i].key = Entry(first + i)
                      /\ ws[i].value = f[i]
    OBVIOUS
  <2>1. PICK k, v : k = Entry(first + i) /\ v = f[i]
    OBVIOUS
  <2>2. ws[i] = Set(k, v)
    BY <2>1
  <2> QED BY <1>3, <2>1, <2>2, SetIsWrite
<1>5. ws \in Seq(EngineWrite) /\ Len(ws) = n
  <2>1. ws \in [1..n -> EngineWrite]
    BY <1>4
  <2> QED BY <2>1, SeqOfFunction
<1>6. ASSUME NEW i \in 1..n PROVE Apply(d, ws)[Entry(first + i)] = f[i]
  <2>1. ASSUME NEW j \in 1..n, ws[j].key = ws[i].key PROVE j <= i
    <3>1. first + j = first + i
      BY <1>4, <2>1, KeyFacts
    <3> QED BY <3>1
  <2>2. Apply(d, ws)[ws[i].key] = ws[i].value
    BY <1>5, <2>1, ApplyAt
  <2> QED BY <1>4, <2>2
<1>7. ASSUME NEW k \in EngineKey, \A i \in 1..n : k # Entry(first + i)
      PROVE  Apply(d, ws)[k] = d[k]
  <2>1. \A i \in 1..Len(ws) : ws[i].key # k
    BY <1>4, <1>5, <1>7
  <2> QED BY <1>5, <2>1, ApplyElse
<1> QED BY <1>2, <1>4, <1>5, <1>6, <1>7 DEF RunDone

LEMMA SplicedFacts ==
    ASSUME NEW es \in SplicedEntries
    PROVE  /\ Len(es) \in 1..MaxIndex /\ Len(es) \in Nat /\ DOMAIN es = 1..Len(es)
           /\ es \in Seq(EntryValue)
           /\ \A j \in 1..Len(es) : es[j] \in EntryValue /\ es[j] = [term |-> es[j].term]
<1>1. PICK n \in 1..MaxIndex : es \in [1..n -> [term : 1..MaxTerm]]
    BY DEF SplicedEntries
<1>2. n \in Nat /\ MaxTerm \in Nat
    BY LogStoreAssumption
<1>3. es \in [1..n -> EntryValue]
    BY <1>1, <1>2 DEF EntryValue
<1>4. es \in Seq(EntryValue) /\ Len(es) = n
    BY <1>2, <1>3, SeqOfFunction
<1>5. \A j \in 1..n : es[j] \in EntryValue /\ es[j] = [term |-> es[j].term]
    BY <1>3 DEF EntryValue
<1> QED BY <1>1, <1>2, <1>3, <1>4, <1>5

\* Splice has run to its end with writes ws on content d, and left e: the old
\* entries up to the base, then the new ones, and nothing after them.
SpliceDone(d, base, es, ws, e) ==
    /\ base \in Nat /\ base + Len(es) \in Index /\ ws \in Seq(EngineWrite)
    /\ \A i \in 1..Len(ws) : \E j \in Index : j > commitIndex /\ ws[i].key = Entry(j)
    /\ \A j \in 1..Len(es) : e[Entry(base + j)] = es[j]
    /\ \A j \in Index : j > base + Len(es) => e[Entry(j)] = Absent
    /\ \A j \in 1..base : e[Entry(j)] = d[Entry(j)]
    /\ e[TermVote] = d[TermVote] /\ e[CommitIndex] = d[CommitIndex]

LEMMA SpliceContent ==
    ASSUME StoreInv, NEW base \in 0..MaxIndex - 1, NEW es \in SplicedEntries,
           CanSplice(base, es), Fresh(base, es) # {},
           NEW ws, ws = SpliceWrites(base, es), NEW e, e = Apply(Content, ws)
    PROVE  SpliceDone(Content, base, es, ws, e)
<1>1. PICK d, n, F, first : /\ d = Content /\ n = Len(es) /\ F = Fresh(base, es)
                            /\ first = CHOOSE k \in F : \A j \in F : k <= j
    OBVIOUS
<1>2. /\ MaxIndex \in Nat /\ n \in 1..MaxIndex /\ n \in Nat /\ base \in Nat
      /\ commitIndex \in 0..MaxIndex /\ lastIndex \in 0..MaxIndex /\ d \in EngineContent
    BY <1>1, SplicedFacts, MemoryFacts
<1>3. base + n <= MaxIndex /\ \A k \in F : base + k > commitIndex
    BY <1>1, Zenon DEF CanSplice, Connects
<1>4. F = {k \in 1..n : \E j \in 1..k :
              d[Entry(base + j)] = Absent \/ d[Entry(base + j)].term # es[j].term}
    BY <1>1 DEF Fresh
<1>5. first \in F /\ (\A j \in F : first <= j) /\ first \in 1..n
  <2>1. F \subseteq Nat /\ F # {}
    BY <1>1, <1>4
  <2>2. \E m \in F : \A v \in F : m <= v
    BY <2>1, HasMinimum
  <2>3. first \in F /\ \A j \in F : first <= j
    BY <1>1, <2>2
  <2> QED BY <1>4, <2>3
<1>6. \A m \in first..n : m \in F
  <2> SUFFICES ASSUME NEW m \in first..n PROVE m \in F
    OBVIOUS
  <2>1. PICK j \in 1..first : d[Entry(base + j)] = Absent \/ d[Entry(base + j)].term # es[j].term
    BY <1>4, <1>5
  <2>2. m \in 1..n /\ j \in 1..m
    BY <1>2, <1>5
  <2> QED BY <1>4, <2>1, <2>2
<1>7. ASSUME NEW j \in 1..n, j < first PROVE d[Entry(base + j)] = es[j]
  <2>1. j \notin F
    BY <1>2, <1>5, <1>7
  <2>2. j \in 1..j
    BY <1>2
  <2>3. d[Entry(base + j)] # Absent /\ d[Entry(base + j)].term = es[j].term
    BY <1>4, <2>1, <2>2
  <2>4. base + j \in Index
    BY <1>2, <1>3 DEF Index
  <2>5. d[Entry(base + j)] \in EntryValue
    BY <1>2, <2>3, <2>4, ContentFacts
  <2>6. d[Entry(base + j)] = [term |-> d[Entry(base + j)].term]
    BY <2>5 DEF EntryValue
  <2>7. es[j] = [term |-> es[j].term]
    BY <1>1, SplicedFacts
  <2> QED BY <2>3, <2>6, <2>7
<1>8. PICK skip, t : skip = first - 1 /\ t = IF lastIndex > base + n THEN lastIndex - (base + n) ELSE 0
    OBVIOUS
<1>9. /\ skip \in Nat /\ n - skip \in Nat /\ t \in Nat /\ base + n + t <= MaxIndex
      /\ (base + skip) + (n - skip) <= MaxIndex
  <2>1. skip \in Nat /\ n - skip \in Nat /\ (base + skip) + (n - skip) = base + n
    BY <1>2, <1>5, <1>8
  <2>2. t \in Nat /\ base + n + t <= MaxIndex
    BY <1>2, <1>3, <1>8
  <2> QED BY <1>3, <2>1, <2>2
<1>10. PICK f, g : f = [i \in 1..n - skip |-> es[skip + i]] /\ g = [i \in 1..t |-> Absent]
    OBVIOUS
<1>11. PICK a, b : /\ a = [i \in 1..n - skip |-> Set(Entry(base + skip + i), f[i])]
                   /\ b = [i \in 1..t |-> Set(Entry(base + n + i), g[i])]
    OBVIOUS
<1>12. ws = a \o b
  <2>1. Skipped(base, es) = skip
    BY <1>1, <1>8, Zenon DEF Skipped
  <2>2. a = [i \in 1..n - skip |-> Set(Entry(base + skip + i), es[skip + i])]
    BY <1>10, <1>11
  <2>3. b = [i \in 1..t |-> Delete(Entry(base + n + i))]
    BY <1>10, <1>11 DEF Set, Delete
  <2> QED BY <1>1, <1>8, <2>1, <2>2, <2>3, Zenon DEF SpliceWrites
<1>13. /\ f \in [1..n - skip -> EntryValue \cup {Absent}]
       /\ g \in [1..t -> EntryValue \cup {Absent}]
  <2>1. \A i \in 1..n - skip : skip + i \in 1..n
    BY <1>2, <1>9
  <2>2. \A j \in 1..n : es[j] \in EntryValue
    BY <1>1, SplicedFacts
  <2> QED BY <1>10, <2>1, <2>2
<1>14. PICK c : c = Apply(d, a)
    OBVIOUS
<1>15. /\ a \in Seq(EngineWrite) /\ Len(a) = n - skip
       /\ \A i \in 1..n - skip : /\ (base + skip) + i \in Index
                                 /\ a[i].key = Entry((base + skip) + i)
                                 /\ c[Entry((base + skip) + i)] = f[i]
       /\ \A k \in EngineKey :
             (\A i \in 1..n - skip : k # Entry((base + skip) + i)) => c[k] = d[k]
  <2>1. PICK o, m : o = base + skip /\ m = n - skip
    OBVIOUS
  <2>2. o \in Nat /\ m \in Nat /\ o + m <= MaxIndex
    BY <1>2, <1>9, <2>1
  <2>3. a = Run(o, m, f) /\ f \in [1..m -> EntryValue \cup {Absent}]
    BY <1>11, <1>13, <2>1, Zenon DEF Run
  <2>4. RunDone(d, o, m, f, a)
    BY <1>2, <2>2, <2>3, RunOfWrites
  <2> QED BY <1>14, <2>1, <2>4, Zenon DEF RunDone
<1>16. c \in EngineContent
    BY <1>2, <1>14, <1>15, ApplyType
<1>17. /\ b \in Seq(EngineWrite) /\ Len(b) = t
       /\ \A i \in 1..t : /\ (base + n) + i \in Index /\ b[i].key = Entry((base + n) + i)
                          /\ Apply(c, b)[Entry((base + n) + i)] = g[i]
       /\ \A k \in EngineKey :
             (\A i \in 1..t : k # Entry((base + n) + i)) => Apply(c, b)[k] = c[k]
  <2>1. PICK o : o = base + n
    OBVIOUS
  <2>2. o \in Nat /\ o + t <= MaxIndex /\ t \in Nat
    BY <1>2, <1>9, <2>1
  <2>3. b = Run(o, t, g) /\ g \in [1..t -> EntryValue \cup {Absent}]
    BY <1>11, <1>13, <2>1, Zenon DEF Run
  <2>4. RunDone(c, o, t, g, b)
    BY <1>16, <2>2, <2>3, RunOfWrites
  <2> QED BY <2>1, <2>4, Zenon DEF RunDone
<1>18. e = Apply(c, b)
    BY <1>1, <1>2, <1>12, <1>14, <1>15, <1>17, ApplyConcat
<1>19. ws \in Seq(EngineWrite)
    BY <1>12, <1>15, <1>17, ConcatFacts
<1>20. base + n \in Index
    BY <1>2, <1>3 DEF Index
<1>21. ASSUME NEW i \in 1..Len(ws)
       PROVE  \E j \in Index : j > commitIndex /\ ws[i].key = Entry(j)
  <2>1. /\ Len(a) \in Nat /\ Len(b) \in Nat /\ Len(ws) = Len(a) + Len(b)
        /\ \A m \in 1..Len(a) + Len(b) : ws[m] = IF m <= Len(a) THEN a[m] ELSE b[m - Len(a)]
    <3>1. a \in Seq(EngineWrite) /\ b \in Seq(EngineWrite)
      BY <1>15, <1>17
    <3> QED BY <1>12, <3>1, ConcatFacts
  <2>2. CASE i <= Len(a)
    <3>1. i \in 1..n - skip /\ ws[i] = a[i] /\ skip + i \in first..n
      BY <1>2, <1>5, <1>8, <1>9, <1>15, <2>1, <2>2
    <3>2. base + (skip + i) > commitIndex /\ base + (skip + i) = (base + skip) + i
      <4>1. base + (skip + i) > commitIndex
        BY <1>3, <1>6, <3>1
      <4>2. i \in Int
        BY <1>9
      <4> QED BY <1>2, <1>9, <4>1, <4>2
    <3> QED BY <1>15, <3>1, <3>2
  <2>3. CASE ~(i <= Len(a))
    <3>1. PICK m : m = i - Len(a)
      OBVIOUS
    <3>2. m \in 1..t /\ ws[i] = b[m]
      BY <1>17, <2>1, <2>3, <3>1
    <3>3. base + n > commitIndex
      BY <1>2, <1>3, <1>5, <1>6
    <3>4. (base + n) + m > commitIndex
      BY <1>2, <3>2, <3>3
    <3> QED BY <1>17, <3>2, <3>4
  <2> QED BY <2>2, <2>3
<1>22. ASSUME NEW j \in 1..n PROVE e[Entry(base + j)] = es[j]
  <2>1. base + j \in Index /\ Entry(base + j) \in EngineKey
    BY <1>2, <1>3, KeyFacts DEF Index
  <2>2. \A i \in 1..t : Entry(base + j) # Entry((base + n) + i)
    <3>1. \A i \in 1..t : base + j # (base + n) + i
      BY <1>2
    <3> QED BY <3>1, KeyFacts
  <2>3. e[Entry(base + j)] = c[Entry(base + j)]
    BY <1>17, <1>18, <2>1, <2>2
  <2>4. CASE j < first
    <3>1. \A i \in 1..n - skip : base + j # (base + skip) + i
      <4>1. first \in Int /\ n - skip \in Int /\ j < skip + 1
        BY <1>5, <1>8, <1>9, <2>4
      <4> QED BY <1>2, <1>9, <4>1
    <3>2. c[Entry(base + j)] = d[Entry(base + j)]
      BY <1>15, <2>1, <3>1, KeyFacts
    <3> QED BY <1>7, <2>3, <2>4, <3>2
  <2>5. CASE ~(j < first)
    <3>1. PICK i : i = j - skip
      OBVIOUS
    <3>2. i \in 1..n - skip /\ (base + skip) + i = base + j /\ skip + i = j
      BY <1>2, <1>5, <1>8, <1>9, <2>5, <3>1
    <3>3. c[Entry(base + j)] = f[i] /\ f[i] = es[j]
      BY <1>10, <1>15, <3>2
    <3> QED BY <2>3, <3>3
  <2> QED BY <2>4, <2>5
<1>23. ASSUME NEW k \in EngineKey, \A i \in 1..n : k # Entry(base + i),
              \A i \in 1..t : k # Entry((base + n) + i)
       PROVE  e[k] = d[k]
  <2>1. e[k] = c[k]
    BY <1>17, <1>18, <1>23
  <2>2. \A i \in 1..n - skip : skip + i \in 1..n /\ base + (skip + i) = (base + skip) + i
    BY <1>2, <1>9
  <2>3. \A i \in 1..n - skip : k # Entry((base + skip) + i)
    BY <1>23, <2>2
  <2> QED BY <1>15, <2>1, <2>3
<1>24. ASSUME NEW j \in Index, j > base + n PROVE e[Entry(j)] = Absent
  <2>1. CASE j <= lastIndex
    <3>1. PICK i : i = j - (base + n)
      OBVIOUS
    <3>2. i \in 1..t /\ (base + n) + i = j
      BY <1>2, <1>8, <1>24, <2>1, <3>1 DEF Index
    <3> QED BY <1>10, <1>17, <1>18, <3>2
  <2>2. CASE ~(j <= lastIndex)
    <3>1. j \notin Stored(d)
      BY <1>1, <2>2, LoadedFacts
    <3>2. d[Entry(j)] = Absent
      BY <3>1 DEF Stored
    <3>3. /\ \A i \in 1..n : j # base + i
          /\ \A i \in 1..t : j # (base + n) + i
      BY <1>2, <1>8, <1>24, <2>2 DEF Index
    <3> QED BY <1>23, <3>2, <3>3, KeyFacts
  <2> QED BY <2>1, <2>2
<1>25. ASSUME NEW j \in 1..base PROVE e[Entry(j)] = d[Entry(j)]
  <2>1. j \in Index /\ (\A i \in 1..n : j # base + i) /\ \A i \in 1..t : j # (base + n) + i
    BY <1>2 DEF Index
  <2> QED BY <1>23, <2>1, KeyFacts
<1>26. e[TermVote] = d[TermVote] /\ e[CommitIndex] = d[CommitIndex]
    BY <1>23, KeyFacts
<1> QED BY <1>1, <1>2, <1>19, <1>20, <1>21, <1>22, <1>24, <1>25, <1>26, Zenon DEF SpliceDone

LEMMA SpliceStep ==
    ASSUME StoreInv, NEW base \in 0..MaxIndex - 1, NEW es \in SplicedEntries,
           SpliceEntries(base, es)
    PROVE  StoreInv' /\ (CommitsInv /\ ~FailureAfterOpen => Keeps)
<1>1. PICK d, e, ws, c : /\ d = Content /\ e = Content' /\ ws = SpliceWrites(base, es)
                         /\ c = Apply(Content, ws)
    OBVIOUS
<1>2. d \in EngineContent /\ StoreTypes
    BY <1>1, MemoryFacts DEF StoreInv
<1>3. CanSplice(base, es) /\ Fresh(base, es) # {}
    BY DEF SpliceEntries
<1>4. /\ base \in Nat /\ base + Len(es) \in Index /\ ws \in Seq(EngineWrite)
      /\ \A i \in 1..Len(ws) : \E j \in Index : j > commitIndex /\ ws[i].key = Entry(j)
      /\ \A j \in 1..Len(es) : c[Entry(base + j)] = es[j]
      /\ \A j \in Index : j > base + Len(es) => c[Entry(j)] = Absent
      /\ c[TermVote] = d[TermVote] /\ c[CommitIndex] = d[CommitIndex]
  <2>1. SpliceDone(d, base, es, ws, c)
    BY <1>1, <1>3, SpliceContent
  <2> QED BY <2>1, Zenon DEF SpliceDone
<1>5. CASE /\ Perform(ws, TRUE) /\ lastIndex' = base + Len(es) /\ lastTerm' = es[Len(es)].term
           /\ UNCHANGED <<term, vote, commitIndex, commitTerm, crashes, compactions>>
  <2>1. StoreTypes' /\ e = c
    BY <1>1, <1>2, <1>4, <1>5, PerformFacts
  <2>2. /\ term = IF d[TermVote] = Absent THEN 0 ELSE d[TermVote].term
        /\ vote = IF d[TermVote] = Absent THEN NoVote ELSE d[TermVote].vote
        /\ commitIndex = IF d[CommitIndex] = Absent THEN 0 ELSE d[CommitIndex].index
        /\ commitTerm = IF d[CommitIndex] = Absent THEN 0 ELSE d[CommitIndex].term
    BY <1>1, LoadedFacts
  <2>3. PICK n, end : n = Len(es) /\ end = base + n
    OBVIOUS
  <2>4. n \in 1..n /\ es[n] \in EntryValue /\ n \in Nat
    BY <2>3, SplicedFacts
  <2>5. e[Entry(end)] = es[n] /\ e[Entry(end)] # Absent /\ end \in Index
    BY <1>4, <2>1, <2>3, <2>4, FitFacts
  <2>6. end \in Stored(e) /\ end # 0
    BY <2>5 DEF Stored, Index
  <2>7. ASSUME NEW i \in Stored(e) PROVE i <= end
    <3>1. i \in Index /\ e[Entry(i)] # Absent
      BY DEF Stored
    <3>2. ~(i > end)
      BY <1>4, <2>1, <2>3, <3>1
    <3>3. i \in Int /\ end \in Int
      BY <2>5, <3>1 DEF Index
    <3> QED BY <3>2, <3>3
  <2>8. /\ lastIndex' = end /\ lastTerm' = es[n].term /\ commitIndex' = commitIndex
        /\ commitTerm' = commitTerm /\ term' = term /\ vote' = vote
    BY <1>5, <2>3
  <2>9. StoreInv'
    BY <1>1, <1>4, <2>1, <2>2, <2>5, <2>6, <2>7, <2>8, LoadedAfter
  <2>10. ASSUME CommitsInv PROVE Keeps
    <3>1. VoteKept
      BY <1>1, <1>4, <2>1, <2>9, SameVote
    <3> QED BY <1>4, <1>5, <2>9, <2>10, <3>1, FlushKeeps DEF Keeps
  <2> QED BY <2>9, <2>10
<1>6. CASE CrashDuring(ws)
  <2>1. \A i \in 1..Len(ws) : ws[i].key # TermVote
    BY <1>4, KeyFacts
  <2>2. SafeWrites(ws)
    BY <1>4 DEF SafeWrites
  <2> QED BY <1>4, <1>6, <2>1, <2>2, CrashStep
<1> QED BY <1>1, <1>5, <1>6, Zenon DEF SpliceEntries

\* A crash between two operations.
LEMMA IdleCrash ==
    ASSUME StoreInv, Crash
    PROVE  /\ StoreInv'
           /\ CommitsInv /\ ~FailureAfterOpen =>
                 /\ Keeps /\ Entries(Content)' = Entries(Content)
                 /\ term' = term /\ vote' = vote
<1>1. PICK ws : ws = <<>>
    OBVIOUS
<1>2. ws \in Seq(EngineWrite) /\ \A i \in 1..Len(ws) : FALSE
    BY <1>1
<1>3. CrashDuring(ws)
    BY <1>1 DEF Crash
<1>4. SafeWrites(ws)
    BY <1>2 DEF SafeWrites
<1>5. StoreInv' /\ (CommitsInv /\ ~FailureAfterOpen => Keeps)
    BY <1>2, <1>3, <1>4, CrashStep
<1>6. ASSUME CommitsInv, ~FailureAfterOpen
      PROVE  Entries(Content)' = Entries(Content) /\ term' = term /\ vote' = vote
  <2>1. \A k \in EngineKey : k = CommitIndex \/ Content'[k] = Content[k]
    BY <1>2, <1>3, <1>4, <1>6, CrashKeeps
  <2>2. Content'[TermVote] = Content[TermVote] /\ \A i \in Index : Content'[Entry(i)] = Content[Entry(i)]
    BY <2>1, KeyFacts
  <2>3. term' = term /\ vote' = vote
    BY <1>5, <2>2, SameVote
  <2>4. Entries(Content)' = [i \in Index |-> Content'[Entry(i)]]
    BY DEF Entries
  <2> QED BY <2>2, <2>3, <2>4 DEF Entries
<1> QED BY <1>5, <1>6

-----------------------------------------------------------------------------
(* The invariants.                                                         *)

LEMMA StoreInvInit == StoreInit => StoreInv /\ CommitsInv
<1> SUFFICES ASSUME StoreInit PROVE StoreInv /\ CommitsInv
    OBVIOUS
<1>1. StoreTypes
    BY EmptyFacts, ApplyNone DEF StoreInit, StoreTypes
<1>2. Content = Empty
    BY EmptyFacts, ApplyNone DEF StoreInit, Content
<1>3. Empty[TermVote] = Absent /\ Empty[CommitIndex] = Absent /\ Stored(Empty) = {}
    BY EmptyFacts, KeyFacts DEF Stored
<1>4. Loaded
    BY <1>2, <1>3 DEF StoreInit, Loaded
<1>5. disk = Empty /\ 1..Len(unsynced) = {}
    BY DEF StoreInit
<1>6. CommitsInv
    BY <1>2, <1>3, <1>5 DEF CommitsInv, MayReturn, Sound
<1> QED BY <1>1, <1>4, <1>6 DEF StoreInv

\* Every step preserves the invariants, and keeps committed entries and votes.
LEMMA StoreStep ==
    ASSUME StoreInv, [StoreNext]_storeVars
    PROVE  /\ StoreInv'
           /\ CommitsInv /\ ~FailureAfterOpen => CommitsInv' /\ (StoreNext => Keeps)
<1>1. CASE StoreNext
  <2>1. ASSUME NEW t \in 1..MaxTerm, NEW v \in Node \cup {NoVote}, SetTermVote(t, v)
        PROVE  StoreInv' /\ (CommitsInv /\ ~FailureAfterOpen => Keeps)
    BY <2>1, TermVoteStep
  <2>2. CASE AppendEntry
    BY <2>2, AppendStep DEF Keeps
  <2>3. ASSUME NEW i \in Index, Commit(i)
        PROVE  StoreInv' /\ (CommitsInv /\ ~FailureAfterOpen => Keeps)
    BY <2>3, CommitStep
  <2>4. ASSUME NEW base \in 0..MaxIndex - 1, NEW es \in SplicedEntries, SpliceEntries(base, es)
        PROVE  StoreInv' /\ (CommitsInv /\ ~FailureAfterOpen => Keeps)
    BY <2>4, SpliceStep
  <2>5. CASE Crash
    BY <2>5, IdleCrash DEF Keeps
  <2>6. StoreInv' /\ (CommitsInv /\ ~FailureAfterOpen => Keeps)
    BY <1>1, <2>1, <2>2, <2>3, <2>4, <2>5, AppendStep, IdleCrash DEF StoreNext
  <2> QED BY <2>6 DEF Keeps
<1>2. CASE ~StoreNext /\ UNCHANGED storeVars
  <2>1. /\ disk' = disk /\ unsynced' = unsynced /\ inherited' = inherited /\ term' = term
        /\ vote' = vote /\ lastIndex' = lastIndex /\ lastTerm' = lastTerm
        /\ commitIndex' = commitIndex /\ commitTerm' = commitTerm
    BY <1>2 DEF storeVars
  <2>2. Content' = Content
    BY <2>1 DEF Content
  <2>3. StoreInv'
    BY <2>1, <2>2 DEF StoreInv, StoreTypes, Loaded
  <2>4. CommitsInv => CommitsInv'
    BY <2>1, <2>2 DEF CommitsInv, MayReturn, Sound
  <2> QED BY <1>2, <2>3, <2>4
<1> QED BY <1>1, <1>2

-----------------------------------------------------------------------------
(* The theorems.                                                           *)

LEMMA StoreInvHolds == StoreSpec => []StoreInv
<1>1. StoreInit => StoreInv
    BY StoreInvInit
<1>2. StoreInv /\ [StoreNext]_storeVars => StoreInv'
    BY StoreStep
<1> QED BY <1>1, <1>2, PTL DEF StoreSpec

LEMMA CommitsInvHolds ==
    ASSUME ~FailureAfterOpen
    PROVE  StoreSpec => [](StoreInv /\ CommitsInv)
<1>1. StoreInit => StoreInv /\ CommitsInv
    BY StoreInvInit
<1>2. StoreInv /\ CommitsInv /\ [StoreNext]_storeVars => StoreInv' /\ CommitsInv'
    BY StoreStep
<1> QED BY <1>1, <1>2, PTL DEF StoreSpec

\* What Log::new, append, commit, splice and set_term_vote of src/raft/log.rs leave
\* in memory is what the engine holds, also after crashes that lose writes and after
\* compactions in BitCask::new_compact, however many of them there are.
THEOREM MemoryIsEngine == StoreSpec => []MemoryMatchesEngine
<1>1. StoreInv => MemoryMatchesEngine
  <2> SUFFICES ASSUME StoreInv PROVE MemoryMatchesEngine
    OBVIOUS
  <2>1. /\ lastIndex \in Stored(Content) \cup {0} /\ \A i \in Stored(Content) : i <= lastIndex
        /\ lastTerm = IF lastIndex = 0 THEN 0 ELSE Content[Entry(lastIndex)].term
    BY LoadedFacts
  <2>2. term > 0 => Content[TermVote] = [term |-> term, vote |-> vote]
    BY MemoryFacts
  <2>3. commitIndex > 0 => Content[CommitIndex] = [index |-> commitIndex, term |-> commitTerm]
    BY MemoryFacts
  <2>4. lastIndex > 0 => lastTerm = Content[Entry(lastIndex)].term
    BY <2>1, MemoryFacts
  <2> QED BY <2>1, <2>2, <2>3, <2>4, Zenon DEF MemoryMatchesEngine
<1> QED BY <1>1, StoreInvHolds, PTL

LEMMA LogOfFacts ==
    ASSUME NEW d \in EngineContent, NEW c \in Nat, Stored(d) = 1..c
    PROVE  /\ LogOf(d) \in Seq(EntryValue) /\ Len(LogOf(d)) = c
           /\ \A i \in 1..c : i \in Index /\ d[Entry(i)] # Absent /\ LogOf(d)[i] = d[Entry(i)]
<1>1. \A i \in 1..c : i \in Index /\ d[Entry(i)] # Absent /\ d[Entry(i)] \in EntryValue
    BY ContentFacts
<1>2. LogOf(d) = [i \in 1..c |-> d[Entry(i)]]
    BY DEF LogOf
<1>3. LogOf(d) \in [1..c -> EntryValue]
    BY <1>1, <1>2
<1>4. LogOf(d) \in Seq(EntryValue) /\ Len(LogOf(d)) = c
    BY <1>3, SeqOfFunction
<1> QED BY <1>1, <1>2, <1>4

LEMMA SpliceOfLog ==
    ASSUME StoreInv, IsContiguous(Content),
           NEW base \in 0..MaxIndex - 1, NEW es \in SplicedEntries,
           CanSplice(base, es), Fresh(base, es) # {}
    PROVE  LogOf(Apply(Content, SpliceWrites(base, es))) = Splice(LogOf(Content), base, es)
<1>1. PICK d, ws, e, n, c, l : /\ d = Content /\ ws = SpliceWrites(base, es)
                               /\ e = Apply(Content, ws) /\ n = Len(es)
                               /\ c = Cardinality(Stored(d)) /\ l = LogOf(d)
    OBVIOUS
<1>2. d \in EngineContent /\ MaxIndex \in Nat
    BY <1>1, MemoryFacts
<1>3. /\ base \in Nat /\ base + n \in Index /\ ws \in Seq(EngineWrite)
      /\ \A j \in 1..n : e[Entry(base + j)] = es[j]
      /\ \A j \in Index : j > base + n => e[Entry(j)] = Absent
      /\ \A j \in 1..base : e[Entry(j)] = d[Entry(j)]
  <2>1. SpliceDone(d, base, es, ws, e)
    BY <1>1, SpliceContent
  <2> QED BY <1>1, <2>1, Zenon DEF SpliceDone
<1>4. n \in Nat /\ es \in Seq(EntryValue) /\ \A j \in 1..n : es[j] \in EntryValue
    BY <1>1, SplicedFacts
<1>5. c \in Nat /\ Stored(d) = 1..c
  <2>1. Stored(d) \in SUBSET (1..MaxIndex) /\ MaxIndex \in Int
    BY <1>2 DEF Stored, Index
  <2>2. IsFiniteSet(1..MaxIndex)
    BY <2>1, FS_Interval
  <2>3. c \in Nat
    BY <1>1, <2>1, <2>2, FS_Subset, FS_CardinalityType
  <2> QED BY <1>1, <2>3 DEF IsContiguous
<1>6. /\ l \in Seq(EntryValue) /\ Len(l) = c
      /\ \A i \in 1..c : i \in Index /\ d[Entry(i)] # Absent /\ l[i] = d[Entry(i)]
    BY <1>1, <1>2, <1>5, LogOfFacts
<1>7. base <= c /\ \A i \in 1..base : i \in 1..c
  <2>1. base > 0 => d[Entry(base)] # Absent
    BY <1>1 DEF CanSplice, Connects
  <2>2. base > 0 => base \in Stored(d)
    <3>1. base > 0 => base \in Index
      BY <1>2, <1>3 DEF Index
    <3> QED BY <2>1, <3>1 DEF Stored
  <2>3. base <= c
    BY <1>3, <1>5, <2>2
  <2> QED BY <1>3, <1>5, <2>3
<1>8. NewEntries(l, base, es) # {}
  <2>1. PICK k \in 1..n : \E j \in 1..k :
           d[Entry(base + j)] = Absent \/ d[Entry(base + j)].term # es[j].term
    BY <1>1 DEF Fresh
  <2>2. PICK j \in 1..k :
           d[Entry(base + j)] = Absent \/ d[Entry(base + j)].term # es[j].term
    BY <2>1
  <2>3. ~Has(l, base + j, es[j].term)
    BY <1>6, <2>2 DEF Has
  <2> QED BY <1>1, <2>1, <2>3 DEF NewEntries
<1>9. PICK p, q : p = SubSeq(l, 1, base) /\ q = p \o es
    OBVIOUS
<1>10. Splice(l, base, es) = q
    BY <1>8, <1>9, Zenon DEF Splice
<1>11. p \in Seq(EntryValue) /\ Len(p) = base /\ \A i \in 1..base : p[i] = l[i]
  <2>1. \A i \in 1..base : l[i] \in EntryValue
    BY <1>6, <1>7
  <2>2. /\ p \in Seq(EntryValue) /\ Len(p) = IF 1 <= base THEN base - 1 + 1 ELSE 0
        /\ \A i \in 1..base - 1 + 1 : p[i] = l[1 + i - 1]
    BY <1>3, <1>9, <2>1, SubSeqProperties
  <2>3. base - 1 + 1 = base /\ \A i \in 1..base : 1 + i - 1 = i
    BY <1>3
  <2>4. Len(p) = base
    BY <1>3, <2>2, <2>3
  <2> QED BY <2>2, <2>3, <2>4
<1>12. /\ q \in Seq(EntryValue) /\ Len(q) = base + n
       /\ \A i \in 1..base + n : q[i] = IF i <= base THEN p[i] ELSE es[i - base]
  <2>1. /\ q \in Seq(EntryValue) /\ Len(q) = Len(p) + Len(es)
        /\ \A i \in 1..Len(p) + Len(es) : q[i] = IF i <= Len(p) THEN p[i] ELSE es[i - Len(p)]
    BY <1>4, <1>9, <1>11, ConcatFacts
  <2> QED BY <1>1, <1>11, <2>1, Zenon
<1>13. ASSUME NEW i \in 1..base + n
       PROVE  i \in Index /\ e[Entry(i)] # Absent /\ e[Entry(i)] = q[i]
  <2>1. i \in Index
    BY <1>2, <1>3, <1>4 DEF Index
  <2>2. CASE i <= base
    <3>1. i \in 1..base
      BY <1>3, <1>4, <2>2
    <3> QED BY <1>3, <1>6, <1>7, <1>11, <1>12, <2>1, <2>2, <3>1
  <2>3. CASE ~(i <= base)
    <3>1. PICK j : j = i - base
      OBVIOUS
    <3>2. j \in 1..n /\ base + j = i
      BY <1>3, <1>4, <2>3, <3>1
    <3>3. e[Entry(i)] = es[j] /\ q[i] = es[j]
      BY <1>3, <1>12, <2>3, <3>1, <3>2
    <3> QED BY <1>4, <2>1, <3>2, <3>3, FitFacts
  <2> QED BY <2>2, <2>3
<1>14. Stored(e) = 1..base + n
  <2>1. ASSUME NEW i \in Stored(e) PROVE i \in 1..base + n
    <3>1. i \in Index /\ ~(i > base + n)
      BY <1>3 DEF Stored
    <3> QED BY <1>3, <1>4, <3>1 DEF Index
  <2>2. \A i \in 1..base + n : i \in Stored(e)
    BY <1>13 DEF Stored
  <2> QED BY <2>1, <2>2
<1>15. e \in EngineContent /\ base + n \in Nat
    BY <1>1, <1>2, <1>3, <1>4, ApplyType
<1>16. LogOf(e) = q
  <2>1. /\ LogOf(e) \in Seq(EntryValue) /\ Len(LogOf(e)) = base + n
        /\ \A i \in 1..base + n : LogOf(e)[i] = e[Entry(i)]
    BY <1>14, <1>15, LogOfFacts
  <2> QED BY <1>12, <1>13, <2>1, SeqEqual
<1> QED BY <1>1, <1>10, <1>16

\* The engine writes of Log::splice in src/raft/log.rs, from the first entry that the
\* log has not to the last index of the old tail, make together the splice that the
\* Raft model takes in one step, whatever the log and the entries.
THEOREM SplicesAreAtomic == StoreSpec => []SpliceIsAtomic
<1>1. StoreInv => SpliceIsAtomic
    BY SpliceOfLog DEF SpliceIsAtomic
<1> QED BY <1>1, StoreInvHolds, PTL

\* Without a power failure between an opening and the next flush, the entry of the
\* commit index is always stored: Log::commit writes the index without a flush, but
\* every entry was flushed before it by Log::append or Log::splice.
THEOREM CommitsExist == ~FailureAfterOpen /\ StoreSpec => []CommitIndexExists
<1> SUFFICES ASSUME ~FailureAfterOpen PROVE StoreSpec => []CommitIndexExists
    OBVIOUS
<1>1. StoreInv /\ CommitsInv => CommitIndexExists
  <2> SUFFICES ASSUME StoreInv, CommitsInv, commitIndex > 0
               PROVE  /\ Content[Entry(commitIndex)] # Absent
                      /\ Content[Entry(commitIndex)].term = commitTerm
    BY DEF CommitIndexExists
  <2>1. PICK d, v : d = Content /\ v = d[CommitIndex]
    OBVIOUS
  <2>2. v # Absent /\ v = [index |-> commitIndex, term |-> commitTerm] /\ d \in EngineContent
    BY <2>1, MemoryFacts
  <2>3. d[Entry(v.index)] = [term |-> v.term]
    BY <2>1, <2>2 DEF CommitsInv, MayReturn, Sound
  <2>4. v \in CommitValue
    BY <2>1, <2>2, ContentFacts
  <2>5. [term |-> v.term] \in EntryValue
    BY <2>4 DEF CommitValue, EntryValue
  <2>6. d[Entry(commitIndex)] = [term |-> commitTerm] /\ [term |-> commitTerm] # Absent
    BY <2>2, <2>3, <2>5, FitFacts
  <2> QED BY <2>1, <2>6
<1>2. StoreSpec => [](StoreInv /\ CommitsInv)
    BY CommitsInvHolds
<1> QED BY <1>1, <1>2, PTL

\* Under the same condition no step, and no crash at any point of Log::splice,
\* Log::append or Log::commit, changes or removes an entry up to the commit index.
THEOREM CommittedStay == ~FailureAfterOpen /\ StoreSpec => CommittedEntriesAreKept
<1> SUFFICES ASSUME ~FailureAfterOpen PROVE StoreSpec => CommittedEntriesAreKept
    OBVIOUS
<1>1. StoreInv /\ CommitsInv /\ [StoreNext]_storeVars
         => [\A i \in 1..commitIndex : Content'[Entry(i)] = Content[Entry(i)]]_storeVars
    BY StoreStep DEF Keeps
<1>2. StoreSpec => [](StoreInv /\ CommitsInv)
    BY CommitsInvHolds
<1> QED BY <1>1, <1>2, PTL DEF StoreSpec, CommittedEntriesAreKept

\* A crash between two operations loses no entry, term or vote: Log::append,
\* Log::splice and Log::set_term_vote end with a flush.
THEOREM CrashesLoseNothing == ~FailureAfterOpen /\ StoreSpec => EntriesAndVoteAreDurable
<1> SUFFICES ASSUME ~FailureAfterOpen PROVE StoreSpec => EntriesAndVoteAreDurable
    OBVIOUS
<1>1. StoreInv /\ CommitsInv /\ [StoreNext]_storeVars
         => [Crash => /\ Entries(Content)' = Entries(Content)
                      /\ term' = term /\ vote' = vote]_storeVars
    BY IdleCrash
<1>2. StoreSpec => [](StoreInv /\ CommitsInv)
    BY CommitsInvHolds
<1> QED BY <1>1, <1>2, PTL DEF StoreSpec, EntriesAndVoteAreDurable

\* The term never goes back and a vote is never replaced in its term, whatever
\* operations Log::set_term_vote in src/raft/log.rs and crashes of it follow.
THEOREM VotesStay == ~FailureAfterOpen /\ StoreSpec => VotesAreKept
<1> SUFFICES ASSUME ~FailureAfterOpen PROVE StoreSpec => VotesAreKept
    OBVIOUS
<1>1. StoreInv /\ CommitsInv /\ [StoreNext]_storeVars
         => [term' >= term /\ (term' = term /\ vote # NoVote => vote' = vote)]_storeVars
    BY StoreStep DEF Keeps, VoteKept
<1>2. StoreSpec => [](StoreInv /\ CommitsInv)
    BY CommitsInvHolds
<1> QED BY <1>1, <1>2, PTL DEF StoreSpec, VotesAreKept
=============================================================================
