------------------------------- MODULE Cache -------------------------------
(***************************************************************************)
(* The client-side cache, src/cache/cache.rs: a map whose entries form a   *)
(* doubly linked list, the most recent at the head.  Every operation holds *)
(* the global mutex.  The cached values and the hit and miss counters are  *)
(* left out: no decision reads them.                                       *)
(***************************************************************************)
EXTENDS Naturals, FiniteSets, Sequences, SequencesExt

CONSTANTS
    Key,        \* row ids
    None,       \* Rust's None
    MaxSize     \* bound of MAX_SIZE

ASSUME CacheAssumption == None \notin Key /\ MaxSize \in Nat

VARIABLES
    cache,          \* CACHE: [entries, head, tail]
    evictType,      \* EVICT_TYPE, set before the workers start, as is
    maxSize         \* MAX_SIZE

settings == <<evictType, maxSize>>

cacheVars == <<cache, settings>>

Cached == DOMAIN cache.entries

Detach(c, k) ==
    LET prev == c.entries[k].prev
        next == c.entries[k].next
    IN  [entries |-> [j \in DOMAIN c.entries |->
                         [prev |-> IF j = next THEN prev ELSE c.entries[j].prev,
                          next |-> IF j = prev THEN next ELSE c.entries[j].next]],
         head |-> IF prev = None THEN next ELSE c.head,
         tail |-> IF next = None THEN prev ELSE c.tail]

\* Mutant: the old head does not point back.
AttachToFrontOneWay(c, k) ==
    [entries |-> [j \in DOMAIN c.entries \cup {k} |->
                     IF j = k THEN [prev |-> None, next |-> c.head] ELSE c.entries[j]],
     head |-> k,
     tail |-> IF c.head = None THEN k ELSE c.tail]

AttachToFront(c, k) ==
    [entries |-> [j \in DOMAIN c.entries \cup {k} |->
                     IF j = k THEN [prev |-> None, next |-> c.head]
                     ELSE IF j = c.head THEN [c.entries[j] EXCEPT !.prev = k]
                     ELSE c.entries[j]],
     head |-> k,
     tail |-> IF c.head = None THEN k ELSE c.tail]

\* Mutant: both eviction types reorder the list.
TouchAlways(c, k) == AttachToFront(Detach(c, k), k)

\* An entry that is used again.
Touch(c, k) == IF evictType = "LRU" THEN AttachToFront(Detach(c, k), k) ELSE c

\* Evicts the tail if the cache is over its size.
Evict(c) ==
    IF Cardinality(DOMAIN c.entries) > maxSize
    THEN LET d == Detach(c, c.tail)
         IN  [d EXCEPT !.entries = [j \in DOMAIN c.entries \ {c.tail} |-> d.entries[j]]]
    ELSE c

\* filter_uncached: a HashSet gives the keys in any order.
FilterUncached(keys) ==
    /\ \E order \in SetToSeqs(keys \cap Cached) : cache' = FoldLeft(Touch, cache, order)
    /\ UNCHANGED settings

Insert(k) ==
    /\ cache' = IF k \in Cached THEN Touch(cache, k) ELSE Evict(AttachToFront(cache, k))
    /\ UNCHANGED settings

CacheInit ==
    /\ cache = [entries |-> <<>>, head |-> None, tail |-> None]
    /\ evictType \in {"LRU", "FIFO"} /\ maxSize \in 0..MaxSize

-----------------------------------------------------------------------------
\* The keys met on a walk of i steps along the field `link`.
Walk(from, link(_)) ==
    LET w[i \in 0..Cardinality(Key)] ==
            IF i = 0 THEN IF from = None THEN <<>> ELSE <<from>>
            ELSE IF w[i - 1] = <<>> \/ link(Last(w[i - 1])) = None THEN w[i - 1]
                 ELSE Append(w[i - 1], link(Last(w[i - 1])))
    IN  w[Cardinality(Key)]

NextOf(k) == IF k \in Cached THEN cache.entries[k].next ELSE None

PrevOf(k) == IF k \in Cached THEN cache.entries[k].prev ELSE None

Order == Walk(cache.head, NextOf)

\* The map and the list hold the same keys, and the list reads the same in both
\* directions, so that detach and pop_tail find every entry that they unwrap,
\* whatever the workers do between a lookup and its inserts.
ListIsWellFormed ==
    /\ ToSet(Order) = Cached /\ Len(Order) = Cardinality(Cached)
    /\ Walk(cache.tail, PrevOf) = Reverse(Order)

Queue == INSTANCE EvictionQueue WITH queue <- Order

\* The linked list is an eviction queue: the key that is evicted is the least
\* recently used one, or with FIFO the oldest, and the cache never outgrows
\* its limit, also when several workers that missed insert at the same time.
ImplementsEvictionQueue == Queue!QueueSpec
=============================================================================
