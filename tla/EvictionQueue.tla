--------------------------- MODULE EvictionQueue ---------------------------
(***************************************************************************)
(* What the client-side cache of src/cache/cache.rs promises: it holds at  *)
(* most maxSize keys, in a queue whose last key is the next to be evicted. *)
(* A new key enters at the front; with LRU eviction a key that is used     *)
(* again moves there, with FIFO eviction it keeps its place.               *)
(***************************************************************************)
EXTENDS Naturals, Sequences, SequencesExt

CONSTANTS Key, MaxSize

VARIABLES queue, evictType, maxSize

settings == <<evictType, maxSize>>

ToFront(q, k) == IF evictType = "LRU" THEN <<k>> \o SelectSeq(q, LAMBDA j : j # k) ELSE q

QueueInit == queue = <<>> /\ evictType \in {"LRU", "FIFO"} /\ maxSize \in 0..MaxSize

\* Some cached keys are looked up together, in the order ks.
LookUp(ks) == queue' = FoldLeft(ToFront, queue, ks) /\ UNCHANGED settings

Refresh(k) == k \in ToSet(queue) /\ queue' = ToFront(queue, k) /\ UNCHANGED settings

Add(k) ==
    /\ k \notin ToSet(queue)
    /\ queue' = IF Len(queue) < maxSize THEN <<k>> \o queue
                ELSE SubSeq(<<k>> \o queue, 1, maxSize)
    /\ UNCHANGED settings

QueueNext ==
    \/ \E ks \in UNION {SetToSeqs(S) : S \in SUBSET ToSet(queue)} : LookUp(ks)
    \/ \E k \in Key : Refresh(k) \/ Add(k)

QueueSpec == QueueInit /\ [][QueueNext]_<<queue, settings>>
=============================================================================
