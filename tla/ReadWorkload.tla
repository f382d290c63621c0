---------------------------- MODULE ReadWorkload ----------------------------
(***************************************************************************)
(* The read workload, src/bin/workload.rs: BlockGen hands out blocks of    *)
(* fresh and of reused keys through a bounded channel to workers, which    *)
(* share the cache of src/cache/cache.rs and query what is not cached.     *)
(***************************************************************************)
EXTENDS Cache

CONSTANTS
    Worker,         \* worker threads, each with a Client
    Batch,          \* --batch
    BlockSize,      \* --block-size
    MaxRetries,     \* Client::with_retry's MAX_RETRIES
    MaxItems        \* bound: items generated before the stop flag is set

ASSUME WorkloadAssumption ==
    Batch \in Nat \ {0} /\ BlockSize \in Nat \ {0} /\ MaxRetries \in Nat /\ MaxItems \in Nat

VARIABLES
    fresh,          \* the rest of BlockGen::fresh_keys
    used,           \* BlockGen::used_keys
    isFreshBlock, blockRemaining,
    items,          \* items generated so far
    channel,        \* the work channel
    worker          \* each worker's [pc, item, todo, retries]

genVars == <<fresh, used, isFreshBlock, blockRemaining, items>>

workloadVars == <<cacheVars, genVars, channel, worker>>

Waiting == [pc |-> "wait", item |-> {}, todo |-> {}, retries |-> 0]

-----------------------------------------------------------------------------
(* BlockGen::next.                                                         *)

\* n keys of a block: fresh ones while there are any, the rest from those used.
FreshItems(n) ==
    LET m == IF n <= Cardinality(fresh) THEN n ELSE Cardinality(fresh)
    IN  {<<F, R>> \in {F \in SUBSET fresh : Cardinality(F) = m} \X SUBSET (used \cup fresh) :
            /\ R \subseteq used \cup F
            /\ Cardinality(R) <= n - m /\ (n > m => R # {})}

ReusedItems(n) == {{}} \X {R \in SUBSET used : R # {} /\ Cardinality(R) <= n}

Generate ==
    LET flip  == blockRemaining = 0
        kind  == IF flip THEN ~isFreshBlock ELSE isFreshBlock
        rest  == IF flip THEN BlockSize ELSE blockRemaining
        n     == IF Batch <= rest THEN Batch ELSE rest
    IN  /\ items < MaxItems /\ Len(channel) < Cardinality(Worker)
        /\ items' = items + 1
        /\ isFreshBlock' = kind /\ blockRemaining' = rest - n
        /\ \E p \in (IF kind THEN FreshItems(n) ELSE ReusedItems(n)) :
              /\ fresh' = fresh \ p[1] /\ used' = used \cup p[1]
              /\ channel' = Append(channel, p[1] \cup p[2])
        /\ UNCHANGED <<cacheVars, worker>>

-----------------------------------------------------------------------------
(* The workers: Client::with_retry around Read::execute.                   *)

Receive(w) ==
    /\ worker[w].pc = "wait" /\ channel # <<>>
    /\ channel' = Tail(channel)
    /\ worker' = [worker EXCEPT ![w] = [Waiting EXCEPT !.pc = "filter",
                                                       !.item = Head(channel)]]
    /\ UNCHANGED <<cacheVars, genVars>>

Filter(w) ==
    /\ worker[w].pc = "filter"
    /\ FilterUncached(worker[w].item)
    /\ worker' = [worker EXCEPT ![w] =
          IF worker[w].item \subseteq Cached THEN Waiting
          ELSE [@ EXCEPT !.pc = "query", !.todo = worker[w].item \ Cached]]
    /\ UNCHANGED <<genVars, channel>>

\* The SELECT returns a row for every key that was not cached.
QueryReturns(w) ==
    /\ worker[w].pc = "query"
    /\ worker' = [worker EXCEPT ![w].pc = "insert"]
    /\ UNCHANGED <<cacheVars, genVars, channel>>

\* Mutant: an aborted query is repeated without end.
QueryAbortsForEver(w) ==
    /\ worker[w].pc = "query"
    /\ worker' = [worker EXCEPT ![w] = [@ EXCEPT !.pc = "filter", !.todo = {}]]
    /\ UNCHANGED <<cacheVars, genVars, channel>>

\* Error::Abort or Error::Serialization: the whole closure is run again.
QueryAborts(w) ==
    /\ worker[w].pc = "query" /\ worker[w].retries < MaxRetries
    /\ worker' = [worker EXCEPT ![w] = [@ EXCEPT !.pc = "filter", !.todo = {},
                                                 !.retries = @ + 1]]
    /\ UNCHANGED <<cacheVars, genVars, channel>>

\* Any other error, or too many: the worker ends.
QueryFails(w) ==
    /\ worker[w].pc = "query"
    /\ worker' = [worker EXCEPT ![w] = [Waiting EXCEPT !.pc = "ended"]]
    /\ UNCHANGED <<cacheVars, genVars, channel>>

InsertRow(w, k) ==
    /\ worker[w].pc = "insert" /\ k \in worker[w].todo
    /\ Insert(k)
    /\ worker' = [worker EXCEPT ![w] =
          IF @.todo = {k} THEN Waiting ELSE [@ EXCEPT !.todo = @ \ {k}]]
    /\ UNCHANGED <<genVars, channel>>

-----------------------------------------------------------------------------
WorkloadInit ==
    /\ CacheInit
    /\ fresh = Key /\ used = {}
    /\ isFreshBlock = TRUE /\ blockRemaining = BlockSize
    /\ items = 0 /\ channel = <<>>
    /\ worker = [w \in Worker |-> Waiting]

Query(w) == QueryReturns(w) \/ QueryAborts(w) \/ QueryFails(w)

Work(w) == Receive(w) \/ Filter(w) \/ Query(w) \/ \E k \in Key : InsertRow(w, k)

WorkloadNext == Generate \/ \E w \in Worker : Work(w)

WorkloadSpec == WorkloadInit /\ [][WorkloadNext]_workloadVars

\* Threads are scheduled, and a query returns or times out.
FairWorkloadSpec == WorkloadSpec /\ \A w \in Worker : WF_workloadVars(Work(w))

-----------------------------------------------------------------------------
\* Every item in the channel is worked on, unless every worker has ended with an
\* error: with_retry gives up, and no worker waits for another.
ItemsAreServed ==
    channel # <<>> ~> (channel = <<>> \/ \A w \in Worker : worker[w].pc = "ended")
=============================================================================
