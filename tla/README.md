# rusty-db in TLA+

rusty-db is a distributed SQL database (a fork of toyDB) with a client-side cache and a
benchmark driver. Every node runs a Raft node whose log and state machine are kept in
BitCask files; the state machine is an SQL engine on MVCC transactions. These modules
model the parts that carry the database's promises (consensus, durability, isolation,
deterministic application, constraints, query plans, retried transactions, the cache) and check
them with TLC; Raft's safety, MVCC's isolation and what retried transactions promise are
proved with TLAPS. Paths below are relative to the repository's `src/` directory.

## The system

| component | state | operations | interacts with |
|---|---|---|---|
| Raft node, `raft/node.rs`, `raft/message.rs` | term, vote, log, role (leader and forwarded requests; votes; progress, pending writes and reads) | `step` of each message in each role, `tick`, `new` | the log, the state machine, peers through the server |
| Raft log, `raft/log.rs` | entries, term and vote, commit index in an engine; copies of the last ones in memory | `append`, `splice`, `commit`, `set_term_vote`, `scan`, `has`, `get` | BitCask |
| Server, `server.rs` | channels, response channels by request id | `raft_route`, sessions per connection | Raft node, SQL sessions |
| BitCask, `storage/bitcask.rs` | append-only file, keydir | `set`, `delete`, `flush`, `scan`, `compact`, opening with truncation | file system |
| MVCC, `storage/mvcc.rs` | versions, next version, active set, snapshots, write records | `begin`, `begin_read_only`, `resume`, `get`, `set`, `delete`, `scan`, `commit`, `rollback` | an engine under a mutex |
| SQL engine, `sql/engine/local.rs`, `sql/engine/raft.rs`, `sql/types/schema.rs` | tables, rows, secondary indexes, applied index | `insert`, `update`, `delete`, `create_table`, `drop_table`, `validate`, `State::apply`, `State::read` | MVCC; Raft requests |
| Sessions and client, `sql/execution/session.rs`, `client.rs` | the open transaction | statements, `BEGIN`, `COMMIT`, `ROLLBACK`, `with_retry` | SQL on Raft |
| Cache and workloads, `cache/cache.rs`, `bin/workload.rs` | linked list of entries; key generator, work channel | `filter_uncached`, `insert`, `BlockGen::next`, `Read::execute` | client |
| Planner, optimizer, executor, expressions, `sql/planner/`, `sql/execution/`, `sql/types/` | none | `build`, `optimize`, `execute`, `evaluate` | reads through a transaction |
| Parser, `sql/parser/` | none | `parse_expression` and a function per statement | sessions |
| Encodings, `encoding/` | none | `serialize`, `deserialize`, `prefix_range` | keys of the log, MVCC and SQL |

What is hard: messages are lost, delayed and reordered, and a node can restart in the
middle of a term; operations of the log and of the state machine are several engine
writes that a crash cuts in two, with and without the loss of unflushed ones; transactions
interleave, and a scan releases the engine between batches; several worker threads share
the cache; answers to clients may come late, twice or not at all, while their sessions wait for ever;
commands whose request was given up are applied after all.

What makes the parts correct: one leader per term, logs that agree, committed entries that
stay, linearizable reads, one answer per request (Raft); durable entries and votes, a
memory image equal to the stored one (log); snapshot isolation (MVCC); the same state on
all nodes after any crash, indexes that match rows, references and unique columns, optimized plans
that return what the plans as built return (SQL); retried transactions that happen once, no transaction
left open (sessions); keys that scan in the order of their fields (encodings); a well-formed list
with the right eviction order (cache). `PROJECT.json` lists the hazards line by line.

## Modules

| module | models | notes |
|---|---|---|
| `RaftLog` | `Log::get`, `has`, `scan`, `splice` on a log in memory | operators only, shared by `Raft` and `LogStore` |
| `Raft` | `raft/node.rs` with `raft/message.rs` and the routing of `server.rs` | one action per message, request and tick |
| `MCRaft` | `Raft` for TLC | symmetry, and a steady initial state for runs about requests |
| `Raft_proofs`, `RaftCommit_proofs`, `RaftNode_proofs` | theorems about `Raft` | each extends the one before |
| `MVCC_proofs` | theorems about `MVCC` and `MVCCScan` | the invariant, the refinement, then scans |
| `Extrema_proofs` | least and greatest members of sets, members in order | lemmas for all of them |
| `LogStore` | `raft/log.rs` on `storage/bitcask.rs` | the engine writes, flushes and crashes of each log operation |
| `LogStore_proofs` | theorems about `LogStore` | two of them whether power may fail after an opening or not |
| `SnapshotIsolation` | what MVCC promises | abstract specification |
| `MVCC` | transactions of `storage/mvcc.rs` | refines `SnapshotIsolation` |
| `MVCCScan`, `MCMVCCScan` | `ScanIterator` and `VersionIterator` on top of `MVCC` | |
| `SqlState` | `State::apply` of `sql/engine/raft.rs` on `sql/engine/local.rs` | reuses the visibility and conflict operators of `MVCC` |
| `SqlState_proofs` | theorems about `SqlState` | what a crash leaves of a command leads to the same end; indexes match rows in every view |
| `SqlPlan` | expressions, planner, optimizers and executor of `sql/` | queries on what `SqlState`'s transactions read |
| `Tables` | the reads, writes and constraints of `sql/engine/local.rs` and `sql/types/schema.rs`, and the statements of `sql/execution/executor.rs` that write | operators on what a transaction reads |
| `Sessions` | `client.rs`, `sql_session` of `server.rs`, `sql/execution/session.rs`, the client side of `sql/engine/raft.rs` | transactions are those of `SnapshotIsolation`, on the keys of `Tables` |
| `Sessions_proofs` | theorems about `Sessions` | |
| `Keycode`, `KeySpaces` | `encoding/keycode.rs`; the keys of `raft/log.rs`, `storage/mvcc.rs`, `sql/engine/local.rs` and their scans | pure functions |
| `Values` | equality, hash, order and integer arithmetic of `sql/types/value.rs`, and where expressions and hash joins use them | pure functions, on the values of `Keycode` |
| `Parser` | the expression parser of `sql/parser/parser.rs` | pure functions, RECURSIVE |
| `MCSqlPlan` | `SqlPlan` with `Parser`, `Values` and `KeySpaces` for TLC | a behaviour is one of `SqlState`, or one input of a pure function |
| `EvictionQueue` | what the cache promises | abstract specification |
| `Cache` | `cache/cache.rs` | refines `EvictionQueue` |
| `ReadWorkload` | the read workload of `bin/workload.rs` with `Client::with_retry` | composes with `Cache` |
| `ClientPrograms` | the programs that use a client, for TLC | a behaviour is one of `ReadWorkload`, of two clients of `Sessions`, or of a console |

**Raft.** `term`, `vote`, `log`, `commit`, `applied` and `role` are the fields of
`RawNode` and `Log` for every node, `msgs` the envelopes in flight. An action is one call of `Node::step` or
`Node::tick`, including what a step causes in turn: a higher term makes a leader or
candidate a follower that aborts its requests and steps the message again; a leader's
commit applies entries, answers writes and then ready reads. The server loses any subset
of what a step sends, and receives in any order; it does not duplicate (peers are connected
by TCP). Ticks that change only a timer are left out: timeouts may fire at any time. The
state machine is the set of applied writes. Failed assertions are recorded in `panics` and
the node goes `Down`, from which `Restart` brings it back, with the log, term and vote,
which are flushed, and with commit and applied indexes that may have been lost. `client`
records, per request, its outcome, the value a read returned, and what the
submitter could know at submission (`seen`), which linearizability is about.

**LogStore.** Each operation of `Log` is a list of engine writes and possibly a flush.
It happens entirely, or a crash happens during it: a crash of the process keeps all writes
made so far, a power failure keeps a prefix of the unflushed ones (BitCask truncates an
incomplete last record). Opening the engine may compact it. Commands are left out
(entries with equal index and term are equal, which is `LogMatching`), and `fsync` is on,
the default. `FailureAfterOpen = FALSE` says that power does not fail between an opening
and the next flush; see "Findings".

**MVCC.** Every operation holds the engine's mutex throughout, so it is one action.
`nextVersion`, `active`, `snapshot`, `writes` and `data` are the engine's keys, `txn` the
`TransactionState` values that clients hold, also after the transaction has ended.
`MVCCScan` adds iterators over all keys: filling the buffer is one action, so other
transactions act between batches. The batch size is 2 or 32 in the code, depending on the build.

**SqlState.** One table with one indexed column. An execution of a command has the engine contents
before each of its writes, so that `ApplyAndCrash` can stop at any of
them; the command is then applied again to what is stored. Commit and rollback go through the write records
in key order; the model lets them do it in any order. `expected` is the engine of a
node that did not crash. Crashes are process crashes.

**SqlPlan.** Expressions and plan nodes are records; `BuildSelect` is the planner, `Optimize`
the five optimizers in their order, `Execute` the executor, all as operators, on the table of
`SqlState` with its index. The rows and index entries that they read are those that a
transaction of `SqlState` reads in a reachable state. Names are already resolved to columns,
which are counted from 1; values have equality but no order, and expressions are well typed.
`Queries` are the plans of SELECT statements with one table (every predicate of at most two
comparisons, their conjunctions, disjunctions and negations), inner, left, right and
implicit joins of the table with itself, COUNT with and without GROUP BY and HAVING,
projections, OFFSET and LIMIT, and the sources of DELETE and UPDATE. Two kinds of queries are
not in `Queries`, because their rows do change (see "Findings"): outer joins with other predicates than an
equijoin where predicates are pushed (`OuterQueries`), and disjunctions that repeat a comparison
(`RepeatingQueries`). For these `OptimizedPlansAgree` says what is kept: the pairs of rows that
match, and the set of rows. Operators here are RECURSIVE, so there are no theorems about this module.

**Tables.** A view maps the keys of tables, rows and index entries to values, as a transaction
reads them. An execution of a statement carries the view with its writes so far, the keys it wrote, the keys that another
transaction has written (a write of one fails with a serialization error) and the error that
ended it; what it wrote before stays written, as in the code. `Command` is the executor's part,
which reads rows in the session and submits a write; `Execute` is `State::write`, which checks
the constraints when the command is applied.

**Sessions.** `client` is what `with_retry` waits for, `session` a session with its open
transaction and the request of Raft that it waits for. A client waits for each response, so a request or
a response is handled as soon as it is sent, and delays on the way are delays in the session.
Raft is external: it answers a request after applying it; it aborts it; or it never answers, and
the session hangs. A request of the last two kinds stays in `late` and may be applied at any
later time (`LateBegin`, `LateEnd`, `LateWrite`), or never. This allows more than Raft does, since the log keeps the
order of some of these, so what holds here holds under Raft. A client's timeout strikes while
its session is hung or, at the cost of a fault, slow. It is an I/O error, after which the client sends
`ROLLBACK` on the same connection and takes the late response for the answer to it. `forsaken` are the
transactions of which a begin, commit or rollback was aborted or lost: no session can end them any more.
A lost statement leaves its transaction with the session that hangs (`HeldByHung`).

**ClientPrograms.** The tables are items with a counter, and links that refer to an item and to
another link, with a unique code. Clients run in pairs that get in each other's way (increments of
the same counter, equal codes, an insert beside the deletion of its target or the drop of its table), with one fault,
or an increment beside a reader, with two. The console executes any sequence of statements: inserts, deletions, updates of keys, references and codes,
dropped and created tables, also with schemas that `validate` must refuse.

**Keycode, KeySpaces.** A byte has `Base` values and a number `WordBytes` bytes; a float is a sign and a rest that orders
like its exponent and mantissa, with infinity and NaNs at its end. The enums of keys are given by their
fields' types, as serde sees them.

**Parser.** Tokens are strings; an atom has no structure. `Written` writes an expression with the
parentheses that the table in the comment on `parse_expression` requires, and
the parser must read it back.

**Cache, ReadWorkload.** The list is modelled with its links, since unlinking is where it
can go wrong. Values and hit counters are left out, because no decision reads them. The
generator chooses any keys that its random numbers could yield.

## Runs

`CHECK_DEADLOCK FALSE` is set everywhere because the bounds (terms, versions, items, log
entries) end every behaviour of the models. `Symmetry` is only used in runs without liveness
properties.

| run | bounds | shows |
|---|---|---|
| `raft_elections` | 3 nodes, 4 terms, 1 message in flight, from `Init` | `LogMatching`, `LeaderCompleteness`, `DurableStateIsKept`, `NoPanic` |
| `raft_requests` | 3 nodes, 1 term, 2 messages in flight, a write, a read, a status request | `ProgressIsTrue` |
| `raft_reads` | 3 nodes, 2 terms, 1 message in flight, a write and a read | `TypeOK`, `ReadsAreLinearizable`, `AnsweredOnce` |
| `raft_restarts` | as before, a write, one restart | `ElectionSafety`, `StateMachineSafety`, `AckedWritesDurable`, `OnlyRestartPanics` |
| `raft_restart_response` | as `raft_restarts` | violates `ResponsesReachALeader` |
| `log_store` | 2 entries, 3 terms, 2 crashes, 1 compaction | six properties of the stored log |
| `log_store_torn` | 3 entries, 3 terms, 1 process crash | violates `LogIsWellFormed` |
| `mvcc` | 3 transactions (one scans), 3 versions, 2 keys, batches of 1 and of 2 | snapshot isolation, its invariants, `ScanIsSnapshot` |
| `sql_state` | 2 rows, 2 values (NULL and one that is also an id), 2 versions, 6 log entries, 2 crashes in updates, deletes, commits, rollbacks; expressions of 4 operators; bytes of 8 values, numbers of 2 bytes, keys of 2 bytes | `ReapplicationIsDeterministic`, `IndexesMatchRows`, `OptimizedPlansAgree`, and of the pure functions `PrecedenceIsKept`, `KeysKeepOrder`, `ScansAreExact`, `EqualityIsConsistent`, `ArithmeticIsChecked` |
| `sql_state_reapplied` | crashes in BEGIN and INSERT | violates `ReapplicationIsDeterministic` |
| `sql_state_error` | no crashes, transactions go on after an error | violates `IndexesMatchRows` |
| `client_programs` | workload: 3 keys, cache of 0, 1 or 2, 2 workers, batches of 2, 3 items; clients: 2, with scripts of 1 to 3 statements, 4 transactions, 1 retry, 1 or 2 faults; console: 2 ids, 1 code, any number of statements | list and eviction order, `ItemsAreServed`; `ReturnedMeansOnce`, `NoHiddenTransaction`, `CallsReturn`, `TransactionsEnd`; `ConstraintsHold` |

Why these bounds: four terms are what the known counterexample to committing old-term
entries needs, and its mutant is found there. Two messages in flight let an answer overtake
another; they are in `raft_requests`. The runs with elections have one, which can be lost or delayed but not overtaken:
that `LogMatching`, `NoPanic` and the rest also hold for any number of them is what the theorems say. A deposed leader that serves a stale read needs two terms. Three transactions are
enough for a writer between two others (the conflict that `write_version`'s scan range is
about). Two rows are enough for rows that match, rows that do not, and NULLs on either side of
a join; a value that is also an id lets the equijoins of key and value match. Three keys on a cache of two evict in the third item, in different order under LRU
and FIFO; on a cache of one an insertion evicts the only other entry, on a cache of none the entry just inserted. Two clients make every conflict of two transactions; one retry and two faults let the request of an abandoned
attempt be applied during or after the next one, and a fault strike the rollback in between. Four operators are one more than the shortest
expression that the parser's three loops get wrong. Keys of two bytes contain every pair of the lowest
and the highest byte; numbers of two bytes have all the boundaries that those of eight have. Each input of a pure function
(26,642: every expression, key, scan, pair of values and pair of integers) is an initial state of its own in `sql_state`. For every property a mutant of the modelled code, kept next to the definition it
changes, makes TLC report it under the same bounds.

Runs with `SpecLed` start with a leader elected in term 1 and its first entry committed
everywhere, a state that `Init` reaches in a few steps; the proofs are about `Spec`.

Fairness is assumed in `client_programs` only: each worker's next step, some session's next step as long as one
can go on, and each client's timeout. Threads are scheduled by the operating system; a query answers, fails or
reaches the socket timeout of `Client::connect_timeout`, which the workload's clients set. A session that Raft leaves waiting is given no
fairness, as `Raft::request` has no timeout: `CallsReturn` is about clients that have one, and `TransactionsEnd` leaves out
transactions of which a begin, commit or rollback was aborted or lost, and the one that a hung session works for. The generator needs none. The fairness of
sessions is written as `[]<>~SessionsCanStep \/ []<><<...>>_session`, which is weak fairness of `\E c : SessionStep(c)` with the
enabling condition spelled out. The Raft runs are about safety: the code does not promise that a lost forwarded request is answered.

## Findings

The violation runs show, and `PROJECT.json` quotes, four disagreements between code and
comments or documentation.

* A leader that restarts within its term panics on the responses to its old messages.
  `raft_restarts` shows that the two assertions about forwarded requests ("client request from
  other node", "client response from non-leader") are the only others that a restart reaches.
* `Log::splice` is not atomic: a crash leaves decreasing terms or a gap in the log.
  `log_store` shows what survives nevertheless: committed entries, the term and the vote.
* Applying `BEGIN` twice allocates two versions, so a node that crashed diverges from the
  others. With `CrashIn = {"insert"}` the same property fails for an `INSERT` whose row was
  stored before the crash: its second application finds a duplicate primary key and never
  writes the index entry.
* A failed `INSERT` leaves its row without its index entry, and the transaction can still commit.

More were met that no violation run is spent on. Where a property can say exactly what still holds, it does, with the
disagreement as its exception:

* `OptimizedPlansAgree`: `a LEFT JOIN b ON a.id = b.id AND a.value = 1`, and predicates on the right table in a
  WHERE, return other rows without a match: `push_into` and `maybe_push_join` move them into the sources of an outer join as of an inner one,
  and `short_circuit` makes an outer join without right rows empty. `id = 1 OR id = 1` returns its row twice: `KeyLookup` fetches a key as often as it is named.
* `PrecedenceIsKept`: `a + b IS NULL AND c` is refused, and `x OR a + b IS NULL AND c` is parsed as `(x OR a + b IS NULL) AND c`,
  against the comment at `sql/parser/parser.rs:514`: after the last of its three loops (line 639) the parser takes no infix operator any more.
* `EqualityIsConsistent`: an INTEGER and a FLOAT that are equal in `=` (`sql/types/expression.rs:117`) have different keys and hashes. A filter
  finds the row, the lookup or hash join that replaces it does not. Integers that are rounded as floats, `-0.0` and `-NaN`
  are equal to values that they are less than.
* `ArithmeticIsChecked`: the least integer divided by -1, its remainder and its negation panic (the last wraps in a release build),
  where the comment at `sql/types/expression.rs:162` says "Errors on integer overflow".
* `ConstraintsHold`: write skew leaves references to rows that another transaction deleted, and rows in a table that another
  transaction dropped; `docs/sql.md` says that write skew is possible. Uniqueness is safe from it, because both transactions write the same index entry.
* `TransactionsEnd`: a transaction whose `COMMIT` is aborted is in no session any more and may stay active for ever; its writes
  block those of others. `with_retry` then gets an error from its `ROLLBACK` and gives up. `ReturnedMeansOnce` shows that this
  is what keeps a retry from doing the work twice; the error may hide a commit that happened.
  A transaction of which an ordinary statement is lost stays active for ever in any case: its session waits in `Raft::request` without a
  timeout, so it does not see that the client has timed out and closed the connection, and never comes to roll back.
  `TransactionsEnd` fails as soon as either exception is left out.

Not in a property: with `FailureAfterOpen = TRUE`
`EntriesAndVoteAreDurable` fails: `BitCask::compact` renames a file that was not flushed over
the flushed one, and nothing flushes what a crashed process left behind. And `docs/sql.md` says
that of conflicting transactions the one with the lowest ID wins, where `write_version` lets the
first writer win.

## Proofs

Assumptions (named in `Raft`): `Node` is finite with at least two members and `NoNode` is not one of them
(`NodeAssumption`); the kinds of requests are disjoint (`RequestAssumption`);
bounds are naturals (`BoundAssumption`). Nothing bounds the number of nodes, requests,
messages, terms or restarts.

* `TypeCorrect == Spec => []TypeOK` (`Raft_proofs`). `TypeOK` alone is not inductive:
  a leader's appends carry a base index `next - 1`, entries of its own term need a positive
  term. `TypeInv` adds `ActiveTerm`: candidates and leaders are in a term above 0. There
  is a lemma per operator of the model (`Splice`, `Scan`, `Advance`, `MaybeSendAppend`, ...) that gives the type
  of its result, and one per handler.
* `ElectionIsSafe == Spec => []ElectionSafety` (`Raft_proofs`). The inductive
  invariant `ElectionInv` relates three places a vote can be: stored at the voter, in flight in
  a `CampaignResponse`, and counted by the candidate. `SupportInv`: whoever is counted
  or whose vote is in flight for a candidate of a term has stored that vote, or has moved on
  to a later term without having supported anyone else in that one. `QuorumInv`: each leader
  is backed by a quorum in its term. Two quorums intersect (`QuorumsIntersect`), so two leaders of
  one term share a backer, who backs one node only. `ElectionStep(n)` says what any step of
  node `n` does to votes and roles; a lemma per action shows that it is such a step, and one
  lemma that such a step preserves `ElectionInv`. Restarts are included: the vote is durable.

* `LogsMatch == Spec => []LogMatching` (`Raft_proofs`). A link is an entry with its index and the
  term of the entry before it; the links of the system are those of all logs and of all
  appends in flight. `MatchingInv` says that links of the same index and term are the same
  (`LinksAgree`), and what keeps them so: a term in which a link was made has been won by
  somebody (`TermsAreOwned`), so nobody else can make links of it; its leader has all of them
  (`LeaderHasLinks`), and its appends are slices of its log as long as it leads
  (`AppendsAreSlices`). A splice makes no link, because the base of the append must be in the
  log. Two logs that agree at an index then agree one index below, and so on to the first entry.
* `LeadersAreComplete`, `StateMachinesAgree`, `StateIsKept` (`RaftCommit_proofs`): `Spec` implies
  `[]LeaderCompleteness`, `[]StateMachineSafety` and `DurableStateIsKept`. None of the three is inductive, as what is
  committed is not visible in the state: a leader learns of acknowledgements one by one, may restart with an older commit index, and
  a response may still be in flight when it does. `Acks(a, i, t)` is therefore defined on everything that can still count:
  a log in its term, a leader's match index, a response in flight. An entry is `Abandoned` when
  a quorum has left its term without acknowledging it. `EntriesAreSafe`, the heart of `CommitInv`:
  every entry is abandoned, or `Protected` (every log with an entry of a later term has it, no append of its term or later removes it)
  and `Held` by those who acknowledge it (they have it, and so has every candidate that they support). `CommitsAreChosen`:
  what is committed, applied, or announced in a heartbeat lies below an entry that is held by a quorum.
  `MessagesAreTrue` relates campaigns, votes, heartbeats and responses in flight to the logs they are about.
  `CommitStep(n)` says what any step of node `n` does to commit indexes and progress; with `ElectionStep`
  and `LogStep` it is all that the argument needs of the actions.
* `OnlyRolesPanic == Spec => []OnlyRestartPanics` (`RaftNode_proofs`). Only `RaftInv`, `CommitInv` and what the assertions
  themselves need: everybody who takes somebody for the leader of a term (itself, the receiver of a heartbeat, append or read, a
  follower) takes the same node, and its term is won (`LeadersAreKnown`); heartbeats and responses are well formed
  (`MessagesAreValid`) and stay within the log and the read sequence of the leader they reach (`ResponsesAreInRange`).
  That no splice touches committed entries (`SplicesAreSafe`) follows from `CommitsAreChosen` and `Protected`:
  the append and the log both have the chosen entry above, so they agree below it.
* `ProgressStaysTrue == Spec => []ProgressIsTrue` (`RaftNode_proofs`). A leader's match indexes come from responses, so
  `ProgressInv` says the same of the responses in flight: the sender has that much of the log of the leader of the term, as long
  as it stays in the term (`HasUpTo`). It keeps what it has, because every splice in that term is a slice of the leader's log.
* `AckedWritesStay` and `ReadsLinearize` (`RaftNode_proofs`): `Spec` implies `[]AckedWritesDurable` and
  `[]ReadsAreLinearizable`. A write is `Anchored` when it lies below a chosen entry, in every log that has the entry, and below what the leader
  of the entry's term has committed; it is `DoneBy` a term when it is anchored in that term or before, and this is never lost. What clients
  know and are told (`ClientsAreTold`), and the responses still in flight (`RepliesAreTrue`), are about writes that are done.
  For a read that a leader has queued there are two cases (`ReadsAreFresh`): either all that its reader knew is done by the
  leader's term, and a leader that has committed an entry of its term has then committed it (`LeaderHasDone`); or something was done
  in a later term, so a quorum has left the leader's term without confirming the read (`Unconfirmed`). What counts as a
  confirmation includes the responses still in flight, and nobody confirms a sequence number that was not given out
  (`SequencesAreGiven`), so this quorum never confirms, and no quorum can without one of its members: the read is
  not served. `AppliedIsCommitted` is why the state served is the committed one, although a restart may leave the applied index above the commit
  index. `ClientStep(n)` says what any step of node `n` does to requests, and a lemma per action shows that it is such a step.
* `NothingPanics` and `AnswersAreFinal` (`RaftNode_proofs`): `Spec` implies `[]NoPanic` and `AnsweredOnce`. `RolesInv` says that
  while nothing restarts a node that led a term still leads it or has left it (`Leads`), that the same holds for followers (`FollowsIn`), and that every
  request, response and client response in flight was sent to such a node. A message is dropped when its term is over, so it
  reaches a leader or a follower of that leader. `AnsweredOnce` is about the holders of requests: a request is held by the
  node of its client alone, as a follower that has forwarded it or a leader that has queued it, once, and only while
  the client waits (`HoldersInv`). An answer is given by a holder, which lets go of the request in the same
  step. Restarts only drop requests, so this one does not need their absence. `RequestStep(n)` says what any
  step of node `n` does to its role and to the requests that it holds.
* `InvHolds == MVCCSpec => []MVCCInv` (`MVCC_proofs`), and from it `MVCCTypeOK`, `UncommittedIsLatest`, `WriteRecordsAreExact`
  and `ConflictsAreFound`. The invariant relates the active set to the snapshots taken from it: a version still
  active was active whenever a later one began (`ActiveIsInLaterSnapshots`, `ActiveIsInLaterStates`), a snapshot that has
  a version implies the same of all snapshots in between (`SnapshotsAreMonotone`), and the versions of a key form a chain: who
  wrote one began after the writers of the earlier ones had ended (`VersionsAreChained`). This last part
  is why a conflict can be seen at the latest version alone. Assumptions: `Deleted` and `Absent` are two things that are no
  values, `MaxVersion` is a natural, `NoTxn` is no transaction state.
* `MVCCIsSnapshotIsolation == MVCCSpec => ImplementsSnapshotIsolation` (`MVCC_proofs`): the refinement that `mvcc` checks,
  for any transactions, keys, values and versions. Initial states map to initial states; a lemma per operation shows that
  it maps to the abstract one of that name. The mapping reads rows as of a version and an active set (`ReadAt`),
  so each lemma comes down to which versions of a row are seen before and after (`SameRead`).
* `ScansAreSnapshots == ScanSpec => []ScanIsSnapshot` (`MVCC_proofs`), for any transactions, keys, versions and batch sizes. What a scan has returned and
  what it has buffered is together a listing (`Listing`) of the live keys before the place where it goes on (`ScanOf`): in key order, each once, with the
  value that a single read returns. That place is a version of a key, and the transaction sees none of that key before it (`IsPosition`), so the next
  batch begins with a whole key; a batch lists the live keys up to its last one, and no live key lies between that one and the next
  visible version (`RemainderFacts`). Listings of keys below and above are one listing together (`ListingConcat`), and a listing of the
  first keys is the beginning of the listing of all (`ListingIsStart`). Other transactions do not disturb this, because a step
  changes only the version of an active transaction, which the scan's transaction does not see unless it is its own (`ScanStays`).
  `ScanIsSnapshot` holds of transactions that are still open and have not written (`Eligible`), which is stable until they do. `ScansOnlyRead`: `ScanSpec` implies `MVCCSpec`, so
  that the theorems about `MVCC` are true of the run `mvcc`, which has scans. Assumptions: keys are naturals, batches are not empty, `End` is no position.
  The set of keys may be infinite: only finitely many have versions.
* `NoStatementIsMisplaced` and `ReturnsMeanOnce` (`Sessions_proofs`): `SessionsSpec` implies `[]NoHiddenTransaction` and
  `[]ReturnedMeansOnce`. `SessionsSpec` is the part of `client_programs` that runs clients, for any number of them, any scripts
  of statements, transactions, retries and faults. Neither is inductive. `ClientInv` and `StageInv` relate what the client waits for to what its
  session is doing; with them a client that believes it has no transaction is right, as `COMMIT` and `ROLLBACK` take the
  transaction before they ask Raft. For `ReturnsMeanOnce` the danger is a `COMMIT` that was aborted and is applied after all
  (`MayCommit`). A client that waits is `Doomed` when its closure will not run again: its session hangs, or the `ROLLBACK` of a retry finds no
  transaction and fails. `TransactionInv` says that of a closure that is one transaction nothing is committed, and no `COMMIT` is under way,
  unless the client is doomed. A new attempt therefore starts from nothing, and what returns has committed in this attempt. `OwnersInv`
  keeps apart the transactions of different clients. `Preserves(c)` says what a step of client `c` or its session
  leaves as it was; there is a lemma per action. Assumptions: transactions are naturals, which differ from the marks for none and read-only
  (`SessionsAssumption`); scripts are not empty and made of known statements (`ScriptAssumption`). What statements do to the tables does not matter
  here, so the theorems hold for any `Command` and `Execute`, except that a statement that writes submits no `COMMIT`.
* `LogStore_proofs` proves the six properties that `log_store` checks, for any number of entries, terms, crashes and compactions.
  `MemoryIsEngine` and `SplicesAreAtomic` (`StoreSpec` implies `[]MemoryMatchesEngine` and `[]SpliceIsAtomic`) need only `StoreInv`:
  what the engine holds is typed per key, and the memory of `Log` is what `Log::new` would read from it (`Loaded`).
  They rest on lemmas about the engine: writes one after the other are their concatenation (`ApplyConcat`), a compacted file
  holds what it was made from (`CompactionKeepsContent`), a crash leaves the old content and a prefix of the running operation's writes, or the
  flushed content and a prefix of the unflushed ones (`CrashFacts`), and a splice leaves the old entries up to its base and the new ones (`SpliceContent`).
  `CommitsExist`, `CommittedStay`, `CrashesLoseNothing` and `VotesStay` (`[]CommitIndexExists`, `CommittedEntriesAreKept`,
  `EntriesAndVoteAreDurable`, `VotesAreKept`) have the hypothesis `~FailureAfterOpen`:
  a power failure between a compaction and the next flush may lose what had been flushed before (see "Findings").
  `CommitIndexExists` is not inductive, because a power failure brings back an older commit index. `CommitsInv` therefore speaks of
  every commit index that may come back, the flushed one and each unflushed one: its entry is stored, in its term, and it is no
  later than the commit index in memory; and after a flush nothing else is unflushed. Entries up to the commit index are not overwritten, which is
  what the assertion of `splice` is for, so all of them stay sound. Assumption (`LogStoreAssumption`): `Absent` and `NoVote` are no values, bounds are naturals.
* `CommandsAreReapplied` (`SqlState_proofs`): if crashes interrupt neither BEGIN nor INSERT, `SqlSpec` implies
  `[]ReapplicationIsDeterministic`, for any rows, values, transactions, log entries and crashes, whether clients go on after errors or not. With BEGIN or INSERT
  it is false (see "Findings"), so the hypothesis cannot be dropped. The invariant is that what is left to apply leads the node to the engine of one that
  never crashed (`ApplyLeadsToExpected`), and the work is in `ExecAgain`: from every content that a crash leaves of an
  update, delete, commit or rollback, executing the command again ends where the first execution would have. A write that was
  made is made again without effect, because a transaction's own version is no conflict and is what the transaction reads
  (`OwnIsNoConflict`, `ReadOwn`, `WrittenAgain`); removing or adding an id twice is like doing it once (`HeldIndexValue`); the writes of
  other keys change neither reads nor conflicts (`OthersStay`); and the row is written last, so that the old value is found until all is done (`MovedAgain`,
  `RemovedAgain`). Commit and rollback finish what is left of the records, or fail if the transaction has ended.
  Assumptions: `SqlStateAssumption`, and that a tombstone and a missing version are neither values nor sets of ids (`StoredAssumption`).
* `IndexesAreKept` (`SqlState_proofs`): if besides clients roll back after an error, `SqlSpec` implies `[]IndexesMatchRows`. Without this hypothesis it is
  false: `sql_state_error` shows what a statement leaves that fails half way. The invariant (`IndexInv`) is about more views than the property:
  a view of the latest commits (`Latest`), what each transaction saw when it began (`AtStart`), and what each active one without an error sees now.
  Indexes match rows in all of them (`ViewsMatch`). A statement changes the view of its own transaction only (`ActiveIsHidden`, `StatementKeepsViews`) and keeps
  it matched if it succeeds (`InsertKeepsView`, `UpdateKeepsView`, `DeleteKeepsView`); a rollback leaves nothing, as the records name every version of an
  active transaction (`RollbackEnds`). The commit is the hard step, because conflicts are found per key: one transaction may write a row while another writes
  the index entry it belongs to. An active transaction has seen every version of the keys it has written (`WritesAreSerial`, kept by `NoConflictSees`), so
  its commit takes the latest view of these keys from what it saw when it began to what it sees now, and leaves the other keys, which it sees as when it
  began (`CommittedReads`). As the indexes match in the latest view before and in both views of the transaction, they match in the latest view
  after, whether it has written the row, the index entry, both or neither (`CommitKeepsLatest`).
* `Extrema_proofs`: a bounded set of integers has a least and a greatest member (the order of `Nat` is well founded),
  which is cited wherever a first or a latest entry or version is picked, and counting the members of a finite set of naturals up to each of them
  numbers them in order (`Ranks`), for scans and compaction.

Only model-checked: `SqlPlan`, the constraints of tables and the pure functions on keys and values; the cache's list, because what a walk along it finds is defined
by recursion and needs induction over the list; liveness (`ItemsAreServed`, `CallsReturn`, `TransactionsEnd`), which is outside the
prover's reach; `Parser`, whose operators are RECURSIVE.

## Not modelled

Single-node clusters (`cluster_size() == 1` shortcuts), configuration changes (there are none),
sockets and the connections between peers, the file format and checksums of BitCask, statistics and status.
Of the programs: the write and bank workloads, the dump tool, terminal input. Of sessions: EXPLAIN, `AS OF SYSTEM TIME` (time travel is in `MVCC`), column labels.
A client closes after its call of `with_retry`, as the programs do after an error; a connection that is used again after a timeout, where each answer is taken
for that of the next request, is not modelled.
Of SQL queries: ORDER BY, hidden columns, VALUES, aggregates other than COUNT, float arithmetic, powers and roots, LIKE, type
errors, name resolution. Of the parser: the statements' grammar, one alternative per clause, and the lexer; both are text processing without
a decision that a property here could tell from its restatement. bincode wraps a library, `format.rs` is debugging output.

## Plan

1. Raft, the log on disk, MVCC, application of SQL commands, query plans, the cache; sessions and clients, tables with their constraints,
   keys, values and expressions: done. Proved: every safety property of `Raft`, `LogStore`, `MVCC` and `MVCCScan` that a passing run checks, and that
   sessions neither misplace statements nor return twice; and that interrupted commands, but for BEGIN and INSERT, are applied again to the same end, and that indexes match rows.
2. Proofs: constraints of tables, which need a lemma per statement.
3. An abstract replicated log that `Raft` refines.
4. ORDER BY and the other aggregates in `SqlPlan`.
