------------------------------ MODULE LogStore ------------------------------
(***************************************************************************)
(* The Raft log of src/raft/log.rs on its storage engine, the append-only  *)
(* file of src/storage/bitcask.rs: the engine writes and flushes that each *)
(* operation consists of, and crashes at any point of them.                *)
(*                                                                         *)
(* A crash of the process keeps every write that the engine made, flushed  *)
(* or not; a power failure keeps a prefix of those that were not flushed,  *)
(* and BitCask truncates an incomplete write at the end of its file when   *)
(* it is opened.                                                           *)
(*                                                                         *)
(* Commands are left out: entries of the same index and term are equal.    *)
(***************************************************************************)
EXTENDS RaftLog, FiniteSets

CONSTANTS
    Node, NoVote,       \* the nodes that votes are for; Rust's None
    Absent,             \* no value
    CrashKind,          \* the crashes that happen: "process", "power"
    FailureAfterOpen,   \* power may fail between an opening and the next flush
    MaxIndex, MaxTerm,  \* bounds: indexes and terms
    MaxCrashes,         \* bound: crashes
    MaxCompactions      \* bound: compactions when the engine is opened

\* What the engine stores: entries, the term and vote, the commit index.
EntryValue == [term : Nat]
TermVoteValue == [term : Nat \ {0}, vote : Node \cup {NoVote}]
CommitValue == [index : 1..MaxIndex, term : Nat]

ASSUME LogStoreAssumption ==
    /\ NoVote \notin Node /\ Absent \notin EntryValue \cup TermVoteValue \cup CommitValue
    /\ CrashKind \subseteq {"process", "power"} /\ FailureAfterOpen \in BOOLEAN
    /\ MaxIndex \in Nat /\ MaxTerm \in Nat /\ MaxCrashes \in Nat /\ MaxCompactions \in Nat

VARIABLES
    disk,                       \* the engine's flushed content
    unsynced,                   \* writes since the last flush
    inherited,                  \* some of them are from before the engine was opened
    garbage,                    \* the flushed part of its file holds replaced or deleted keys
    term, vote,                 \* Log::term, Log::vote
    lastIndex, lastTerm,        \* Log::last_index, Log::last_term
    commitIndex, commitTerm,    \* Log::commit_index, Log::commit_term
    crashes, compactions        \* how many there have been

memory == <<term, vote, lastIndex, lastTerm, commitIndex, commitTerm>>

storeVars == <<disk, unsynced, inherited, garbage, term, vote, lastIndex, lastTerm, commitIndex,
               commitTerm, crashes, compactions>>

Index == 1..MaxIndex

Entry(i) == <<"Entry", i>>
TermVote == <<"TermVote", 0>>
CommitIndex == <<"CommitIndex", 0>>

EngineKey == {Entry(i) : i \in Index} \cup {TermVote, CommitIndex}

-----------------------------------------------------------------------------
(* The engine.                                                             *)

Set(key, value) == [key |-> key, value |-> value]

Delete(key) == [key |-> key, value |-> Absent]

WritesOf(ws, k) == {i \in DOMAIN ws : ws[i].key = k}

LastOf(S) == CHOOSE i \in S : \A j \in S : j <= i

\* BitCask: the last write of each key counts.
Apply(d, ws) ==
    [k \in DOMAIN d |-> IF WritesOf(ws, k) = {} THEN d[k] ELSE ws[LastOf(WritesOf(ws, k))].value]

Content == Apply(disk, unsynced)

\* Writes that leave replaced values or tombstones in the file.
MakesGarbage(d, ws) ==
    \E i \in DOMAIN ws :
        ws[i].value = Absent \/ Apply(d, SubSeq(ws, 1, i - 1))[ws[i].key] # Absent

\* Engine writes, and a flush if the operation ends with one.
Perform(ws, flush) ==
    IF flush THEN /\ disk' = Apply(Content, ws) /\ unsynced' = <<>> /\ inherited' = FALSE
                  /\ garbage' = (garbage \/ MakesGarbage(disk, unsynced \o ws))
    ELSE unsynced' = unsynced \o ws /\ UNCHANGED <<disk, inherited, garbage>>

\* The keys in their order.
KeyAt(n) == IF n \in Index THEN Entry(n) ELSE IF n = MaxIndex + 1 THEN TermVote ELSE CommitIndex

\* What compaction writes to the new file: the live keys, in order.
LiveWrites(d) ==
    LET live == {n \in 1..MaxIndex + 2 : d[KeyAt(n)] # Absent}
        key(i) == KeyAt(CHOOSE n \in live : Cardinality({m \in live : m <= n}) = i)
    IN  [i \in 1..Cardinality(live) |-> Set(key(i), d[key(i)])]

Empty == [k \in EngineKey |-> Absent]

-----------------------------------------------------------------------------
(* The log.                                                                *)

Entries(d) == [i \in Index |-> d[Entry(i)]]

Stored(d) == {i \in Index : d[Entry(i)] # Absent}

\* Mutant: the scan for the last entry stops at the first one.
LoadFirst(d) ==
    LET tv == d[TermVote]
        ci == d[CommitIndex]
        last == IF Stored(d) = {} THEN 0 ELSE CHOOSE i \in Stored(d) : \A j \in Stored(d) : j >= i
    IN  /\ term' = IF tv = Absent THEN 0 ELSE tv.term
        /\ vote' = IF tv = Absent THEN NoVote ELSE tv.vote
        /\ lastIndex' = last
        /\ lastTerm' = IF last = 0 THEN 0 ELSE d[Entry(last)].term
        /\ commitIndex' = IF ci = Absent THEN 0 ELSE ci.index
        /\ commitTerm' = IF ci = Absent THEN 0 ELSE ci.term

\* Log::new on an engine with content d.
Load(d) ==
    LET tv == d[TermVote]
        ci == d[CommitIndex]
        last == IF Stored(d) = {} THEN 0 ELSE LastOf(Stored(d))
    IN  /\ term' = IF tv = Absent THEN 0 ELSE tv.term
        /\ vote' = IF tv = Absent THEN NoVote ELSE tv.vote
        /\ lastIndex' = last
        /\ lastTerm' = IF last = 0 THEN 0 ELSE d[Entry(last)].term
        /\ commitIndex' = IF ci = Absent THEN 0 ELSE ci.index
        /\ commitTerm' = IF ci = Absent THEN 0 ELSE ci.term

\* A crash while an operation writes ws, and the opening of the engine, which may
\* compact it: compaction replaces the file by a new one that it does not flush.
CrashDuring(ws) ==
    /\ crashes < MaxCrashes
    /\ crashes' = crashes + 1
    /\ \E kind \in CrashKind, n \in 0..Len(unsynced) + Len(ws) :
          LET kept == SubSeq(unsynced \o ws, 1, n)
              d    == Apply(disk, kept)
              g    == garbage \/ MakesGarbage(disk, kept)
          IN  /\ kind = "process" => n >= Len(unsynced)
              /\ kind = "power" /\ inherited => FailureAfterOpen
              /\ Load(d)
              /\ \/ /\ kind = "process"
                    /\ unsynced' = kept /\ inherited' = (kept # <<>>)
                    /\ UNCHANGED <<disk, garbage, compactions>>
                 \/ /\ kind = "power"
                    /\ disk' = d /\ unsynced' = <<>> /\ inherited' = FALSE /\ garbage' = g
                    /\ UNCHANGED compactions
                 \/ /\ g /\ compactions < MaxCompactions
                    /\ compactions' = compactions + 1
                    /\ disk' = Empty /\ unsynced' = LiveWrites(d) /\ garbage' = FALSE
                    /\ inherited' = TRUE

Crash == CrashDuring(<<>>)

(* The operations: each runs to its end, or the node crashes during it.      *)

TermVoteWrites(t, v) == <<Set(TermVote, [term |-> t, vote |-> v])>>

\* Mutant: the term and vote are not flushed.
SetTermVoteUnflushed(t, v) ==
    /\ t > 0 /\ t >= term /\ (t > term \/ vote = NoVote) /\ <<t, v>> # <<term, vote>>
    /\ \/ /\ Perform(TermVoteWrites(t, v), FALSE)
          /\ term' = t /\ vote' = v
          /\ UNCHANGED <<lastIndex, lastTerm, commitIndex, commitTerm, crashes, compactions>>
       \/ CrashDuring(TermVoteWrites(t, v))

\* Mutant: a vote can be changed within its term.
SetTermVoteAgain(t, v) ==
    /\ t > 0 /\ t >= term /\ <<t, v>> # <<term, vote>>
    /\ \/ /\ Perform(TermVoteWrites(t, v), TRUE)
          /\ term' = t /\ vote' = v
          /\ UNCHANGED <<lastIndex, lastTerm, commitIndex, commitTerm, crashes, compactions>>
       \/ CrashDuring(TermVoteWrites(t, v))

SetTermVote(t, v) ==
    /\ t > 0 /\ t >= term /\ (t > term \/ vote = NoVote) /\ <<t, v>> # <<term, vote>>
    /\ \/ /\ Perform(TermVoteWrites(t, v), TRUE)
          /\ term' = t /\ vote' = v
          /\ UNCHANGED <<lastIndex, lastTerm, commitIndex, commitTerm, crashes, compactions>>
       \/ CrashDuring(TermVoteWrites(t, v))

AppendWrites == <<Set(Entry(lastIndex + 1), [term |-> term])>>

AppendEntry ==
    /\ term > 0 /\ lastIndex < MaxIndex
    /\ \/ /\ Perform(AppendWrites, TRUE)
          /\ lastIndex' = lastIndex + 1 /\ lastTerm' = term
          /\ UNCHANGED <<term, vote, commitIndex, commitTerm, crashes, compactions>>
       \/ CrashDuring(AppendWrites)

\* Mutant: the commit index is written whether the entry exists or not.
CommitMissing(i) ==
    /\ i > commitIndex
    /\ LET w == <<Set(CommitIndex, [index |-> i, term |-> lastTerm])>>
       IN  \/ /\ Perform(w, FALSE)
              /\ commitIndex' = i /\ commitTerm' = lastTerm
              /\ UNCHANGED <<term, vote, lastIndex, lastTerm, crashes, compactions>>
           \/ CrashDuring(w)

\* The commit index is not flushed.
Commit(i) ==
    /\ i > commitIndex /\ Content[Entry(i)] # Absent
    /\ LET t == Content[Entry(i)].term
           w == <<Set(CommitIndex, [index |-> i, term |-> t])>>
       IN  \/ /\ Perform(w, FALSE)
              /\ commitIndex' = i /\ commitTerm' = t
              /\ UNCHANGED <<term, vote, lastIndex, lastTerm, crashes, compactions>>
           \/ CrashDuring(w)

\* The entries of es, whose first has index base + 1, that splice writes.
Fresh(base, es) ==
    {k \in 1..Len(es) : \E j \in 1..k :
        Content[Entry(base + j)] = Absent \/ Content[Entry(base + j)].term # es[j].term}

\* The scan of the entries that exist meets no gap before the first conflict.
ScanIsContiguous(base, es) ==
    \A j \in Fresh(base, es) :
        Fresh(base, es) \subseteq j..Len(es) /\ Content[Entry(base + j)] = Absent =>
            \A k \in j..Len(es) : Content[Entry(base + k)] = Absent

\* Entries that splice accepts: they are in order and connect to the log.
Connects(base, es) ==
    /\ es # <<>> /\ base + Len(es) <= MaxIndex
    /\ \A k \in 1..Len(es) - 1 : es[k].term <= es[k + 1].term
    /\ base > 0 => Content[Entry(base)] # Absent /\ Content[Entry(base)].term <= es[1].term
    /\ ScanIsContiguous(base, es)

\* Mutant: committed entries can be replaced.
CanSpliceCommitted(base, es) == Connects(base, es) /\ es[Len(es)].term <= term

\* The assertions of splice.
CanSplice(base, es) ==
    /\ Connects(base, es)
    /\ es[Len(es)].term <= term
    /\ \A k \in Fresh(base, es) : base + k > commitIndex

\* How many entries splice skips, since the log has them already.
Skipped(base, es) == (CHOOSE k \in Fresh(base, es) : \A j \in Fresh(base, es) : k <= j) - 1

\* Mutant: the tail of the old log is not removed.
SpliceWritesNoTail(base, es) ==
    LET skip == Skipped(base, es)
    IN  [i \in 1..Len(es) - skip |-> Set(Entry(base + skip + i), es[skip + i])]

\* The new entries in order, then the deletion of the old tail in order.
SpliceWrites(base, es) ==
    LET skip == Skipped(base, es)
        end  == base + Len(es)
    IN  [i \in 1..Len(es) - skip |-> Set(Entry(base + skip + i), es[skip + i])]
            \o [i \in 1..(IF lastIndex > end THEN lastIndex - end ELSE 0) |->
                   Delete(Entry(end + i))]

SpliceEntries(base, es) ==
    /\ CanSplice(base, es) /\ Fresh(base, es) # {}
    /\ \/ /\ Perform(SpliceWrites(base, es), TRUE)
          /\ lastIndex' = base + Len(es) /\ lastTerm' = es[Len(es)].term
          /\ UNCHANGED <<term, vote, commitIndex, commitTerm, crashes, compactions>>
       \/ CrashDuring(SpliceWrites(base, es))

-----------------------------------------------------------------------------
StoreInit ==
    /\ disk = Empty /\ unsynced = <<>> /\ inherited = FALSE /\ garbage = FALSE
    /\ term = 0 /\ vote = NoVote
    /\ lastIndex = 0 /\ lastTerm = 0 /\ commitIndex = 0 /\ commitTerm = 0
    /\ crashes = 0 /\ compactions = 0

SplicedEntries == UNION {[1..n -> [term : 1..MaxTerm]] : n \in 1..MaxIndex}

StoreNext ==
    \/ \E t \in 1..MaxTerm, v \in Node \cup {NoVote} : SetTermVote(t, v)
    \/ AppendEntry
    \/ \E i \in Index : Commit(i)
    \/ \E base \in 0..MaxIndex - 1, es \in SplicedEntries : SpliceEntries(base, es)
    \/ Crash

StoreSpec == StoreInit /\ [][StoreNext]_storeVars

-----------------------------------------------------------------------------
(* Properties.                                                             *)

\* The entries are those of a sequence.
IsContiguous(d) == Stored(d) = 1..Cardinality(Stored(d))

\* The stored entries as a sequence, when they are one.
LogOf(d) == [i \in Stored(d) |-> d[Entry(i)]]

\* What Log keeps in memory is what the engine holds, so that has(), append()
\* and elections decide on the stored log, also after a crash.
MemoryMatchesEngine ==
    LET stored == Stored(Content)
    IN  /\ lastIndex \in stored \cup {0} /\ \A i \in stored : i <= lastIndex
        /\ lastIndex > 0 => lastTerm = Content[Entry(lastIndex)].term
        /\ term > 0 => Content[TermVote] = [term |-> term, vote |-> vote]
        /\ commitIndex > 0 =>
              Content[CommitIndex] = [index |-> commitIndex, term |-> commitTerm]

\* The commit index is that of a stored entry: commit_index and the entries are
\* written and flushed separately, and a crash loses only the newest of them.
CommitIndexExists ==
    commitIndex > 0 => /\ Content[Entry(commitIndex)] # Absent
                       /\ Content[Entry(commitIndex)].term = commitTerm

\* "Committed entries are never changed or removed": no operation, no crash in
\* the middle of one and no lost commit index changes them.
CommittedEntriesAreKept ==
    [][\A i \in 1..commitIndex : Content'[Entry(i)] = Content[Entry(i)]]_storeVars

\* "Appended entries are durable (flushed to disk)", and so are term and vote:
\* a crash between two operations loses none of them.
EntriesAndVoteAreDurable ==
    [][Crash => /\ Entries(Content)' = Entries(Content)
                /\ term' = term /\ vote' = vote]_storeVars

\* The term never goes back, and a vote is never replaced in its term, also by a
\* crash in the middle of set_term_vote.
VotesAreKept ==
    [][term' >= term /\ (term' = term /\ vote # NoVote => vote' = vote)]_storeVars

\* On a log that is a sequence, the engine writes of a splice that runs to its
\* end are together the splice of RaftLog, which the Raft model takes in one step.
SpliceIsAtomic ==
    IsContiguous(Content) =>
        \A base \in 0..MaxIndex - 1, es \in SplicedEntries :
            CanSplice(base, es) /\ Fresh(base, es) # {} =>
                LogOf(Apply(Content, SpliceWrites(base, es)))
                    = Splice(LogOf(Content), base, es)

\* "Entry indexes are contiguous starting at 1 (no index gaps)."
\* "Entry terms never decrease from the previous entry."
LogIsWellFormed ==
    /\ IsContiguous(Content)
    /\ \A i, j \in Stored(Content) : i < j => Content[Entry(i)].term <= Content[Entry(j)].term
=============================================================================
