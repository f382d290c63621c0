------------------------------ MODULE MVCCScan ------------------------------
(***************************************************************************)
(* Scans in MVCC, src/storage/mvcc.rs ScanIterator: a scan pulls a batch   *)
(* of live key/value pairs at a time and releases the engine in between,   *)
(* while other transactions go on writing, committing and rolling back.    *)
(***************************************************************************)
EXTENDS MVCC, Sequences

CONSTANTS
    Scanner,        \* the transactions that scan
    BufferSizes,    \* values of ScanIterator::BUFFER_SIZE, which depends on the build
    End             \* no remaining range, or no scan

\* Keys are numbers, as the engine orders them.
ASSUME KeyAssumption == Key \subseteq Nat

ASSUME ScanAssumption ==
    BufferSizes \subseteq Nat \ {0} /\ Scanner \subseteq Txn /\ End \notin Nat \X Nat

VARIABLE iter       \* the scan of each transaction: [size, remainder, buffer, out], or End

scanVars == <<nextVersion, active, snapshot, writes, data, txn, outcome, iter>>

\* The order of Key::Version(key, version) in the engine.
AtOrAfter(p, q) == p[1] > q[1] \/ (p[1] = q[1] /\ p[2] >= q[2])

\* VersionIterator from an engine key on: the versions that s sees.
VisibleFrom(s, start) ==
    {p \in Key \X Version :
        AtOrAfter(p, start) /\ data[p[1]][p[2]] # Absent /\ IsVisible(s, p[2])}

\* The latest of them for each key, without tombstones.
LiveFrom(s, start) ==
    LET seen == VisibleFrom(s, start)
    IN  {p \in seen : /\ \A q \in seen : q[1] = p[1] => q[2] <= p[2]
                      /\ data[p[1]][p[2]] # Deleted}

\* Mutant: the scan goes on at the key after the next one.
RemainderAfterNext(s, start, last) ==
    LET rest == {p \in VisibleFrom(s, start) : p[1] > last + 1}
    IN  IF rest = {} THEN End ELSE CHOOSE p \in rest : \A q \in rest : AtOrAfter(q, p)

\* Where a scan that has buffered key `last` goes on: at the next visible version.
Remainder(s, start, last) ==
    LET rest == {p \in VisibleFrom(s, start) : p[1] > last}
    IN  IF rest = {} THEN End ELSE CHOOSE p \in rest : \A q \in rest : AtOrAfter(q, p)

\* A set of numbers in order.
Sorted(S) ==
    [i \in 1..Cardinality(S) |-> CHOOSE k \in S : Cardinality({m \in S : m <= k}) = i]

\* The keys and values of live versions, in key order.
Pairs(live) ==
    LET keys == Sorted({p[1] : p \in live})
        pair(k) == CHOOSE p \in live : p[1] = k
    IN  [i \in DOMAIN keys |-> <<keys[i], data[keys[i]][pair(keys[i])[2]]>>]

\* Transaction::scan of all keys.
StartScan(t, size) ==
    /\ txn[t] # NoTxn /\ (txn[t].readOnly \/ IsOpen(t)) /\ iter[t] = End
    /\ iter' = [iter EXCEPT ![t] = [size |-> size, remainder |-> <<0, 0>>, buffer |-> <<>>,
                                    out |-> <<>>]]
    /\ UNCHANGED mvccVars

\* ScanIterator::next on an empty buffer: fill_buffer, then pop.
FillAndPop(t) ==
    /\ iter[t] # End /\ iter[t].buffer = <<>> /\ iter[t].remainder # End
    /\ LET size  == iter[t].size
           start == iter[t].remainder
           pairs == Pairs(LiveFrom(txn[t], start))
           full  == Len(pairs) >= size
           batch == IF full THEN SubSeq(pairs, 1, size) ELSE pairs
       IN  iter' = [iter EXCEPT ![t] =
              [size |-> size,
               remainder |-> IF full THEN Remainder(txn[t], start, pairs[size][1]) ELSE End,
               buffer |-> IF pairs = <<>> THEN <<>> ELSE Tail(batch),
               out |-> IF pairs = <<>> THEN iter[t].out ELSE Append(iter[t].out, batch[1])]]
    /\ UNCHANGED mvccVars

\* ScanIterator::next from the buffer.
PopBuffer(t) ==
    /\ iter[t] # End /\ iter[t].buffer # <<>>
    /\ iter' = [iter EXCEPT ![t] =
           [size |-> @.size, remainder |-> @.remainder,
            buffer |-> Tail(@.buffer), out |-> Append(@.out, Head(@.buffer))]]
    /\ UNCHANGED mvccVars

ScanInit == MVCCInit /\ iter = [t \in Scanner |-> End]

ScanNext ==
    \/ MVCCNext /\ UNCHANGED iter
    \/ \E t \in Scanner : (\E size \in BufferSizes : StartScan(t, size)) \/ FillAndPop(t) \/ PopBuffer(t)

ScanSpec == ScanInit /\ [][ScanNext]_scanVars

-----------------------------------------------------------------------------
\* The pairs that s sees, by single reads.
Reference(s) ==
    LET keys == Sorted({j \in Key : Get(s, j) # Deleted})
    IN  [i \in DOMAIN keys |-> <<keys[i], Get(s, keys[i])>>]

HasWritten(t) == \E k \in Key : <<txn[t].version, k>> \in writes

\* A scan is of the transaction's snapshot although the engine changes between
\* its batches: what it has returned is the beginning of what single reads
\* return, and when it has ended it is all of it.  (The transaction's own
\* writes, which its scans may or may not see, are left out.)
ScanIsSnapshot ==
    \A t \in Scanner : iter[t] # End /\ (txn[t].readOnly \/ (IsOpen(t) /\ ~HasWritten(t))) =>
        LET expected == Reference(txn[t])
            pulled   == iter[t].out \o iter[t].buffer
        IN  /\ Len(pulled) <= Len(expected) /\ pulled = SubSeq(expected, 1, Len(pulled))
            /\ iter[t].remainder = End => pulled = expected
=============================================================================
