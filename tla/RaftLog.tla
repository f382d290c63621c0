------------------------------ MODULE RaftLog ------------------------------
(***************************************************************************)
(* The Raft log of src/raft/log.rs as a value: a sequence of entries, each *)
(* with the term it was proposed in and its command.  The index of an      *)
(* entry is its position.  The operators are the queries and updates that  *)
(* the Raft node makes on its log, taken as atomic; LogStore models the    *)
(* engine writes and flushes that each of them consists of.                *)
(***************************************************************************)
EXTENDS Naturals, Sequences

Max2(a, b) == IF a > b THEN a ELSE b

Min2(a, b) == IF a < b THEN a ELSE b

\* The term of the entry at index i; index 0 is the empty log's (0, 0).
TermAt(l, i) == IF i \in 1..Len(l) THEN l[i].term ELSE 0

LastTerm(l) == TermAt(l, Len(l))

\* Log::has.
Has(l, i, t) == i \in 1..Len(l) /\ l[i].term = t

\* Mutant: only the length of the log is compared with an append's base.
HasBaseByLength(l, i, t) == i <= Len(l)

\* An append connects to the log at its base entry (Follower::step, Append).
HasBase(l, i, t) == i = 0 \/ Has(l, i, t)

\* Log::scan from an index, limited to count entries.
Scan(l, from, count) == SubSeq(l, from, Min2(Len(l), from + count - 1))

\* The positions in es, whose first entry has index base + 1, from the first
\* entry on that is not in the log with the same term.
NewEntries(l, base, es) ==
    {k \in 1..Len(es) : \E j \in 1..k : ~Has(l, base + j, es[j].term)}

\* Log::splice: entries the log has already are skipped; from the first that it
\* has not, the new entries replace the tail of the log.
Splice(l, base, es) ==
    IF NewEntries(l, base, es) = {} THEN l ELSE SubSeq(l, 1, base) \o es

\* The assertions of Log::splice, for a log in term t committed up to index c.
SplicePanics(l, t, c, base, es) ==
    /\ es # <<>>
    /\ \/ es[1].term = 0 \/ es[Len(es)].term > t
       \/ \E k \in 1..Len(es) - 1 : es[k].term > es[k + 1].term
       \/ base > Len(l)
       \/ base \in 1..Len(l) /\ es[1].term < l[base].term
       \/ \E k \in 1..Len(es) \ NewEntries(l, base, es) : l[base + k] # es[k]
       \/ \E k \in NewEntries(l, base, es) : base + k <= c
=============================================================================
