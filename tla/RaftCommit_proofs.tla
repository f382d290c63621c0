------------------------- MODULE RaftCommit_proofs -------------------------
(***************************************************************************)
(* Leader completeness and state machine safety of Raft, for every cluster *)
(* and every bound: what a node has committed is never lost.               *)
(*                                                                         *)
(* Entry (i, t) is the entry of index i and term t.  A node acknowledges   *)
(* it as long as it has it in term t, and afterwards as long as the leader *)
(* of term t knows, or can learn from a response in flight, that it had it. *)
(* When a quorum has moved past term t without acknowledging it, the entry *)
(* is abandoned: it can never be committed by counting.  The invariant is  *)
(* that every entry is abandoned or safe: the nodes that acknowledge it    *)
(* still have it, every candidate that one of them supports in a later term *)
(* has it, and so has every log with an entry of a later term.             *)
(***************************************************************************)
EXTENDS Raft_proofs

Responses == {m \in msgs : m.body.type \in {"AppendResponse", "HeartbeatResponse"}}

\* Leader n knows, or will learn, that the log of a equals its own up to index i.
Acknowledged(a, i, n) ==
    \/ a # n /\ role[n].progress[a].match >= i
    \/ \E m \in Responses : m.from = a /\ m.term = term[n] /\ m.body.matchIndex >= i

Acks(a, i, t) ==
    \/ term[a] = t /\ Has(log[a], i, t)
    \/ \E n \in Node : IsLeader(n) /\ term[n] = t /\ Has(log[n], i, t) /\ Acknowledged(a, i, n)

Abandoned(i, t) ==
    \E Q \in SUBSET Node : IsQuorum(Q) /\ \A b \in Q : term[b] > t /\ ~Acks(b, i, t)

\* The nodes in Q have entry (i, t), and so has every candidate that one of them
\* supports in a later term.
Held(i, t, Q) ==
    \A a \in Q :
        /\ term[a] >= t /\ Has(log[a], i, t)
        /\ \A p \in Node : role[p].kind = "candidate" /\ term[p] > t /\ Supports(a, p, term[p]) =>
              Has(log[p], i, t)

\* Logs with later entries have entry (i, t), and no append of term t or later
\* removes it from a log.
Protected(i, t) ==
    /\ \A l \in Buildable : (\E k \in 1..Len(l) : l[k].term > t) => Has(l, i, t)
    /\ \A m \in Appends, l \in Buildable : m.term >= t /\ Has(l, i, t) =>
          \A k \in 1..Len(m.body.entries) :
              m.body.baseIndex + k <= i =>
                  Has(l, m.body.baseIndex + k, m.body.entries[k].term)

\* Every entry is abandoned, or safe with the nodes that acknowledge it.
EntriesAreSafe ==
    \A x \in Links :
        LET i == x.index
            t == x.entry.term
        IN  Abandoned(i, t) \/ (Protected(i, t) /\ Held(i, t, {a \in Node : Acks(a, i, t)}))

Chosen(i, t) == \E Q \in SUBSET Node : IsQuorum(Q) /\ Protected(i, t) /\ Held(i, t, Q)

Agrees(l1, l2, c) == c <= Len(l1) /\ c <= Len(l2) /\ \A k \in 1..c : l1[k] = l2[k]

\* The entries of l up to index c are among those up to a chosen entry of term t
\* or earlier.
Committed(l, c, t) ==
    c # 0 => \E j, u \in Nat :
        /\ c <= j /\ u <= t /\ Chosen(j, u)
        /\ \A k \in Buildable : Has(k, j, u) => Agrees(l, k, c)

\* What nodes have committed and applied is chosen, and what heartbeats tell
\* them to commit.
CommitsAreChosen ==
    /\ \A n \in Node : Committed(log[n], commit[n], term[n]) /\ Committed(log[n], applied[n], term[n])
    /\ \A m \in msgs : m.body.type = "Heartbeat" =>
          \A l \in Buildable : Has(l, m.body.lastIndex, m.term) =>
              Committed(l, m.body.commitIndex, m.term)

\* Campaigns, votes, heartbeats and responses in flight, against the log of the
\* node that they are about, as long as it is in their term.
MessagesAreTrue ==
    \A m \in msgs :
        /\ m.body.type = "Campaign" =>
              /\ m.term <= term[m.from]
              /\ m.term = term[m.from] /\ role[m.from].kind = "candidate" =>
                    m.body.lastIndex = Len(log[m.from]) /\ m.body.lastTerm = LastTerm(log[m.from])
        /\ IsGrant(m) => m.term <= term[m.to]
        /\ m.body.type = "Heartbeat" => \A n \in Node :
              IsLeader(n) /\ term[n] = m.term => Has(log[n], m.body.lastIndex, m.term)
        /\ m \in Responses => \A n \in Node :
              IsLeader(n) /\ term[n] = m.term => m.body.matchIndex <= Len(log[n])

CommitInv == EntriesAreSafe /\ CommitsAreChosen /\ MessagesAreTrue

RaftInv == TypeInv /\ ElectionInv /\ MatchingInv

-----------------------------------------------------------------------------
(* Facts about logs.                                                       *)

\* The entries of a log have terms.
LEMMA EntryTerm ==
    ASSUME NEW l \in Log, NEW k \in 1..Len(l)
    PROVE  l[k] \in Entry /\ l[k].term \in Nat
<1>1. l[k] \in Entry
    BY ElementOfSeq DEF Log
<1> QED BY <1>1 DEF Entry

\* Logs that agree up to an index have the same entries up to it.
LEMMA AgreesFacts ==
    ASSUME NEW l1 \in Log, NEW l2 \in Log, NEW c \in Nat, Agrees(l1, l2, c)
    PROVE  /\ Agrees(l2, l1, c)
           /\ \A d \in Nat : d <= c => Agrees(l1, l2, d)
           /\ \A i, t : i <= c /\ Has(l1, i, t) => Has(l2, i, t)
           /\ \A l3 \in Log : Agrees(l2, l3, c) => Agrees(l1, l3, c)
<1>1. Len(l1) \in Nat /\ Len(l2) \in Nat
    BY LenProperties DEF Log
<1> QED BY <1>1 DEF Agrees, Has

\* A log with one more entry agrees with it.
LEMMA GrownAgrees ==
    ASSUME NEW l \in Log, NEW e \in Entry, NEW c \in Nat, c <= Len(l)
    PROVE  Agrees(l, Append(l, e), c)
<1>1. /\ Len(l) \in Nat /\ Len(Append(l, e)) = Len(l) + 1
      /\ \A k \in 1..Len(l) : Append(l, e)[k] = l[k]
    BY GrownLinks, LenProperties DEF Log
<1> HIDE DEF Log
<1> QED BY <1>1 DEF Agrees

\* Splicing entries into a log that has those up to index c leaves it as it is up
\* to c.
LEMMA SpliceAgrees ==
    ASSUME NEW l \in Log, NEW base \in Nat, base <= Len(l), NEW es \in Log,
           NEW c \in Nat, c <= Len(l),
           \A k \in 1..Len(es) : base + k <= c => l[base + k] = es[k]
    PROVE  Agrees(l, Splice(l, base, es), c)
<1>1. Len(l) \in Nat /\ Len(es) \in Nat /\ base \in 0..Len(l)
    BY LenProperties DEF Log
<1>2. CASE NewEntries(l, base, es) = {}
    BY <1>2 DEF Splice, Agrees
<1>3. CASE NewEntries(l, base, es) # {}
  <2>1. PICK j \in 1..Len(es) : ~Has(l, base + j, es[j].term)
    BY <1>1, <1>3 DEF NewEntries
  <2>2. base + j > c
    BY <1>1, <2>1 DEF Has
  <2> DEFINE s == SubSeq(l, 1, base) \o es
  <2>3. /\ s \in Log /\ Len(s) = base + Len(es)
        /\ \A k \in 1..base : s[k] = l[k]
        /\ \A k \in 1..Len(es) : s[base + k] = es[k]
    BY <1>1, ReplacedTail
  <2>4. Splice(l, base, es) = s
    BY <1>3 DEF Splice
  <2> HIDE DEF s
  <2>5. ASSUME NEW k \in 1..c PROVE l[k] = s[k]
    <3>1. CASE k <= base
      BY <2>3, <3>1
    <3>2. CASE k > base
      <4>1. k - base \in 1..Len(es) /\ k = base + (k - base)
        BY <1>1, <2>1, <2>2, <3>2
      <4>2. l[base + (k - base)] = es[k - base] /\ s[base + (k - base)] = es[k - base]
        BY <2>3, <4>1
      <4> QED BY <4>1, <4>2
    <3> QED BY <3>1, <3>2
  <2> QED BY <1>1, <2>1, <2>2, <2>3, <2>4, <2>5 DEF Agrees
<1> QED BY <1>2, <1>3

\* An entry of a log is one of the entries of the system.
LEMMA HasLink ==
    ASSUME TypeInv, NEW l \in Buildable, NEW i, NEW t, Has(l, i, t)
    PROVE  \E x \in Links : /\ x.index = i /\ x.entry.term = t /\ x.entry = l[i]
                            /\ x.prev = TermAt(l, i - 1) /\ x \in LogLinks(l)
BY LogLinkFields DEF Has, Buildable

\* Logs that have the same entry agree up to it.
LEMMA LogsAgree ==
    RaftInv => \A l1, l2 \in Buildable : \A j, u :
                  Has(l1, j, u) /\ Has(l2, j, u) => Agrees(l1, l2, j)
BY BuildableLogsMatch DEF RaftInv, MatchingInv, Has, Agrees

\* The same after a step.
LEMMA LogsAgreeNext ==
    (RaftInv => \A l1, l2 \in Buildable : \A j, u :
                   Has(l1, j, u) /\ Has(l2, j, u) => Agrees(l1, l2, j))'
BY LogsAgree, PTL

\* Terms never decrease along a log.
LEMMA SortedLog ==
    ASSUME RaftInv, NEW l \in Buildable, NEW i \in 1..Len(l), NEW j \in i..Len(l)
    PROVE  l[i].term <= l[j].term
<1>1. l \in Log /\ Len(l) \in Nat /\ LogLinks(l) \subseteq Links
    BY LenProperties DEF Buildable, Log
<1>2. \A k \in 1..Len(l) : l[k].term \in Nat
    BY <1>1, EntryTerm
<1> DEFINE S == {k \in i..j : l[k].term < l[i].term}
<1> SUFFICES ASSUME S # {} PROVE FALSE
    BY <1>1, <1>2
<1>3. S \subseteq Nat
    BY <1>1
<1>4. PICK k \in S : \A v \in S : k <= v
  <2> HIDE DEF S
  <2> QED BY <1>3, HasMinimum
<1>a. k \in i..j /\ k # i /\ k \in Nat /\ i \in Nat /\ j \in Nat /\ i >= 1 /\ j <= Len(l)
    BY <1>1, <1>2, <1>4
<1>b. PICK p \in Nat : p = k - 1
    BY <1>a
<1>c. p \in i..j /\ p < k /\ p \in 1..Len(l) /\ k \in 1..Len(l)
    BY <1>1, <1>a, <1>b
<1>d. p \notin S
    BY <1>4, <1>a, <1>c
<1>5. k \in 1..Len(l) /\ k - 1 \in 1..Len(l)
    BY <1>b, <1>c
<1>6. l[k - 1].term >= l[i].term
    BY <1>1, <1>2, <1>b, <1>c, <1>d
<1>7. TermAt(l, k - 1) <= l[k].term
    BY <1>1, <1>5, LogLinkFields DEF RaftInv, MatchingInv, LinksAreSorted
<1>8. TermAt(l, k - 1) = l[k - 1].term
    BY <1>1, <1>5 DEF TermAt
<1>9. /\ l[k].term < l[i].term /\ l[k].term \in Nat /\ l[i].term \in Nat
      /\ l[k - 1].term \in Nat
    BY <1>2, <1>4, <1>5
<1> HIDE DEF S
<1> QED BY <1>6, <1>7, <1>8, <1>9

\* The entries of a term start with one that follows an earlier term.
LEMMA TermStart ==
    ASSUME RaftInv, NEW l \in Buildable, NEW i, NEW t, Has(l, i, t)
    PROVE  \E x \in Links : /\ x.index <= i /\ x.index \in 1..Len(l) /\ l[x.index].term = t
                            /\ x.entry.term = t /\ x.prev < t
<1>1. /\ l \in Log /\ Len(l) \in Nat /\ i \in 1..Len(l) /\ LogLinks(l) \subseteq Links
      /\ l[i].term = t
    BY LenProperties DEF Buildable, Log, Has
<1>2. \A k \in 1..Len(l) : l[k].term \in Nat
    BY <1>1, EntryTerm
<1> DEFINE S == {k \in 1..Len(l) : l[k].term = t}
<1>3. S \subseteq Nat /\ i \in S
    BY <1>1
<1>4. PICK k \in S : \A v \in S : k <= v
  <2> HIDE DEF S
  <2> QED BY <1>3, HasMinimum
<1>5. PICK x \in Links : x.index = k /\ x.entry = l[k] /\ x.prev = TermAt(l, k - 1)
    BY <1>1, LogLinkFields
<1>6. x.prev <= t /\ 1 <= t /\ t \in Nat
    BY <1>1, <1>2, <1>5 DEF RaftInv, MatchingInv, LinksAreSorted
<1>7. x.prev # t
  <2>1. k - 1 \notin S
    BY <1>1, <1>4
  <2> QED BY <1>1, <1>5, <1>6, <2>1 DEF TermAt
<1>8. x.prev \in Nat
    BY LinkTypes DEF RaftInv
<1> QED BY <1>1, <1>3, <1>4, <1>5, <1>6, <1>7, <1>8

\* A log with a later entry of a term has all earlier entries of the term.
LEMMA SameTermPrefix ==
    ASSUME RaftInv, NEW l1 \in Buildable, NEW l2 \in Buildable, NEW i, NEW j, NEW t,
           Has(l1, i, t), Has(l2, j, t), i <= j
    PROVE  Has(l2, i, t)
<1>1. /\ l2 \in Log /\ Len(l1) \in Nat /\ Len(l2) \in Nat
      /\ i \in 1..Len(l1) /\ j \in 1..Len(l2) /\ l2[j].term = t
    BY LenProperties DEF Buildable, Log, Has
<1>2. PICK x \in Links : x.index <= i /\ x.entry.term = t /\ x.prev < t
    BY TermStart
<1>3. PICK y \in Links : /\ y.index \in 1..Len(l2) /\ l2[y.index].term = t
                         /\ y.entry.term = t /\ y.prev < t
    BY TermStart
<1>4. x.index = y.index
    BY <1>2, <1>3 DEF RaftInv, MatchingInv, TermsStartOnce
<1>5. i \in 1..Len(l2) /\ y.index \in 1..Len(l2) /\ i \in y.index..Len(l2) /\ j \in i..Len(l2)
    BY <1>1, <1>2, <1>3, <1>4
<1>6. l2[y.index].term <= l2[i].term /\ l2[i].term <= l2[j].term
    BY <1>5, SortedLog
<1>7. l2[i].term \in Nat /\ t \in Nat
    BY <1>1, <1>5, EntryTerm
<1> QED BY <1>1, <1>3, <1>5, <1>6, <1>7 DEF Has

\* The fields of an append.
LEMMA AppendFields ==
    ASSUME TypeInv, NEW m \in Appends
    PROVE  /\ m.body.baseIndex \in Nat /\ m.body.baseTerm \in Nat /\ m.body.entries \in Log
           /\ Len(m.body.entries) \in Nat /\ m.term \in Nat /\ m.from \in Node /\ m.to \in Node
BY BodyFields, LenProperties DEF Appends, TypeInv, TypeOK, Envelope, Log

\* An entry of an append that a log has by index and term is the log's.
LEMMA AppendEntry ==
    ASSUME RaftInv, NEW m \in Appends, NEW l \in Buildable, NEW k \in 1..Len(m.body.entries),
           Has(l, m.body.baseIndex + k, m.body.entries[k].term)
    PROVE  l[m.body.baseIndex + k] = m.body.entries[k]
<1> DEFINE b == m.body
           x == LinkAt(b.baseIndex, b.baseTerm, b.entries, k)
<1>1. x \in Links
    BY LinksOfParts DEF AppendLinks, LinksIn
<1>2. x.index = b.baseIndex + k /\ x.entry = b.entries[k]
    BY DEF LinkAt
<1> HIDE DEF x
<1>3. PICK y \in Links : y.index = b.baseIndex + k /\ y.entry = l[b.baseIndex + k]
                           /\ y.entry.term = b.entries[k].term
    BY HasLink DEF RaftInv
<1> QED BY <1>1, <1>2, <1>3 DEF RaftInv, MatchingInv, LinksAgree

-----------------------------------------------------------------------------
(* What a step of node n does to commit indexes, to what leaders know of    *)
(* their peers, and to the messages about them.                            *)

\* Leader n commits an entry of its term that a quorum has.
CommitsByCounting(n) ==
    /\ IsLeader(n) /\ role'[n].kind = "leader" /\ log'[n] = log[n]
    /\ Has(log[n], commit'[n], term[n])
    /\ \E Q \in SUBSET Node :
          IsQuorum(Q) /\ \A a \in Q \ {n} : role'[n].progress[a].match >= commit'[n]

\* Node n commits what a leader whose log it has tells it to.
CommitsByHeartbeat(n, m) ==
    /\ m.body.type = "Heartbeat" /\ m.term = term'[n] /\ log'[n] = log[n]
    /\ Has(log[n], m.body.lastIndex, m.term) /\ commit'[n] = m.body.commitIndex

\* The match index of p comes from before, or from a response.
Learns(n, p) ==
    \/ role'[n].progress[p].match = 0
    \/ IsLeader(n) /\ role'[n].progress[p].match = role[n].progress[p].match
    \/ /\ IsLeader(n)
       /\ \E m \in Responses : /\ m.from = p /\ m.term = term[n]
                               /\ role'[n].progress[p].match = m.body.matchIndex

\* Node n responds that its log matches the leader's up to an index.
Responds(n, m) ==
    /\ m.from = n /\ m.term = term'[n] /\ role'[n].kind = "follower"
    /\ \/ m.body.matchIndex = 0
       \/ \E r \in msgs :
             Splices(n, r) /\ m.body.matchIndex = r.body.baseIndex + Len(r.body.entries)
       \/ \E r \in msgs :
             /\ r.body.type = "Heartbeat" /\ r.term = term'[n] /\ log'[n] = log[n]
             /\ Has(log[n], r.body.lastIndex, r.term) /\ m.body.matchIndex = r.body.lastIndex

\* What n may send.
Sends(n, m) ==
    /\ m.body.type = "Heartbeat" =>
          /\ role'[n].kind = "leader" /\ m.term = term'[n]
          /\ m.body.lastIndex = Len(log'[n]) /\ m.body.commitIndex = commit[n]
    /\ m.body.type \in {"AppendResponse", "HeartbeatResponse"} => Responds(n, m)
    /\ m.body.type = "Campaign" =>
          /\ m.from = n /\ m.term = term'[n] /\ log'[n] = log[n]
          /\ m.body.lastIndex = Len(log[n]) /\ m.body.lastTerm = LastTerm(log[n])

CommitStep(n) ==
    /\ \A a \in Node \ {n} : commit'[a] = commit[a] /\ applied'[a] = applied[a]
    /\ \/ commit'[n] <= commit[n]
       \/ CommitsByCounting(n)
       \/ \E m \in msgs : CommitsByHeartbeat(n, m)
    /\ applied'[n] <= applied[n] \/ applied'[n] <= commit[n] \/ applied'[n] <= commit'[n]
    /\ role'[n].kind = "leader" => \A p \in Peers(n) : Learns(n, p)
    /\ \A m \in msgs' \ msgs : Sends(n, m)

NodeStep(n) == ElectionStep(n) /\ LogStep(n) /\ CommitStep(n)

-----------------------------------------------------------------------------
(* How such a step changes the entries and logs of the system.             *)

\* Terms and logs are typed; terms grow; the logs of other nodes stay.
LEMMA StepTypes ==
    ASSUME RaftInv, RaftInv', NEW n \in Node, NodeStep(n), NEW a \in Node
    PROVE  /\ term[a] \in Nat /\ term'[a] \in Nat /\ term'[a] >= term[a]
           /\ log[a] \in Log /\ log'[a] \in Log /\ Len(log[a]) \in Nat /\ Len(log'[a]) \in Nat
           /\ log[a] \in Buildable /\ log'[a] \in Buildable'
           /\ commit[a] \in Nat /\ commit'[a] \in Nat /\ applied[a] \in Nat /\ applied'[a] \in Nat
           /\ a # n => /\ term'[a] = term[a] /\ role'[a] = role[a] /\ log'[a] = log[a]
                       /\ commit'[a] = commit[a] /\ applied'[a] = applied[a]
<1>1. /\ term[a] \in Nat /\ term'[a] \in Nat /\ log[a] \in Log /\ log'[a] \in Log
      /\ commit[a] \in Nat /\ commit'[a] \in Nat /\ applied[a] \in Nat /\ applied'[a] \in Nat
    BY DEF RaftInv, TypeInv, TypeOK
<1>2. Len(log[a]) \in Nat /\ Len(log'[a]) \in Nat
    BY <1>1, LenProperties DEF Log
<1>3. log[a] \in Buildable
    BY LogsAreBuildable DEF RaftInv
<1>4. (TypeInv => log[a] \in Buildable)'
    BY LogsAreBuildable, PTL
<1>5. a # n => /\ term'[a] = term[a] /\ role'[a] = role[a] /\ log'[a] = log[a]
               /\ commit'[a] = commit[a] /\ applied'[a] = applied[a]
    BY DEF NodeStep, ElectionStep, LogStep, CommitStep
<1>6. term'[a] >= term[a]
    BY <1>1, <1>5 DEF NodeStep, ElectionStep
<1> QED BY <1>1, <1>2, <1>3, <1>4, <1>5, <1>6 DEF RaftInv

\* The only new log is that of a leader that proposes an entry.
LEMMA BuildableStep ==
    ASSUME RaftInv, RaftInv', NEW n \in Node, NodeStep(n), NEW l \in Buildable'
    PROVE  l \in Buildable \/ (l = log'[n] /\ \E e : Proposes(n, e))
<1>1. /\ Links' \subseteq Links \cup LogLinks(log'[n])
      /\ LogLinks(log'[n]) \subseteq Links \/ \E e : Proposes(n, e)
    BY LinksStep DEF RaftInv, MatchingInv, NodeStep
<1>2. l \in Log /\ LogLinks(l) \subseteq Links' /\ Len(l) \in Nat
    BY LenProperties DEF Buildable, Log
<1> SUFFICES ASSUME NEW e, Proposes(n, e), l \notin Buildable
             PROVE  l = log'[n]
    BY <1>1, <1>2 DEF Buildable
<1>3. PICK z, T, L :
        /\ T = term[n] /\ L = Len(log[n]) + 1
        /\ z = [index |-> L, entry |-> e, prev |-> LastTerm(log[n])]
    OBVIOUS
<1>4. /\ log[n] \in Log /\ log'[n] \in Log /\ e \in Entry /\ e.term = T
      /\ log'[n] = Append(log[n], e) /\ L \in Nat \ {0} /\ log'[n] \in Buildable'
  <2>1. log[n] \in Log /\ log'[n] \in Log /\ Len(log[n]) \in Nat /\ log'[n] \in Buildable'
    BY StepTypes
  <2> QED BY <1>3, <2>1 DEF Proposes
<1>5. LogLinks(log'[n]) = LogLinks(log[n]) \cup {z} /\ Len(log'[n]) = L /\ log'[n][L] = e
  <2>1. LogLinks(log'[n]) = LogLinks(log[n]) \cup {z} /\ Len(log'[n]) = L
    BY <1>3, <1>4, GrownLinks
  <2>2. log'[n][L] = e
    BY <1>3, <1>4, AppendProperties DEF Log
  <2> QED BY <2>1, <2>2
<1>6. Links' \subseteq Links \cup {z}
    BY <1>1, <1>5, LinksOfParts
<1>7. z \in LogLinks(l)
    BY <1>2, <1>6 DEF Buildable
<1>8. L \in 1..Len(l) /\ l[L].term = T
    BY <1>2, <1>3, <1>4, <1>7, LogLinkIndex
<1>9. Agrees(l, log'[n], L)
  <2>1. Has(l, L, T) /\ Has(log'[n], L, T)
    BY <1>4, <1>5, <1>8 DEF Has
  <2> QED BY <1>4, <2>1, LogsAgreeNext
<1>10. Len(l) = L
  <2> SUFFICES ASSUME Len(l) # L PROVE FALSE
    OBVIOUS
  <2>1. L + 1 \in 1..Len(l) /\ (L + 1) - 1 = L
    BY <1>2, <1>4, <1>8
  <2>2. PICK x \in LogLinks(l) : x.index = L + 1 /\ x.prev = TermAt(l, L)
    BY <1>2, <2>1, LogLinkFields
  <2>3. x.prev = T
    BY <1>8, <2>2 DEF TermAt
  <2>4. x \in Links
    BY <1>2, <1>3, <1>4, <1>6, <2>2
  <2>5. \A y \in Links : y.prev = term[n] => y.index <= Len(log[n]) + 1
    BY ProposalIsNew DEF RaftInv, NodeStep
  <2> QED BY <1>3, <1>4, <2>2, <2>3, <2>4, <2>5
<1>11. Len(l) = Len(log'[n]) /\ \A k \in 1..Len(l) : l[k] = log'[n][k]
    BY <1>5, <1>9, <1>10 DEF Agrees
<1> QED BY <1>2, <1>4, <1>11, SeqEqual DEF Log

\* An entry that exists is in the grown log of a leader only if it was before.
LEMMA OldEntry ==
    ASSUME RaftInv, RaftInv', NEW n \in Node, NodeStep(n), NEW e, Proposes(n, e),
           NEW x \in Links, Has(log'[n], x.index, x.entry.term)
    PROVE  Has(log[n], x.index, x.entry.term)
<1>1. /\ log[n] \in Log /\ Len(log[n]) \in Nat /\ e \in Entry /\ e.term = term[n]
      /\ log'[n] = Append(log[n], e)
    BY StepTypes DEF Proposes
<1>2. /\ Len(log'[n]) = Len(log[n]) + 1 /\ \A k \in 1..Len(log[n]) : log'[n][k] = log[n][k]
    BY <1>1, GrownLinks
<1>3. log'[n][Len(log[n]) + 1] = e
    BY <1>1, AppendProperties DEF Log
<1>4. x.entry.term = term[n] => x.index <= Len(log[n])
    BY ProposalIsNew DEF RaftInv, NodeStep
<1>5. x.index \in 1..Len(log[n])
    BY <1>1, <1>2, <1>3, <1>4 DEF Has
<1> QED BY <1>2, <1>5 DEF Has

\* A leader of a term that somebody had been elected in before the step was its
\* leader already.
LEMMA OldLeader ==
    ASSUME RaftInv, RaftInv', NEW n \in Node, NodeStep(n), NEW l \in Node, IsLeader(l)',
           Owned(term'[l])
    PROVE  /\ IsLeader(l) /\ term'[l] = term[l]
           /\ log'[l] = log[l] \/ (l = n /\ \E e : Proposes(n, e))
           /\ l # n => role'[l] = role[l]
<1>1. /\ term'[l] = term[l]
      /\ l # n => IsLeader(l) /\ log'[l] = log[l] /\ role'[l] = role[l]
      /\ l = n => (IsLeader(l) /\ log'[l] = log[l]) \/ \E e : Proposes(n, e)
    BY LeadersStep DEF RaftInv, NodeStep
<1>2. ASSUME NEW e, Proposes(n, e), l = n PROVE IsLeader(l)
    BY <1>1, <1>2, ProposalIsNew DEF RaftInv, NodeStep
<1> QED BY <1>1, <1>2

\* A leader has the entries of its term.
LEMMA LeaderHas ==
    RaftInv => \A l \in Node, x \in Links :
                  IsLeader(l) /\ x.entry.term = term[l] => Has(log[l], x.index, x.entry.term)
<1> SUFFICES ASSUME RaftInv, NEW l \in Node, NEW x \in Links, IsLeader(l),
                    x.entry.term = term[l]
             PROVE  Has(log[l], x.index, x.entry.term)
    OBVIOUS
<1>1. x \in LogLinks(log[l]) /\ log[l] \in Log
    BY DEF RaftInv, MatchingInv, LeaderHasLinks, TypeInv, TypeOK
<1> QED BY <1>1, LogLinkIndex DEF Has

\* A log into which a part of another has been spliced agrees with it up to the
\* end of that part.
LEMMA SpliceOfSlice ==
    ASSUME NEW l \in Log, NEW k \in Log, NEW base \in Nat, NEW es \in Log,
           base + Len(es) <= Len(k), \A j \in 1..Len(es) : es[j] = k[base + j],
           Agrees(l, k, base), NewEntries(l, base, es) = {} => Agrees(l, k, base + Len(es))
    PROVE  Agrees(Splice(l, base, es), k, base + Len(es))
<1>1. Len(l) \in Nat /\ Len(k) \in Nat /\ Len(es) \in Nat /\ base \in 0..Len(l)
    BY LenProperties DEF Log, Agrees
<1>2. CASE NewEntries(l, base, es) # {}
  <2>1. PICK s : s = SubSeq(l, 1, base) \o es
    OBVIOUS
  <2>2. /\ s \in Log /\ Len(s) = base + Len(es)
        /\ \A j \in 1..base : s[j] = l[j]
        /\ \A j \in 1..Len(es) : s[base + j] = es[j]
    BY <1>1, <2>1, ReplacedTail
  <2>3. ASSUME NEW j \in 1..base + Len(es) PROVE s[j] = k[j]
    <3>1. CASE j <= base
      BY <1>1, <2>2, <3>1 DEF Agrees
    <3>2. CASE j > base
      <4>1. j - base \in 1..Len(es) /\ j = base + (j - base)
        BY <1>1, <3>2
      <4>2. s[base + (j - base)] = k[base + (j - base)]
        BY <2>2, <4>1
      <4> QED BY <4>1, <4>2
    <3> QED BY <1>1, <3>1, <3>2
  <2> QED BY <1>1, <1>2, <2>1, <2>2, <2>3 DEF Agrees, Splice
<1> QED BY <1>2 DEF Splice

\* A node that responds to the leader of its term has the leader's log up to the
\* index it responds with.
LEMMA RespondsTruly ==
    ASSUME RaftInv, RaftInv', MessagesAreTrue, NEW n \in Node, NodeStep(n), NEW m,
           Responds(n, m), m.body.matchIndex \in Nat,
           NEW l \in Node, IsLeader(l), term[l] = m.term
    PROVE  Agrees(log'[n], log[l], m.body.matchIndex)
<1>1. /\ log[n] \in Log /\ log'[n] \in Log /\ log[l] \in Log /\ log[n] \in Buildable
      /\ log[l] \in Buildable /\ Len(log[l]) \in Nat /\ Len(log'[n]) \in Nat
    BY StepTypes
<1>2. CASE m.body.matchIndex = 0
    BY <1>1, <1>2 DEF Agrees
<1>3. ASSUME NEW r \in msgs, Splices(n, r),
             m.body.matchIndex = r.body.baseIndex + Len(r.body.entries)
      PROVE  Agrees(log'[n], log[l], m.body.matchIndex)
  <2>0. PICK base, es : base = r.body.baseIndex /\ es = r.body.entries
    OBVIOUS
  <2>1. r \in Appends /\ r.term = term[l]
    BY <1>3 DEF Splices, Responds
  <2>2. base \in Nat /\ es \in Log /\ Len(es) \in Nat
    BY <2>0, <2>1, AppendFields DEF RaftInv
  <2>3. /\ base + Len(es) <= Len(log[l]) /\ r.body.baseTerm = TermAt(log[l], base)
        /\ \A k \in 1..Len(es) : es[k] = log[l][base + k]
    BY <2>0, <2>1 DEF RaftInv, MatchingInv, AppendsAreSlices, IsSlice
  <2>4. Agrees(log[n], log[l], base)
    <3>1. CASE base = 0
      BY <1>1, <3>1, LenProperties DEF Agrees, Log
    <3>2. CASE base # 0
      <4>1. Has(log[n], base, r.body.baseTerm) /\ Has(log[l], base, r.body.baseTerm)
        BY <1>1, <1>3, <2>0, <2>2, <2>3, <3>2 DEF Splices, HasBase, Has, TermAt
      <4> QED BY <1>1, <4>1, LogsAgree
    <3> QED BY <3>1, <3>2
  <2>5. ASSUME NewEntries(log[n], base, es) = {}
        PROVE  Agrees(log[n], log[l], base + Len(es))
    <3>1. CASE Len(es) = 0
      BY <2>2, <2>4, <3>1
    <3>2. CASE Len(es) # 0
      <4>1. Len(es) \in 1..Len(es)
        BY <2>2, <3>2
      <4>2. Has(log[n], base + Len(es), es[Len(es)].term)
        BY <2>2, <2>5, <4>1 DEF NewEntries
      <4>3. Has(log[l], base + Len(es), es[Len(es)].term)
        <5>1. base + Len(es) \in 1..Len(log[l]) /\ es[Len(es)] = log[l][base + Len(es)]
          BY <1>1, <2>2, <2>3, <4>1
        <5> QED BY <5>1 DEF Has
      <4> QED BY <1>1, <4>2, <4>3, LogsAgree
    <3> QED BY <3>1, <3>2
  <2>6. log'[n] = Splice(log[n], base, es)
    BY <1>3, <2>0 DEF Splices
  <2>7. Agrees(Splice(log[n], base, es), log[l], base + Len(es))
    BY <1>1, <2>2, <2>3, <2>4, <2>5, SpliceOfSlice
  <2> QED BY <1>3, <2>0, <2>6, <2>7
<1>4. ASSUME NEW r \in msgs, r.body.type = "Heartbeat", r.term = term'[n], log'[n] = log[n],
             Has(log[n], r.body.lastIndex, r.term), m.body.matchIndex = r.body.lastIndex
      PROVE  Agrees(log'[n], log[l], m.body.matchIndex)
  <2>1. r.term = term[l]
    BY <1>4 DEF Responds
  <2>2. Has(log[l], r.body.lastIndex, r.term)
    BY <1>4, <2>1 DEF MessagesAreTrue
  <2> QED BY <1>1, <1>4, <2>2, LogsAgree
<1> QED BY <1>2, <1>3, <1>4 DEF Responds

\* The index that a response carries is a number.
LEMMA ResponseFields ==
    TypeInv => \A r \in Responses :
                  r.body.matchIndex \in Nat /\ r.term \in Nat /\ r.from \in Node /\ r.to \in Node
BY BodyFields DEF Responses, TypeInv, TypeOK, Envelope

\* Nobody newly acknowledges an entry, except a node of its term that has it.
LEMMA AcksStep ==
    ASSUME RaftInv, RaftInv', MessagesAreTrue, NEW n \in Node, NodeStep(n),
           NEW x \in Links, NEW a \in Node, Acks(a, x.index, x.entry.term)'
    PROVE  \/ Acks(a, x.index, x.entry.term)
           \/ a = n /\ term'[n] = x.entry.term /\ Has(log'[n], x.index, x.entry.term)
<1>1. PICK i, t : i = x.index /\ t = x.entry.term
    OBVIOUS
<1>2. i \in Nat \ {0} /\ t \in Nat /\ Owned(t)
    BY <1>1, LinkTypes DEF RaftInv, MatchingInv, TermsAreOwned
<1>3. (TypeInv => \A r \in Responses :
         r.body.matchIndex \in Nat /\ r.term \in Nat /\ r.from \in Node /\ r.to \in Node)'
    BY ResponseFields, PTL
<1>4. CASE term'[a] = t /\ Has(log'[a], i, t)
  <2>1. CASE a = n
    BY <1>1, <1>4, <2>1
  <2>2. CASE a # n
    BY <1>1, <1>4, <2>2, StepTypes DEF Acks
  <2> QED BY <2>1, <2>2
<1>5. ASSUME NEW l \in Node, IsLeader(l)', term'[l] = t, Has(log'[l], i, t),
             Acknowledged(a, i, l)'
      PROVE  \/ Acks(a, i, t)
             \/ a = n /\ term'[n] = t /\ Has(log'[n], i, t)
  <2>1. IsLeader(l) /\ term[l] = t /\ (l # n => role'[l] = role[l])
    BY <1>2, <1>5, OldLeader
  <2>2. Has(log[l], i, t)
    BY <1>1, <2>1, LeaderHas
  <2>3. CASE a # l /\ role'[l].progress[a].match >= i
    <3>1. CASE l # n
      BY <2>1, <2>2, <2>3, <3>1 DEF Acks, Acknowledged
    <3>2. CASE l = n
      <4>1. Learns(n, a)
        BY <1>5, <2>3, <3>2 DEF NodeStep, CommitStep, IsLeader, Peers
      <4>2. CASE role'[n].progress[a].match = 0
        BY <1>2, <2>3, <3>2, <4>2
      <4>3. CASE role'[n].progress[a].match = role[n].progress[a].match
        BY <2>1, <2>2, <2>3, <3>2, <4>3 DEF Acks, Acknowledged
      <4>4. CASE \E m \in Responses : /\ m.from = a /\ m.term = term[n]
                                      /\ role'[n].progress[a].match = m.body.matchIndex
        BY <2>1, <2>2, <2>3, <3>2, <4>4 DEF Acks, Acknowledged
      <4> QED BY <4>1, <4>2, <4>3, <4>4 DEF Learns
    <3> QED BY <3>1, <3>2
  <2>4. ASSUME NEW m \in Responses', m.from = a, m.term = t, m.body.matchIndex >= i
        PROVE  \/ Acks(a, i, t)
               \/ a = n /\ term'[n] = t /\ Has(log'[n], i, t)
    <3>1. CASE m \in msgs
      BY <2>1, <2>2, <2>4, <3>1 DEF Acks, Acknowledged, Responses
    <3>2. CASE m \notin msgs
      <4>1. Responds(n, m)
        BY <3>2 DEF NodeStep, CommitStep, Sends, Responses
      <4>2. m.body.matchIndex \in Nat
        BY <1>3 DEF RaftInv
      <4>3. Agrees(log'[n], log[l], m.body.matchIndex)
        BY <2>1, <2>4, <4>1, <4>2, RespondsTruly
      <4>4. log'[n] \in Log /\ log[l] \in Log
        BY StepTypes
      <4>5. Has(log'[n], i, t)
        BY <1>2, <2>2, <2>4, <4>2, <4>3, <4>4, AgreesFacts
      <4> QED BY <2>4, <4>1, <4>5 DEF Responds
    <3> QED BY <3>1, <3>2
  <2> QED BY <1>5, <2>3, <2>4 DEF Acknowledged
<1> QED BY <1>1, <1>4, <1>5 DEF Acks

-----------------------------------------------------------------------------
(* Such a step keeps abandoned entries abandoned and safe entries safe.    *)

\* A quorum that has moved on without an entry never acknowledges it.
LEMMA AbandonedStep ==
    ASSUME RaftInv, RaftInv', MessagesAreTrue, NEW n \in Node, NodeStep(n),
           NEW x \in Links, Abandoned(x.index, x.entry.term)
    PROVE  Abandoned(x.index, x.entry.term)'
<1>1. PICK i, t : i = x.index /\ t = x.entry.term
    OBVIOUS
<1>2. PICK Q \in SUBSET Node : IsQuorum(Q) /\ \A b \in Q : term[b] > t /\ ~Acks(b, i, t)
    BY <1>1 DEF Abandoned
<1>3. t \in Nat
    BY <1>1, LinkTypes DEF RaftInv
<1>4. ASSUME NEW b \in Q PROVE term'[b] > t /\ ~Acks(b, i, t)'
  <2>1. b \in Node /\ term[b] > t /\ ~Acks(b, i, t)
    BY <1>2
  <2>2. term'[b] > t
    BY <1>3, <2>1, StepTypes
  <2> QED BY <1>1, <1>3, <2>1, <2>2, AcksStep
<1>5. IsQuorum(Q)'
    BY <1>2 DEF IsQuorum
<1>6. Abandoned(i, t)'
    BY <1>4, <1>5 DEF Abandoned
<1> QED BY <1>1, <1>6

\* A node keeps the entries up to c when it splices an append that has nothing
\* else up to c.
LEMMA SpliceKeeps ==
    ASSUME RaftInv, RaftInv', NEW n \in Node, NodeStep(n), NEW m \in msgs, Splices(n, m),
           NEW c \in Nat, c <= Len(log[n]),
           \A k \in 1..Len(m.body.entries) : m.body.baseIndex + k <= c =>
              Has(log[n], m.body.baseIndex + k, m.body.entries[k].term)
    PROVE  Agrees(log[n], log'[n], c)
<1>1. m \in Appends /\ HasBase(log[n], m.body.baseIndex, m.body.baseTerm)
        /\ log'[n] = Splice(log[n], m.body.baseIndex, m.body.entries)
    BY DEF Splices
<1>2. m.body.baseIndex \in Nat /\ m.body.entries \in Log
    BY <1>1, AppendFields DEF RaftInv
<1>3. log[n] \in Log /\ log[n] \in Buildable /\ Len(log[n]) \in Nat
    BY StepTypes
<1>4. m.body.baseIndex <= Len(log[n])
    BY <1>1, <1>2, <1>3 DEF HasBase, Has
<1>5. \A k \in 1..Len(m.body.entries) : m.body.baseIndex + k <= c =>
         log[n][m.body.baseIndex + k] = m.body.entries[k]
    BY <1>1, <1>3, AppendEntry
<1> QED BY <1>1, <1>2, <1>3, <1>4, <1>5, SpliceAgrees

\* A node that has moved to the term of a protected entry or past it keeps it.
LEMMA ProtectedEntryKept ==
    ASSUME RaftInv, RaftInv', NEW n \in Node, NodeStep(n), NEW i \in Nat, NEW t \in Nat,
           Protected(i, t), term[n] >= t, Has(log[n], i, t)
    PROVE  Has(log'[n], i, t)
<1>1. /\ log[n] \in Log /\ log'[n] \in Log /\ log[n] \in Buildable /\ Len(log[n]) \in Nat
      /\ term[n] \in Nat /\ term'[n] \in Nat /\ term'[n] >= term[n]
    BY StepTypes
<1>2. i <= Len(log[n])
    BY <1>1 DEF Has
<1>3. CASE log'[n] = log[n]
    BY <1>3
<1>4. ASSUME NEW e, Proposes(n, e) PROVE Has(log'[n], i, t)
  <2>1. Agrees(log[n], log'[n], i)
    BY <1>1, <1>2, <1>4, GrownAgrees DEF Proposes
  <2> QED BY <1>1, <2>1, AgreesFacts
<1>5. ASSUME NEW m \in msgs, Splices(n, m) PROVE Has(log'[n], i, t)
  <2>1. m \in Appends /\ m.term >= t
    BY <1>1, <1>5 DEF Splices
  <2>2. \A k \in 1..Len(m.body.entries) : m.body.baseIndex + k <= i =>
           Has(log[n], m.body.baseIndex + k, m.body.entries[k].term)
    BY <1>1, <2>1 DEF Protected
  <2>3. Agrees(log[n], log'[n], i)
    BY <1>2, <1>5, <2>2, SpliceKeeps
  <2> QED BY <1>1, <2>3, AgreesFacts
<1> QED BY <1>3, <1>4, <1>5 DEF NodeStep, LogStep

\* A candidate whose log is at least as complete as one with a protected entry
\* has the entry too.
LEMMA CompleteLogHas ==
    ASSUME RaftInv, NEW i \in Nat, NEW t \in Nat, Protected(i, t),
           NEW l \in Buildable, NEW k \in Buildable, Has(l, i, t),
           \/ LastTerm(l) < LastTerm(k)
           \/ LastTerm(l) = LastTerm(k) /\ Len(l) <= Len(k)
    PROVE  Has(k, i, t)
<1>1. l \in Log /\ k \in Log /\ Len(l) \in Nat /\ Len(k) \in Nat /\ i \in 1..Len(l) /\ l[i].term = t
    BY LenProperties DEF Buildable, Log, Has
<1>2. LastTerm(l) = l[Len(l)].term /\ LastTerm(l) \in Nat /\ LastTerm(k) \in Nat
    BY <1>1, TermAtType DEF LastTerm, TermAt
<1>3. t <= LastTerm(l)
    BY <1>1, <1>2, SortedLog
<1>4. CASE LastTerm(k) > t
  <2>1. Len(k) \in 1..Len(k) /\ k[Len(k)].term > t
    BY <1>1, <1>4 DEF LastTerm, TermAt
  <2> QED BY <2>1 DEF Protected
<1>5. CASE LastTerm(k) = t /\ Len(l) <= Len(k)
  <2>1. Has(k, Len(k), t) /\ i <= Len(k)
    BY <1>1, <1>5 DEF Has, LastTerm, TermAt
  <2> QED BY <2>1, SameTermPrefix
<1> QED BY <1>1, <1>2, <1>3, <1>4, <1>5

\* Nodes that hold a protected entry still hold it after the step.
LEMMA HeldStep ==
    ASSUME RaftInv, RaftInv', MessagesAreTrue, NEW n \in Node, NodeStep(n),
           NEW i \in Nat, NEW t \in Nat, Protected(i, t),
           NEW S \in SUBSET Node, Held(i, t, S)
    PROVE  Held(i, t, S)'
<1> SUFFICES ASSUME NEW a \in S
             PROVE  /\ term'[a] >= t /\ Has(log'[a], i, t)
                    /\ \A p \in Node : role'[p].kind = "candidate" /\ term'[p] > t
                                         /\ Supports(a, p, term[p])' => Has(log'[p], i, t)
    BY DEF Held
<1>1. a \in Node /\ term[a] >= t /\ Has(log[a], i, t)
    BY DEF Held
<1>2. term'[a] >= t
    BY <1>1, StepTypes
<1>3. Has(log'[a], i, t)
  <2>1. CASE a = n
    BY <1>1, <2>1, ProtectedEntryKept
  <2>2. CASE a # n
    BY <1>1, <2>2, StepTypes
  <2> QED BY <2>1, <2>2
<1>4. ASSUME NEW p \in Node, role'[p].kind = "candidate", term'[p] > t,
             Supports(a, p, term[p])'
      PROVE  Has(log'[p], i, t)
  <2>1. PICK u : u = term'[p]
    OBVIOUS
  <2>2. u \in Nat /\ Supports(a, p, u)' /\ u > t /\ term[p] \in Nat
    BY <1>4, <2>1, StepTypes DEF Supports, Granted, Counted
  <2>3. log'[p] = log[p]
    BY <1>4, StepTypes DEF NodeStep, LogStep, Proposes, Splices
  <2>4. CASE Supports(a, p, u)
    <3>1. u <= term[p]
      BY <2>2, <2>4 DEF Supports, Granted, Counted, MessagesAreTrue
    <3>2. term[p] = u /\ role[p].kind = "candidate"
      BY <1>4, <2>1, <2>2, <3>1, StepTypes DEF NodeStep, LogStep
    <3> QED BY <2>2, <2>3, <2>4, <3>2 DEF Held
  <2>5. CASE a = n /\ u = term'[n] /\ Hears(n, p)
    <3>1. CASE p = n
      BY <1>3, <2>5, <3>1
    <3>2. ASSUME NEW m \in msgs, m.body.type = "Campaign", m.from = p, m.term = term'[n], p # n,
                 \/ LastTerm(log[n]) < m.body.lastTerm
                 \/ LastTerm(log[n]) = m.body.lastTerm /\ Len(log[n]) <= m.body.lastIndex
          PROVE  Has(log[p], i, t)
      <4>1. role[p].kind = "candidate" /\ term[p] = m.term
        BY <1>4, <2>1, <2>5, <3>2, StepTypes
      <4>2. m.body.lastIndex = Len(log[p]) /\ m.body.lastTerm = LastTerm(log[p])
        BY <3>2, <4>1 DEF MessagesAreTrue
      <4>3. log[n] \in Buildable /\ log[p] \in Buildable
        BY StepTypes
      <4> QED BY <1>1, <2>5, <3>2, <4>2, <4>3, CompleteLogHas
    <3> QED BY <2>3, <2>5, <3>1, <3>2 DEF Hears
  <2> QED BY <1>1, <2>2, <2>4, <2>5 DEF NodeStep, ElectionStep
<1> QED BY <1>2, <1>3, <1>4

\* A leader's log only grows.
LEMMA LeaderLogGrows ==
    ASSUME RaftInv, RaftInv', NEW n \in Node, NodeStep(n), NEW l \in Node, IsLeader(l)', IsLeader(l)
    PROVE  Agrees(log[l], log'[l], Len(log[l]))
<1>1. log[l] \in Log /\ Len(log[l]) \in Nat
    BY StepTypes
<1>2. log'[l] = log[l] \/ (l = n /\ \E e : Proposes(n, e))
    BY LeadersStep DEF RaftInv, NodeStep
<1>3. CASE log'[l] = log[l]
    BY <1>1, <1>3 DEF Agrees
<1>4. ASSUME NEW e, l = n, Proposes(n, e) PROVE Agrees(log[l], log'[l], Len(log[l]))
    BY <1>1, <1>4, GrownAgrees DEF Proposes
<1> QED BY <1>2, <1>3, <1>4

\* A log that agrees with another up to i has the entries that a part of the other
\* carries up to i.
LEMMA SliceHas ==
    ASSUME NEW l \in Log, NEW k \in Log, NEW i \in Nat, Agrees(k, l, i),
           NEW b, b.baseIndex \in Nat, b.entries \in Log, IsSlice(b, k),
           NEW j \in 1..Len(b.entries), b.baseIndex + j <= i
    PROVE  Has(l, b.baseIndex + j, b.entries[j].term)
<1>1. Len(l) \in Nat /\ Len(b.entries) \in Nat
    BY LenProperties DEF Log
<1>2. b.baseIndex + j \in 1..i /\ b.entries[j] = k[b.baseIndex + j]
    BY <1>1 DEF IsSlice
<1>3. l[b.baseIndex + j] = b.entries[j] /\ b.baseIndex + j \in 1..Len(l)
    BY <1>1, <1>2 DEF Agrees
<1> QED BY <1>3 DEF Has

\* An entry stays protected, if a node that becomes a leader of a later term has it.
LEMMA ProtectedStep ==
    ASSUME RaftInv, RaftInv', NEW n \in Node, NodeStep(n), NEW x \in Links,
           Protected(x.index, x.entry.term),
           role'[n].kind = "leader" /\ ~IsLeader(n) /\ term[n] > x.entry.term =>
              Has(log[n], x.index, x.entry.term)
    PROVE  Protected(x.index, x.entry.term)'
<1>1. PICK i, t : i = x.index /\ t = x.entry.term
    OBVIOUS
<1>2. i \in Nat \ {0} /\ t \in Nat
    BY <1>1, LinkTypes DEF RaftInv
<1>3. /\ log[n] \in Log /\ log'[n] \in Log /\ log[n] \in Buildable /\ log'[n] \in Buildable'
      /\ Len(log[n]) \in Nat /\ Len(log'[n]) \in Nat /\ term[n] \in Nat
    BY StepTypes
<1>4. ASSUME NEW e, Proposes(n, e), NEW k \in 1..Len(log'[n]), log'[n][k].term > t
      PROVE  Has(log'[n], i, t)
  <2>1. /\ Len(log'[n]) = Len(log[n]) + 1 /\ Agrees(log[n], log'[n], Len(log[n]))
        /\ e \in Entry /\ e.term = term[n]
    BY <1>3, <1>4, GrownLinks, GrownAgrees DEF Proposes
  <2>2. log'[n][Len(log[n]) + 1] = e
    BY <1>3, <1>4, AppendProperties DEF Proposes, Log
  <2>3. Has(log[n], i, t)
    <3>1. CASE k <= Len(log[n])
      <4>1. k \in 1..Len(log[n]) /\ log[n][k].term > t
        BY <1>3, <1>4, <2>1, <3>1 DEF Agrees
      <4> QED BY <1>1, <1>3, <4>1 DEF Protected
    <3>2. CASE k > Len(log[n])
      <4>1. term[n] > t
        BY <1>3, <1>4, <2>1, <2>2, <3>2
      <4>2. CASE IsLeader(n)
        <5>1. Len(log[n]) \in 1..Len(log[n]) /\ log[n][Len(log[n])].term > t
          BY <1>2, <1>3, <4>1, <4>2 DEF RaftInv, MatchingInv, LeaderState, LastTerm, TermAt
        <5> QED BY <1>1, <1>3, <5>1 DEF Protected
      <4>3. CASE ~IsLeader(n)
        BY <1>1, <1>4, <4>1, <4>3 DEF Proposes
      <4> QED BY <4>2, <4>3
    <3> QED BY <1>3, <3>1, <3>2
  <2>4. i <= Len(log[n])
    BY <2>3 DEF Has
  <2> QED BY <1>2, <1>3, <2>1, <2>3, <2>4, AgreesFacts
<1>5. ASSUME NEW l \in Buildable', NEW k \in 1..Len(l), l[k].term > t
      PROVE  Has(l, i, t)
  <2>1. CASE l \in Buildable
    BY <1>1, <1>5, <2>1 DEF Protected
  <2>2. CASE l = log'[n] /\ \E e : Proposes(n, e)
    BY <1>4, <1>5, <2>2
  <2> QED BY <2>1, <2>2, BuildableStep
<1>6. ASSUME NEW m \in Appends', NEW l \in Buildable', m.term >= t, Has(l, i, t),
             NEW k \in 1..Len(m.body.entries), m.body.baseIndex + k <= i
      PROVE  Has(l, m.body.baseIndex + k, m.body.entries[k].term)
  <2>1. CASE m \in msgs
    <3>1. m \in Appends
      BY <2>1 DEF Appends
    <3>2. CASE l \in Buildable
      BY <1>1, <1>6, <3>1, <3>2 DEF Protected
    <3>3. ASSUME NEW e, Proposes(n, e), l = log'[n]
          PROVE  Has(l, m.body.baseIndex + k, m.body.entries[k].term)
      <4>1. Has(log[n], i, t)
        BY <1>1, <1>6, <3>3, OldEntry
      <4>2. Has(log[n], m.body.baseIndex + k, m.body.entries[k].term)
        BY <1>1, <1>3, <1>6, <3>1, <4>1 DEF Protected
      <4>3. i <= Len(log[n]) /\ m.body.baseIndex + k \in Nat
        BY <4>1, <4>2 DEF Has
      <4>4. Agrees(log[n], log'[n], i)
        BY <1>2, <1>3, <3>3, <4>3, GrownAgrees DEF Proposes
      <4> QED BY <1>2, <1>3, <1>6, <3>3, <4>2, <4>3, <4>4, AgreesFacts
    <3> QED BY <3>2, <3>3, BuildableStep
  <2>2. CASE m \notin msgs
    <3>1. role'[n].kind = "leader" /\ m.term = term'[n] /\ IsSlice(m.body, log'[n])
      BY <2>2 DEF NodeStep, LogStep, Appends, LeaderTypes
    <3>2. term'[n] = term[n] /\ IsLeader(n)' /\ LastTerm(log'[n]) = term'[n]
      BY <3>1 DEF NodeStep, ElectionStep, IsLeader, RaftInv, MatchingInv, LeaderState
    <3>3. Has(log'[n], i, t)
      <4>1. CASE term[n] = t
        <5>1. Owned(t)
          BY <1>1 DEF RaftInv, MatchingInv, TermsAreOwned
        <5>2. IsLeader(n)
          BY <3>2, <4>1, <5>1, OldLeader
        <5>3. Has(log[n], i, t)
          BY <1>1, <4>1, <5>2, LeaderHas
        <5>4. i <= Len(log[n])
          BY <5>3 DEF Has
        <5>5. Agrees(log[n], log'[n], Len(log[n]))
          BY <3>2, <5>2, LeaderLogGrows
        <5> QED BY <1>2, <1>3, <5>3, <5>4, <5>5, AgreesFacts
      <4>2. CASE term[n] > t
        <5>1. Len(log'[n]) \in 1..Len(log'[n]) /\ log'[n][Len(log'[n])].term > t
          BY <1>2, <1>3, <3>2, <4>2 DEF LastTerm, TermAt
        <5> QED BY <1>3, <1>5, <5>1
      <4> QED BY <1>2, <1>3, <1>6, <3>1, <3>2, <4>1, <4>2
    <3>4. Agrees(log'[n], l, i)
      BY <1>3, <1>6, <3>3, LogsAgreeNext
    <3>5. m.body.baseIndex \in Nat /\ m.body.entries \in Log
      BY BodyFields DEF Appends, RaftInv, TypeInv, TypeOK, Envelope
    <3>6. l \in Log
      BY DEF Buildable
    <3> QED BY <1>2, <1>3, <1>6, <3>1, <3>4, <3>5, <3>6, SliceHas
  <2> QED BY <2>1, <2>2
<1>7. Protected(i, t)'
    BY <1>5, <1>6 DEF Protected
<1> QED BY <1>1, <1>7

\* A node that is still in the term of an entry has supported no candidate of a
\* later term.
LEMMA OwnTermHeld ==
    RaftInv => \A a \in Node : \A j : Has(log[a], j, term[a]) => Held(j, term[a], {a})
<1> SUFFICES ASSUME RaftInv, NEW a \in Node, NEW j, Has(log[a], j, term[a]), NEW p \in Node,
                    term[p] > term[a], Supports(a, p, term[p])
             PROVE  FALSE
    BY DEF Held, RaftInv, TypeInv, TypeOK
<1>1. term[a] \in Nat /\ term[p] \in Nat
    BY DEF RaftInv, TypeInv, TypeOK
<1>2. VotedFor(a, p, term[p])
    BY <1>1 DEF RaftInv, ElectionInv, SupportInv, Backs
<1> QED BY <1>1, <1>2 DEF VotedFor

\* The same after a step.
LEMMA OwnTermHeldNext ==
    (RaftInv => \A a \in Node : \A j : Has(log[a], j, term[a]) => Held(j, term[a], {a}))'
BY OwnTermHeld, PTL

\* The set of the nodes that acknowledge an entry.
Ackers(i, t) == {a \in Node : Acks(a, i, t)}

\* A candidate that a quorum supports has an entry of an earlier term that is not
\* abandoned.
LEMMA ElectedHas ==
    ASSUME RaftInv, NEW n \in Node, role[n].kind = "candidate", NEW i \in Nat, NEW t \in Nat,
           term[n] > t, ~Abandoned(i, t), Held(i, t, Ackers(i, t)),
           NEW Q \in SUBSET Node, IsQuorum(Q), \A a \in Q : Supports(a, n, term[n])
    PROVE  Has(log[n], i, t)
<1>1. CASE \E a \in Q : Acks(a, i, t)
    BY <1>1 DEF Held, Ackers
<1>2. CASE \A a \in Q : ~Acks(a, i, t)
  <2>1. term[n] \in Nat /\ \A a \in Q : term[a] \in Nat
    BY DEF RaftInv, TypeInv, TypeOK
  <2>2. \A a \in Q : VotedFor(a, n, term[n])
    BY <2>1 DEF RaftInv, ElectionInv, SupportInv, Backs
  <2>3. \A a \in Q : term[a] > t
    BY <2>1, <2>2 DEF VotedFor
  <2> QED BY <1>2, <2>3 DEF Abandoned
<1> QED BY <1>1, <1>2

\* An entry that exists stays abandoned or safe.
LEMMA OldEntryStep ==
    ASSUME RaftInv, RaftInv', EntriesAreSafe, MessagesAreTrue, NEW n \in Node, NodeStep(n),
           NEW x \in Links
    PROVE  \/ Abandoned(x.index, x.entry.term)'
           \/ /\ Protected(x.index, x.entry.term)'
              /\ Held(x.index, x.entry.term, Ackers(x.index, x.entry.term))'
<1>1. PICK i, t : i = x.index /\ t = x.entry.term
    OBVIOUS
<1>2. i \in Nat \ {0} /\ t \in Nat
    BY <1>1, LinkTypes DEF RaftInv
<1>3. CASE Abandoned(i, t)
    BY <1>1, <1>3, AbandonedStep
<1>4. CASE ~Abandoned(i, t)
  <2>1. Protected(i, t) /\ Held(i, t, Ackers(i, t))
    BY <1>1, <1>4 DEF EntriesAreSafe, Ackers
  <2>2. ASSUME role'[n].kind = "leader", ~IsLeader(n), term[n] > t
        PROVE  Has(log[n], i, t)
    <3>1. role[n].kind = "candidate"
      BY <2>2 DEF NodeStep, LogStep, IsLeader
    <3>2. PICK Q \in SUBSET Node : IsQuorum(Q) /\ \A a \in Q : Supports(a, n, term[n])
      BY <2>2 DEF NodeStep, ElectionStep, IsLeader
    <3> QED BY <1>2, <1>4, <2>1, <2>2, <3>1, <3>2, ElectedHas
  <2>3. Protected(i, t)'
    BY <1>1, <2>1, <2>2, ProtectedStep
  <2>4. PICK S, R : S = Ackers(i, t) /\ R = Ackers(i, t)'
    OBVIOUS
  <2>5. S \in SUBSET Node /\ R \in SUBSET Node
    BY <2>4 DEF Ackers
  <2>6. Held(i, t, S)'
    BY <1>2, <2>1, <2>4, <2>5, HeldStep
  <2>7. ASSUME NEW a \in R PROVE Held(i, t, {a})'
    <3>1. a \in Node /\ Acks(a, i, t)'
      BY <2>4 DEF Ackers
    <3>2. CASE a \in S
      BY <2>6, <3>2 DEF Held
    <3>3. CASE a = n /\ term'[n] = t /\ Has(log'[n], i, t)
      BY <3>3, OwnTermHeldNext
    <3> QED BY <1>1, <2>4, <3>1, <3>2, <3>3, AcksStep DEF Ackers
  <2>8. Held(i, t, R)'
    BY <2>7 DEF Held
  <2> QED BY <1>1, <2>3, <2>4, <2>8
<1> QED BY <1>3, <1>4

\* Only the leader acknowledges an entry that it has just proposed.
LEMMA FreshAcks ==
    ASSUME RaftInv, RaftInv', MessagesAreTrue, NEW n \in Node, NodeStep(n), NEW e, Proposes(n, e),
           NEW i, NEW t, i = Len(log[n]) + 1, t = term[n], NEW a \in Node, Acks(a, i, t)'
    PROVE  a = n
<1> SUFFICES ASSUME a # n PROVE FALSE
    OBVIOUS
<1>1. i = Len(log'[n]) /\ t = term'[n]
  <2>1. Len(log'[n]) = Len(log[n]) + 1
    BY StepTypes, GrownLinks DEF Proposes
  <2> QED BY <2>1 DEF Proposes
<1>2. Len(log[n]) \in Nat /\ log[a] \in Buildable /\ log'[a] = log[a]
    BY StepTypes
<1>3. /\ IsLeader(n) \/ ~Owned(t)
      /\ \A x \in Links : x.entry.term = t => x.index <= Len(log[n])
    BY <1>1, ProposalIsNew DEF RaftInv, NodeStep
<1>4. IsLeader(n)'
    BY DEF Proposes, IsLeader
<1>5. CASE Has(log'[a], i, t)
  <2>1. PICK x \in Links : x.index = i /\ x.entry.term = t
    BY <1>2, <1>5, HasLink DEF RaftInv
  <2> QED BY <1>1, <1>2, <1>3, <2>1
<1>6. ASSUME NEW l \in Node, IsLeader(l)', term'[l] = t, Acknowledged(a, i, l)'
      PROVE  FALSE
  <2>1. l = n
    BY <1>1, <1>4, <1>6 DEF RaftInv, ElectionInv, ElectionSafety
  <2>2. CASE role'[n].progress[a].match >= i
    <3>1. Learns(n, a)
      BY <1>4 DEF NodeStep, CommitStep, IsLeader, Peers
    <3>2. ASSUME IsLeader(n) PROVE role[n].progress[a].match \in 0..Len(log[n])
      <4>1. role[n].progress[a] \in Progress /\ InRange(log[n], role[n].progress[a])
        BY <3>2, LeaderInRange DEF RaftInv, MatchingInv, IsLeader, Peers
      <4> QED BY <1>2, <4>1 DEF InRange, Progress
    <3>3. ASSUME IsLeader(n), NEW m \in Responses, m.term = term[n]
          PROVE  m.body.matchIndex <= Len(log[n]) /\ m.body.matchIndex \in Nat
      <4>1. m.body.matchIndex \in Nat
        BY ResponseFields DEF RaftInv
      <4> QED BY <3>3, <4>1 DEF MessagesAreTrue, Responses
    <3> QED BY <1>1, <1>2, <2>2, <3>1, <3>2, <3>3 DEF Learns
  <2>3. ASSUME NEW m \in Responses', m.from = a, m.term = t, m.body.matchIndex >= i
        PROVE  FALSE
    <3>1. CASE m \in msgs
      <4>1. m \in Responses
        BY <2>3, <3>1 DEF Responses
      <4>2. Owned(t)
        BY <2>3, <4>1 DEF RaftInv, MatchingInv, TermsAreOwned, Responses, LeaderResponseTypes
      <4>3. m.body.matchIndex <= Len(log[n])
        BY <1>1, <1>3, <2>3, <4>1, <4>2 DEF MessagesAreTrue, Responses
      <4>4. m.body.matchIndex \in Nat
        BY <4>1, ResponseFields DEF RaftInv
      <4> QED BY <1>1, <1>2, <2>3, <4>3, <4>4
    <3>2. CASE m \notin msgs
      <4>1. Responds(n, m)
        BY <3>2 DEF NodeStep, CommitStep, Sends, Responses
      <4> QED BY <2>3, <4>1 DEF Responds
    <3> QED BY <3>1, <3>2
  <2> QED BY <1>1, <1>6, <2>1, <2>2, <2>3 DEF Acknowledged
<1> QED BY <1>1, <1>5, <1>6 DEF Acks

\* The entry that a leader proposes is abandoned when a later leader has been
\* elected already, and safe otherwise.
LEMMA FreshEntry ==
    ASSUME RaftInv, RaftInv', MessagesAreTrue, NEW n \in Node, NodeStep(n), NEW e, Proposes(n, e),
           NEW i, NEW t, i = Len(log[n]) + 1, t = term[n]
    PROVE  Abandoned(i, t)' \/ (Protected(i, t)' /\ Held(i, t, Ackers(i, t))')
<1>1. i = Len(log'[n]) /\ t = term'[n]
  <2>1. Len(log'[n]) = Len(log[n]) + 1
    BY StepTypes, GrownLinks DEF Proposes
  <2> QED BY <2>1 DEF Proposes
<1>2. i \in Nat \ {0} /\ t \in Nat /\ log'[n] \in Log /\ log'[n] \in Buildable' /\ log[n] \in Log
    BY StepTypes
<1>3. IsLeader(n)'
    BY DEF Proposes, IsLeader
<1>4. Has(log'[n], i, t)
  <2>1. LastTerm(log'[n]) = t
    BY <1>1, <1>3 DEF RaftInv, MatchingInv, LeaderState
  <2> QED BY <1>1, <1>2, <2>1 DEF LastTerm, TermAt, Has
<1>5. \A a \in Node : Acks(a, i, t)' => a = n
    BY FreshAcks
<1>6. Held(i, t, Ackers(i, t))'
  <2>1. Held(i, t, {n})'
    BY <1>1, <1>4, OwnTermHeldNext
  <2>2. PICK R : R = Ackers(i, t)'
    OBVIOUS
  <2>3. R \subseteq {n}
    BY <1>5, <2>2 DEF Ackers
  <2>4. Held(i, t, R)'
    BY <2>1, <2>3 DEF Held
  <2> QED BY <2>2, <2>4
<1>7. ASSUME NEW u \in Nat, u > t, Owned(u)' PROVE Abandoned(i, t)'
  <2>1. PICK p \in Node, Q \in SUBSET Node : IsQuorum(Q) /\ \A a \in Q : Backs(a, p, u)'
    BY <1>7 DEF Owned, IsQuorum
  <2>2. ASSUME NEW a \in Q PROVE term'[a] > t /\ ~Acks(a, i, t)'
    <3>1. a \in Node /\ term'[a] \in Nat
      BY StepTypes
    <3>2. term'[a] > t
      BY <1>2, <1>7, <2>1, <3>1 DEF Backs, VotedFor
    <3> QED BY <1>1, <1>2, <1>5, <3>1, <3>2
  <2>3. IsQuorum(Q)'
    BY <2>1 DEF IsQuorum
  <2> QED BY <2>2, <2>3 DEF Abandoned
<1>8. ASSUME \A u \in Nat : Owned(u)' => u <= t PROVE Protected(i, t)'
  <2>1. ASSUME NEW l \in Buildable', NEW k \in 1..Len(l), l[k].term > t
        PROVE  FALSE
    <3>1. l \in Log /\ LogLinks(l) \subseteq Links'
      BY DEF Buildable
    <3>2. PICK x \in Links' : x.entry = l[k]
      BY <3>1, LogLinkFields
    <3>3. Owned(x.entry.term)'
      BY <3>2 DEF RaftInv, MatchingInv, TermsAreOwned
    <3>4. l[k].term \in Nat
      BY <3>1, EntryTerm
    <3> QED BY <1>2, <1>8, <2>1, <3>2, <3>3, <3>4
  <2>2. ASSUME NEW m \in Appends', NEW l \in Buildable', m.term >= t, Has(l, i, t),
               NEW k \in 1..Len(m.body.entries), m.body.baseIndex + k <= i
        PROVE  Has(l, m.body.baseIndex + k, m.body.entries[k].term)
    <3>1. m.body.baseIndex \in Nat /\ m.body.entries \in Log /\ m.term \in Nat
      BY BodyFields DEF Appends, RaftInv, TypeInv, TypeOK, Envelope
    <3>2. Owned(m.term)'
      BY DEF RaftInv, MatchingInv, TermsAreOwned, Appends, LeaderTypes
    <3>3. m.term = t
      BY <1>2, <1>8, <2>2, <3>1, <3>2
    <3>4. IsSlice(m.body, log'[n])
      BY <1>1, <1>3, <3>3 DEF RaftInv, MatchingInv, AppendsAreSlices
    <3>5. Agrees(log'[n], l, i)
      BY <1>2, <1>4, <2>2, LogsAgreeNext
    <3>6. l \in Log
      BY DEF Buildable
    <3> QED BY <1>2, <2>2, <3>1, <3>4, <3>5, <3>6, SliceHas
  <2> QED BY <2>1, <2>2 DEF Protected
<1>9. CASE \E u \in Nat : u > t /\ Owned(u)'
    BY <1>7, <1>9
<1>10. CASE \A u \in Nat : Owned(u)' => u <= t
    BY <1>6, <1>8, <1>10
<1> QED BY <1>2, <1>9, <1>10

\* Every entry stays abandoned or safe.
LEMMA EntriesStaySafe ==
    ASSUME RaftInv, RaftInv', EntriesAreSafe, MessagesAreTrue, NEW n \in Node, NodeStep(n)
    PROVE  EntriesAreSafe'
<1> SUFFICES ASSUME NEW x \in Links'
             PROVE  \/ Abandoned(x.index, x.entry.term)'
                    \/ /\ Protected(x.index, x.entry.term)'
                       /\ Held(x.index, x.entry.term, Ackers(x.index, x.entry.term))'
    BY DEF EntriesAreSafe, Ackers
<1>1. /\ Links' \subseteq Links \cup LogLinks(log'[n])
      /\ LogLinks(log'[n]) \subseteq Links \/ \E e : Proposes(n, e)
    BY LinksStep DEF RaftInv, MatchingInv, NodeStep
<1>2. CASE x \in Links
    BY <1>2, OldEntryStep
<1>3. ASSUME NEW e, Proposes(n, e), x \notin Links
      PROVE  \/ Abandoned(x.index, x.entry.term)'
             \/ /\ Protected(x.index, x.entry.term)'
                /\ Held(x.index, x.entry.term, Ackers(x.index, x.entry.term))'
  <2>1. /\ log[n] \in Log /\ e \in Entry /\ e.term = term[n] /\ log'[n] = Append(log[n], e)
    BY <1>3, StepTypes DEF Proposes
  <2>2. x \in LogLinks(log[n]) \cup {[index |-> Len(log[n]) + 1, entry |-> e, prev |-> LastTerm(log[n])]}
    BY <1>1, <1>3, <2>1, GrownLinks
  <2>3. x.index = Len(log[n]) + 1 /\ x.entry.term = term[n]
    BY <1>3, <2>1, <2>2, LinksOfParts
  <2> QED BY <1>3, <2>3, FreshEntry
<1> QED BY <1>1, <1>2, <1>3

-----------------------------------------------------------------------------
(* What is chosen stays chosen, and what is committed stays committed.     *)

\* A chosen entry exists.
LEMMA ChosenExists ==
    ASSUME RaftInv, NEW i \in Nat, NEW t \in Nat, Chosen(i, t)
    PROVE  /\ Protected(i, t)
           /\ \E a \in Node : term[a] >= t /\ Has(log[a], i, t) /\ log[a] \in Buildable
           /\ \E x \in Links : x.index = i /\ x.entry.term = t
<1>1. PICK Q \in SUBSET Node : IsQuorum(Q) /\ Protected(i, t) /\ Held(i, t, Q)
    BY DEF Chosen
<1>2. PICK a \in Node : a \in Q
    BY <1>1, QuorumsIntersect
<1>3. term[a] >= t /\ Has(log[a], i, t)
    BY <1>1, <1>2 DEF Held
<1>4. log[a] \in Buildable
    BY LogsAreBuildable DEF RaftInv
<1>5. \E x \in Links : x.index = i /\ x.entry.term = t
    BY <1>3, <1>4, HasLink DEF RaftInv
<1> QED BY <1>1, <1>3, <1>4, <1>5

\* A chosen entry stays chosen.
LEMMA ChosenStep ==
    ASSUME RaftInv, RaftInv', MessagesAreTrue, NEW n \in Node, NodeStep(n),
           NEW i \in Nat, NEW t \in Nat, Chosen(i, t)
    PROVE  Chosen(i, t)'
<1>1. PICK Q \in SUBSET Node : IsQuorum(Q) /\ Protected(i, t) /\ Held(i, t, Q)
    BY DEF Chosen
<1>2. PICK x \in Links : x.index = i /\ x.entry.term = t
    BY ChosenExists
<1>3. ASSUME role'[n].kind = "leader", ~IsLeader(n), term[n] > t
      PROVE  Has(log[n], i, t)
  <2>1. role[n].kind = "candidate"
    BY <1>3 DEF NodeStep, LogStep, IsLeader
  <2>2. PICK R \in SUBSET Node : IsQuorum(R) /\ \A a \in R : Supports(a, n, term[n])
    BY <1>3 DEF NodeStep, ElectionStep, IsLeader
  <2>3. PICK a \in Node : a \in Q /\ a \in R
    BY <1>1, <2>2, QuorumsIntersect
  <2> QED BY <1>1, <1>3, <2>1, <2>2, <2>3 DEF Held
<1>4. Protected(i, t)'
    BY <1>1, <1>2, <1>3, ProtectedStep
<1>5. Held(i, t, Q)'
    BY <1>1, HeldStep
<1>6. IsQuorum(Q)'
    BY <1>1 DEF IsQuorum
<1> QED BY <1>4, <1>5, <1>6 DEF Chosen

\* What is committed in a log exists in it; less is committed too, in later terms
\* too, and in the logs that agree with it.
LEMMA CommittedFacts ==
    RaftInv => \A l \in Log : \A c, t \in Nat : Committed(l, c, t) =>
        /\ c <= Len(l)
        /\ \A d \in Nat : d <= c => Committed(l, d, t)
        /\ \A u \in Nat : u >= t => Committed(l, c, u)
        /\ \A k \in Log : Agrees(l, k, c) => Committed(k, c, t)
<1> SUFFICES ASSUME RaftInv, NEW l \in Log, NEW c \in Nat, NEW t \in Nat, Committed(l, c, t)
             PROVE  /\ c <= Len(l)
                    /\ \A d \in Nat : d <= c => Committed(l, d, t)
                    /\ \A u \in Nat : u >= t => Committed(l, c, u)
                    /\ \A k \in Log : Agrees(l, k, c) => Committed(k, c, t)
    OBVIOUS
<1>1. Len(l) \in Nat
    BY LenProperties DEF Log
<1>2. CASE c = 0
    BY <1>1, <1>2 DEF Committed
<1>3. CASE c # 0
  <2>1. PICK j, u \in Nat :
          /\ c <= j /\ u <= t /\ Chosen(j, u)
          /\ \A k \in Buildable : Has(k, j, u) => Agrees(l, k, c)
    BY <1>3 DEF Committed
  <2>2. PICK a \in Node : Has(log[a], j, u) /\ log[a] \in Buildable
    BY <2>1, ChosenExists
  <2>3. c <= Len(l)
    BY <2>1, <2>2 DEF Agrees
  <2>4. ASSUME NEW d \in Nat, d <= c PROVE Committed(l, d, t)
    <3>1. d <= j /\ \A k \in Buildable : Has(k, j, u) => Agrees(l, k, d)
      BY <2>1, <2>4, AgreesFacts DEF Buildable
    <3> QED BY <2>1, <3>1 DEF Committed
  <2>5. ASSUME NEW v \in Nat, v >= t PROVE Committed(l, c, v)
    <3>1. u <= v
      BY <2>1, <2>5
    <3> QED BY <2>1, <3>1 DEF Committed
  <2>6. ASSUME NEW k \in Log, Agrees(l, k, c) PROVE Committed(k, c, t)
    <3>1. Agrees(k, l, c)
      BY <2>6, AgreesFacts
    <3>2. \A b \in Buildable : Has(b, j, u) => Agrees(k, b, c)
      BY <2>1, <3>1, AgreesFacts DEF Buildable
    <3> QED BY <2>1, <3>2 DEF Committed
  <2> QED BY <2>3, <2>4, <2>5, <2>6
<1> QED BY <1>2, <1>3

\* The same after a step.
LEMMA CommittedFactsNext ==
    (RaftInv => \A l \in Log : \A c, t \in Nat : Committed(l, c, t) =>
        /\ c <= Len(l)
        /\ \A d \in Nat : d <= c => Committed(l, d, t)
        /\ \A u \in Nat : u >= t => Committed(l, c, u)
        /\ \A k \in Log : Agrees(l, k, c) => Committed(k, c, t))'
BY CommittedFacts, PTL

\* What is committed in a log stays so.
LEMMA CommittedStep ==
    ASSUME RaftInv, RaftInv', MessagesAreTrue, NEW n \in Node, NodeStep(n),
           NEW l \in Log, NEW c \in Nat, NEW t \in Nat, Committed(l, c, t)
    PROVE  Committed(l, c, t)'
<1>1. CASE c = 0
    BY <1>1 DEF Committed
<1>2. CASE c # 0
  <2>1. PICK j, u \in Nat :
          /\ c <= j /\ u <= t /\ Chosen(j, u)
          /\ \A k \in Buildable : Has(k, j, u) => Agrees(l, k, c)
    BY <1>2 DEF Committed
  <2>2. Chosen(j, u)'
    BY <2>1, ChosenStep
  <2>3. ASSUME NEW k \in Buildable', Has(k, j, u) PROVE Agrees(l, k, c)
    <3>1. CASE k \in Buildable
      BY <2>1, <2>3, <3>1
    <3>2. ASSUME NEW e, Proposes(n, e), k = log'[n] PROVE Agrees(l, k, c)
      <4>1. PICK x \in Links : x.index = j /\ x.entry.term = u
        BY <2>1, ChosenExists
      <4>2. Has(log[n], j, u)
        BY <2>3, <3>2, <4>1, OldEntry
      <4>3. log[n] \in Buildable /\ log[n] \in Log /\ log'[n] \in Log /\ Len(log[n]) \in Nat
        BY StepTypes
      <4>4. Agrees(l, log[n], c)
        BY <2>1, <4>2, <4>3
      <4>5. c <= Len(log[n])
        BY <4>4 DEF Agrees
      <4>6. Agrees(log[n], log'[n], c)
        BY <3>2, <4>3, <4>5, GrownAgrees DEF Proposes
      <4> QED BY <3>2, <4>3, <4>4, <4>6, AgreesFacts
    <3> QED BY <2>3, <3>1, <3>2, BuildableStep
  <2> QED BY <2>1, <2>2, <2>3 DEF Committed
<1> QED BY <1>1, <1>2

\* A node keeps what it has committed.
LEMMA KeepsCommitted ==
    ASSUME RaftInv, RaftInv', NEW n \in Node, NodeStep(n), NEW c \in Nat,
           Committed(log[n], c, term[n])
    PROVE  Agrees(log[n], log'[n], c)
<1>1. /\ log[n] \in Log /\ log'[n] \in Log /\ Len(log[n]) \in Nat /\ Len(log'[n]) \in Nat
      /\ term[n] \in Nat /\ term'[n] \in Nat /\ term'[n] >= term[n]
    BY StepTypes
<1>2. c <= Len(log[n])
    BY <1>1, CommittedFacts
<1>3. CASE log'[n] = log[n]
    BY <1>2, <1>3 DEF Agrees
<1>4. CASE \E e : Proposes(n, e)
    BY <1>1, <1>2, <1>4, GrownAgrees DEF Proposes
<1>5. CASE c = 0
    BY <1>1, <1>5 DEF Agrees
<1>6. ASSUME NEW m \in msgs, Splices(n, m), c # 0 PROVE Agrees(log[n], log'[n], c)
  <2>1. PICK j, u \in Nat :
          /\ c <= j /\ u <= term[n] /\ Chosen(j, u)
          /\ \A k \in Buildable : Has(k, j, u) => Agrees(log[n], k, c)
    BY <1>6 DEF Committed
  <2>2. PICK a \in Node : Has(log[a], j, u) /\ log[a] \in Buildable
    BY <2>1, ChosenExists
  <2>3. m \in Appends /\ m.term >= u
    BY <1>1, <1>6, <2>1 DEF Splices
  <2>4. Protected(j, u)
    BY <2>1, ChosenExists
  <2>5. m.body.baseIndex \in Nat /\ Len(m.body.entries) \in Nat
    BY <2>3, AppendFields DEF RaftInv
  <2>6. ASSUME NEW k \in 1..Len(m.body.entries), m.body.baseIndex + k <= c
        PROVE  Has(log[n], m.body.baseIndex + k, m.body.entries[k].term)
    <3>1. m.body.baseIndex + k <= j /\ m.body.baseIndex + k \in Nat
      BY <2>1, <2>5, <2>6
    <3>2. Has(log[a], m.body.baseIndex + k, m.body.entries[k].term)
      BY <2>2, <2>3, <2>4, <3>1 DEF Protected
    <3>3. Agrees(log[n], log[a], c) /\ log[a] \in Log
      BY <2>1, <2>2 DEF Buildable
    <3>4. Agrees(log[a], log[n], c)
      BY <1>1, <3>3, AgreesFacts
    <3> QED BY <1>1, <2>6, <3>1, <3>2, <3>3, <3>4, AgreesFacts
  <2> QED BY <1>2, <1>6, <2>6, SpliceKeeps
<1> QED BY <1>3, <1>4, <1>5, <1>6 DEF NodeStep, LogStep

\* What a node has committed stays committed in its log and term.
LEMMA NodeCommittedStep ==
    ASSUME RaftInv, RaftInv', MessagesAreTrue, NEW n \in Node, NodeStep(n), NEW a \in Node,
           NEW c \in Nat, Committed(log[a], c, term[a])
    PROVE  Committed(log[a], c, term[a])'
<1>1. /\ log[a] \in Log /\ log'[a] \in Log /\ Len(log[a]) \in Nat
      /\ term[a] \in Nat /\ term'[a] \in Nat /\ term'[a] >= term[a]
    BY StepTypes
<1>2. PICK l, t, k, u : l = log[a] /\ t = term[a] /\ k = log'[a] /\ u = term'[a]
    OBVIOUS
<1>3. Committed(l, c, t)'
    BY <1>1, <1>2, CommittedStep
<1>4. Agrees(l, k, c)
  <2>1. CASE a = n
    BY <1>2, <2>1, KeepsCommitted
  <2>2. CASE a # n
    <3>1. c <= Len(log[a])
      BY <1>1, CommittedFacts
    <3>2. log'[a] = log[a]
      BY <2>2, StepTypes
    <3> QED BY <1>2, <3>1, <3>2 DEF Agrees
  <2> QED BY <2>1, <2>2
<1>5. Committed(k, c, t)'
    BY <1>1, <1>2, <1>3, <1>4, CommittedFactsNext
<1>6. Committed(k, c, u)'
    BY <1>1, <1>2, <1>5, CommittedFactsNext
<1> QED BY <1>2, <1>6 DEF Committed

\* What a leader counts as replicated to a quorum, in an entry of its term, is
\* committed.
LEMMA CountedIsCommitted ==
    RaftInv /\ EntriesAreSafe => \A n \in Node : \A c \in Nat :
        /\ IsLeader(n) /\ Has(log[n], c, term[n])
        /\ \E Q \in SUBSET Node :
              IsQuorum(Q) /\ \A a \in Q \ {n} : role[n].progress[a].match >= c
        => Committed(log[n], c, term[n])
<1> SUFFICES ASSUME RaftInv, EntriesAreSafe, NEW n \in Node, NEW c \in Nat,
                    IsLeader(n), Has(log[n], c, term[n]), NEW Q \in SUBSET Node, IsQuorum(Q),
                    \A a \in Q \ {n} : role[n].progress[a].match >= c
             PROVE  Committed(log[n], c, term[n])
    OBVIOUS
<1>1. term[n] \in Nat /\ log[n] \in Buildable
    BY LogsAreBuildable DEF RaftInv, TypeInv, TypeOK
<1>2. \A a \in Q : a \in Node /\ Acks(a, c, term[n])
    BY DEF Acks, Acknowledged
<1>3. ~Abandoned(c, term[n])
  <2> SUFFICES ASSUME NEW R \in SUBSET Node, IsQuorum(R), \A b \in R : ~Acks(b, c, term[n])
               PROVE  FALSE
    BY DEF Abandoned
  <2>1. PICK a \in Node : a \in Q /\ a \in R
    BY QuorumsIntersect
  <2> QED BY <1>2, <2>1
<1>4. PICK x \in Links : x.index = c /\ x.entry.term = term[n]
    BY <1>1, HasLink DEF RaftInv
<1>5. Protected(c, term[n]) /\ Held(c, term[n], Ackers(c, term[n]))
    BY <1>3, <1>4 DEF EntriesAreSafe, Ackers
<1>6. Held(c, term[n], Q)
    BY <1>2, <1>5 DEF Held, Ackers
<1>7. Chosen(c, term[n])
    BY <1>5, <1>6 DEF Chosen
<1>8. \A k \in Buildable : Has(k, c, term[n]) => Agrees(log[n], k, c)
    BY <1>1, LogsAgree
<1> QED BY <1>1, <1>7, <1>8 DEF Committed

\* The same after a step.
LEMMA CountedIsCommittedNext ==
    (RaftInv /\ EntriesAreSafe => \A n \in Node : \A c \in Nat :
        /\ IsLeader(n) /\ Has(log[n], c, term[n])
        /\ \E Q \in SUBSET Node :
              IsQuorum(Q) /\ \A a \in Q \ {n} : role[n].progress[a].match >= c
        => Committed(log[n], c, term[n]))'
BY CountedIsCommitted, PTL

\* The fields of a heartbeat.
LEMMA HeartbeatFields ==
    TypeInv => \A m \in msgs : m.body.type = "Heartbeat" =>
        m.body.lastIndex \in Nat /\ m.body.commitIndex \in Nat /\ m.term \in Nat
BY BodyFields DEF TypeInv, TypeOK, Envelope

\* The same after a step.
LEMMA HeartbeatFieldsNext ==
    (TypeInv => \A m \in msgs : m.body.type = "Heartbeat" =>
        m.body.lastIndex \in Nat /\ m.body.commitIndex \in Nat /\ m.term \in Nat)'
BY HeartbeatFields, PTL

\* What nodes commit and apply is chosen.
LEMMA NodesCommitChosen ==
    ASSUME RaftInv, RaftInv', CommitInv, EntriesAreSafe', NEW n \in Node, NodeStep(n), NEW a \in Node
    PROVE  (Committed(log[a], commit[a], term[a]) /\ Committed(log[a], applied[a], term[a]))'
<1>1. /\ log[a] \in Log /\ log'[a] \in Log /\ term[a] \in Nat /\ term'[a] \in Nat
      /\ commit[a] \in Nat /\ commit'[a] \in Nat /\ applied[a] \in Nat /\ applied'[a] \in Nat
    BY StepTypes
<1>2. PICK c, b, c1, b1 : c = commit[a] /\ b = applied[a] /\ c1 = commit'[a] /\ b1 = applied'[a]
    OBVIOUS
<1>3. Committed(log[a], c, term[a])' /\ Committed(log[a], b, term[a])'
  <2>1. Committed(log[a], c, term[a]) /\ Committed(log[a], b, term[a]) /\ MessagesAreTrue
    BY <1>2 DEF CommitInv, CommitsAreChosen
  <2> QED BY <1>1, <1>2, <2>1, NodeCommittedStep
<1>4. \A i, j \in Nat : i <= j /\ Committed(log[a], j, term[a])' => Committed(log[a], i, term[a])'
    BY <1>1, CommittedFactsNext
<1>5. Committed(log[a], c1, term[a])'
  <2>1. CASE c1 <= c
    BY <1>1, <1>2, <1>3, <1>4, <2>1
  <2>2. CASE a = n /\ CommitsByCounting(n)
    <3>1. IsLeader(n)' /\ term'[n] = term[n]
      BY <2>2 DEF CommitsByCounting, IsLeader, NodeStep, ElectionStep
    <3>2. Has(log'[n], commit'[n], term'[n])
      BY <2>2, <3>1 DEF CommitsByCounting
    <3>3. \E Q \in SUBSET Node :
            IsQuorum(Q)' /\ \A d \in Q \ {n} : role'[n].progress[d].match >= commit'[n]
      BY <2>2 DEF CommitsByCounting, IsQuorum
    <3>4. Committed(log[n], c1, term[n])'
      BY <1>1, <1>2, <2>2, <3>1, <3>2, <3>3, CountedIsCommittedNext
    <3> QED BY <2>2, <3>4
  <2>3. ASSUME NEW m \in msgs, CommitsByHeartbeat(n, m), a = n
        PROVE  Committed(log[a], c1, term[a])'
    <3>1. /\ m.body.type = "Heartbeat" /\ m.term = term'[n] /\ log'[n] = log[n]
          /\ Has(log[n], m.body.lastIndex, m.term) /\ commit'[n] = m.body.commitIndex
      BY <2>3 DEF CommitsByHeartbeat
    <3>2. log[n] \in Buildable
      BY StepTypes
    <3>3. PICK l, t : l = log'[n] /\ t = term'[n]
      OBVIOUS
    <3>4. Committed(l, c1, t)
      BY <1>2, <2>3, <3>1, <3>2, <3>3 DEF CommitInv, CommitsAreChosen
    <3>5. Committed(l, c1, t)'
      BY <1>1, <1>2, <2>3, <3>3, <3>4, CommittedStep DEF CommitInv
    <3> QED BY <2>3, <3>3, <3>5 DEF Committed
  <2>4. CASE a # n
    BY <1>2, <1>3, <2>4, StepTypes
  <2> QED BY <1>2, <2>1, <2>2, <2>3, <2>4 DEF NodeStep, CommitStep
<1>6. Committed(log[a], b1, term[a])'
  <2>1. b1 <= b \/ b1 <= c \/ b1 <= c1
    <3>1. CASE a = n
      BY <1>2, <3>1 DEF NodeStep, CommitStep
    <3>2. CASE a # n
      <4>1. applied'[a] = applied[a]
        BY <3>2, StepTypes
      <4> QED BY <1>1, <1>2, <4>1
    <3> QED BY <3>1, <3>2
  <2> QED BY <1>1, <1>2, <1>3, <1>4, <1>5, <2>1
<1> QED BY <1>2, <1>5, <1>6 DEF Committed

\* What heartbeats tell nodes to commit is chosen.
LEMMA HeartbeatsCommitChosen ==
    ASSUME RaftInv, RaftInv', CommitInv, NEW n \in Node, NodeStep(n),
           NEW m \in msgs', m.body.type = "Heartbeat",
           NEW l \in Buildable', Has(l, m.body.lastIndex, m.term)
    PROVE  Committed(l, m.body.commitIndex, m.term)'
<1>1. PICK i, c, t : i = m.body.lastIndex /\ c = m.body.commitIndex /\ t = m.term
    OBVIOUS
<1>2. i \in Nat /\ c \in Nat /\ t \in Nat
    BY <1>1, HeartbeatFieldsNext DEF RaftInv
<1>3. /\ log[n] \in Log /\ log'[n] \in Log /\ Len(log[n]) \in Nat /\ Len(log'[n]) \in Nat
      /\ log[n] \in Buildable /\ log'[n] \in Buildable' /\ term[n] \in Nat /\ commit[n] \in Nat
      /\ term'[n] \in Nat
    BY StepTypes
<1>4. l \in Log
    BY DEF Buildable
<1>5. ASSUME m \in msgs, NEW k \in Buildable, Has(k, i, t) PROVE Committed(k, c, t)
    BY <1>1, <1>5 DEF CommitInv, CommitsAreChosen
<1>6. CASE m \in msgs /\ l \in Buildable
    BY <1>1, <1>2, <1>4, <1>5, <1>6, CommittedStep DEF CommitInv
<1>7. ASSUME m \in msgs, NEW e, Proposes(n, e), l = log'[n]
      PROVE  Committed(l, c, t)'
  <2>1. /\ Len(log'[n]) = Len(log[n]) + 1 /\ Agrees(log[n], log'[n], Len(log[n]))
        /\ e \in Entry /\ e.term = term[n] /\ log'[n] = Append(log[n], e)
    BY <1>3, <1>7, GrownLinks, GrownAgrees DEF Proposes
  <2>2. log'[n][Len(log[n]) + 1] = e
    BY <1>3, <2>1, AppendProperties DEF Log
  <2>3. Owned(t)
    BY <1>1, <1>7 DEF RaftInv, MatchingInv, TermsAreOwned, LeaderTypes
  <2>4. i \in 1..Len(log[n])
    <3> SUFFICES ASSUME i = Len(log[n]) + 1 PROVE FALSE
      BY <1>1, <1>2, <1>3, <1>7, <2>1 DEF Has
    <3>1. t = term[n]
      BY <1>1, <1>7, <2>1, <2>2 DEF Has
    <3>2. IsLeader(n)
      BY <1>7, <2>3, <3>1, ProposalIsNew DEF RaftInv, NodeStep
    <3>3. Has(log[n], i, t)
      BY <1>1, <1>7, <3>1, <3>2 DEF CommitInv, MessagesAreTrue
    <3> QED BY <1>3, <3>3 DEF Has
  <2>5. Has(log[n], i, t)
    BY <1>1, <1>7, <2>1, <2>4 DEF Has, Agrees
  <2>6. PICK k : k = log[n]
    OBVIOUS
  <2>7. Committed(k, c, t)
    BY <1>3, <1>5, <1>7, <2>5, <2>6
  <2>8. Committed(k, c, t)'
    BY <1>2, <1>3, <2>6, <2>7, CommittedStep DEF CommitInv
  <2>9. c <= Len(k)
    BY <1>2, <1>3, <2>6, <2>7, CommittedFacts
  <2>10. Agrees(k, l, c)
    BY <1>2, <1>3, <1>4, <1>7, <2>1, <2>6, <2>9, AgreesFacts
  <2> QED BY <1>2, <1>3, <1>4, <2>6, <2>8, <2>10, CommittedFactsNext
<1>8. CASE m \notin msgs
  <2>1. /\ role'[n].kind = "leader" /\ t = term'[n] /\ i = Len(log'[n]) /\ c = commit[n]
    BY <1>1, <1>8 DEF NodeStep, CommitStep, Sends
  <2>2. Has(log'[n], i, t)
    <3>1. LastTerm(log'[n]) = t /\ i # 0
      BY <1>1, <1>2, <2>1 DEF RaftInv, MatchingInv, LeaderState, IsLeader, Has
    <3> QED BY <1>2, <2>1, <3>1 DEF LastTerm, TermAt, Has
  <2>3. Agrees(log'[n], l, i)
    BY <1>1, <1>3, <2>2, LogsAgreeNext
  <2>4. PICK k : k = log'[n]
    OBVIOUS
  <2>5. Committed(log[n], c, term[n])
    BY <2>1 DEF CommitInv, CommitsAreChosen
  <2>6. Committed(log[n], c, term[n])'
    BY <1>2, <2>5, NodeCommittedStep DEF CommitInv
  <2>7. Committed(k, c, t)'
    BY <2>1, <2>4, <2>6 DEF Committed
  <2>8. c <= Len(k)
    BY <1>2, <1>3, <2>4, <2>7, CommittedFactsNext
  <2>9. Agrees(k, l, c)
    BY <1>2, <1>3, <1>4, <2>1, <2>3, <2>4, <2>8, AgreesFacts
  <2> QED BY <1>1, <1>2, <1>3, <1>4, <2>4, <2>7, <2>9, CommittedFactsNext
<1> QED BY <1>1, <1>6, <1>7, <1>8, BuildableStep

-----------------------------------------------------------------------------
(* Messages stay true.                                                     *)

\* Campaigns.
LEMMA CampaignsStayTrue ==
    ASSUME RaftInv, RaftInv', MessagesAreTrue, NEW n \in Node, NodeStep(n),
           NEW m \in msgs', m.body.type = "Campaign"
    PROVE  /\ m.term <= term'[m.from]
           /\ m.term = term'[m.from] /\ role'[m.from].kind = "candidate" =>
                 m.body.lastIndex = Len(log'[m.from]) /\ m.body.lastTerm = LastTerm(log'[m.from])
<1>1. m.from \in Node /\ m.term \in Nat
    BY DEF RaftInv, TypeInv, TypeOK, Envelope
<1>2. /\ term[m.from] \in Nat /\ term'[m.from] \in Nat /\ term'[m.from] >= term[m.from]
      /\ m.from # n => term'[m.from] = term[m.from] /\ role'[m.from] = role[m.from]
                         /\ log'[m.from] = log[m.from]
    BY <1>1, StepTypes
<1>3. CASE m \notin msgs
  <2>1. /\ m.from = n /\ m.term = term'[n] /\ log'[n] = log[n]
        /\ m.body.lastIndex = Len(log[n]) /\ m.body.lastTerm = LastTerm(log[n])
    BY <1>3 DEF NodeStep, CommitStep, Sends
  <2> QED BY <1>2, <2>1
<1>4. CASE m \in msgs
  <2>1. /\ m.term <= term[m.from]
        /\ m.term = term[m.from] /\ role[m.from].kind = "candidate" =>
              m.body.lastIndex = Len(log[m.from]) /\ m.body.lastTerm = LastTerm(log[m.from])
    BY <1>4 DEF MessagesAreTrue
  <2>2. ASSUME m.term = term'[m.from], role'[m.from].kind = "candidate"
        PROVE  m.body.lastIndex = Len(log'[m.from]) /\ m.body.lastTerm = LastTerm(log'[m.from])
    <3>1. m.term = term[m.from] /\ term'[m.from] = term[m.from]
      BY <1>1, <1>2, <2>1, <2>2
    <3>2. role[m.from].kind = "candidate"
      BY <1>2, <2>2, <3>1 DEF NodeStep, LogStep
    <3>3. log'[m.from] = log[m.from]
      BY <1>2, <2>2 DEF NodeStep, LogStep, Proposes, Splices
    <3> QED BY <2>1, <3>1, <3>2, <3>3
  <2> QED BY <1>1, <1>2, <2>1, <2>2
<1> QED BY <1>3, <1>4

\* Votes.
LEMMA GrantsStayTrue ==
    ASSUME RaftInv, RaftInv', MessagesAreTrue, NEW n \in Node, NodeStep(n),
           NEW m \in msgs', IsGrant(m)
    PROVE  m.term <= term'[m.to]
<1>1. m.from \in Node /\ m.to \in Node /\ m.term \in Nat
    BY DEF RaftInv, TypeInv, TypeOK, Envelope
<1>2. term[m.to] \in Nat /\ term'[m.to] \in Nat /\ term'[m.to] >= term[m.to]
    BY <1>1, StepTypes
<1>3. Supports(m.from, m.to, m.term)'
    BY DEF Supports, Granted, IsGrant
<1>4. CASE Supports(m.from, m.to, m.term)
  <2>1. m.term <= term[m.to]
    BY <1>1, <1>2, <1>4 DEF Supports, Granted, Counted, MessagesAreTrue
  <2> QED BY <1>1, <1>2, <2>1
<1>5. CASE m.term = term'[n] /\ Hears(n, m.to)
  <2>1. CASE m.to = n
    BY <1>2, <1>5, <2>1
  <2>2. ASSUME NEW r \in msgs, r.body.type = "Campaign", r.from = m.to, r.term = term'[n]
        PROVE  m.term <= term'[m.to]
    <3>1. r.term <= term[m.to]
      BY <2>2 DEF MessagesAreTrue
    <3> QED BY <1>1, <1>2, <1>5, <2>2, <3>1
  <2> QED BY <1>5, <2>1, <2>2 DEF Hears
<1> QED BY <1>1, <1>3, <1>4, <1>5 DEF NodeStep, ElectionStep

\* Heartbeats.
LEMMA HeartbeatsStayTrue ==
    ASSUME RaftInv, RaftInv', MessagesAreTrue, NEW n \in Node, NodeStep(n),
           NEW m \in msgs', m.body.type = "Heartbeat", NEW l \in Node, IsLeader(l)', term'[l] = m.term
    PROVE  Has(log'[l], m.body.lastIndex, m.term)
<1>1. /\ log[l] \in Log /\ log'[l] \in Log /\ Len(log[l]) \in Nat /\ Len(log'[l]) \in Nat
      /\ term'[l] \in Nat
    BY StepTypes
<1>2. CASE m \in msgs
  <2>1. Owned(m.term)
    BY <1>2 DEF RaftInv, MatchingInv, TermsAreOwned, LeaderTypes
  <2>2. IsLeader(l) /\ term[l] = m.term
    BY <2>1, OldLeader
  <2>3. Has(log[l], m.body.lastIndex, m.term)
    BY <1>2, <2>2 DEF MessagesAreTrue
  <2>4. Agrees(log[l], log'[l], Len(log[l]))
    BY <2>2, LeaderLogGrows
  <2>5. m.body.lastIndex \in Nat /\ m.body.lastIndex <= Len(log[l])
    BY <1>1, <2>3 DEF Has
  <2> QED BY <1>1, <2>3, <2>4, <2>5, AgreesFacts
<1>3. CASE m \notin msgs
  <2>1. role'[n].kind = "leader" /\ m.term = term'[n] /\ m.body.lastIndex = Len(log'[n])
    BY <1>3 DEF NodeStep, CommitStep, Sends
  <2>2. l = n
    BY <2>1 DEF RaftInv, ElectionInv, ElectionSafety, IsLeader
  <2>3. LastTerm(log'[l]) = m.term /\ m.term > 0
    BY DEF RaftInv, MatchingInv, LeaderState, TypeInv, ActiveTerm, IsLeader
  <2> QED BY <1>1, <2>1, <2>2, <2>3 DEF LastTerm, TermAt, Has
<1> QED BY <1>2, <1>3

\* Responses.
LEMMA ResponsesStayTrue ==
    ASSUME RaftInv, RaftInv', MessagesAreTrue, NEW n \in Node, NodeStep(n),
           NEW m \in Responses', NEW l \in Node, IsLeader(l)', term'[l] = m.term
    PROVE  m.body.matchIndex <= Len(log'[l])
<1>1. /\ log[l] \in Log /\ log'[l] \in Log /\ Len(log[l]) \in Nat /\ Len(log'[l]) \in Nat
    BY StepTypes
<1>2. m.body.matchIndex \in Nat
  <2>1. (TypeInv => \A r \in Responses :
          r.body.matchIndex \in Nat /\ r.term \in Nat /\ r.from \in Node /\ r.to \in Node)'
    BY ResponseFields, PTL
  <2> QED BY <2>1 DEF RaftInv
<1>3. Owned(m.term)
  <2>1. CASE m \in msgs
    BY <2>1 DEF Responses, RaftInv, MatchingInv, TermsAreOwned, LeaderResponseTypes
  <2>2. CASE m \notin msgs
    <3>1. PICK r \in msgs : r.body.type \in LeaderTypes /\ m.term = r.term
      BY <2>2 DEF Responses, NodeStep, LogStep, LeaderResponseTypes
    <3> QED BY <3>1 DEF RaftInv, MatchingInv, TermsAreOwned
  <2> QED BY <2>1, <2>2
<1>4. IsLeader(l) /\ term[l] = m.term
    BY <1>3, OldLeader
<1>5. Len(log[l]) <= Len(log'[l])
    BY <1>4, LeaderLogGrows DEF Agrees
<1>6. m.body.matchIndex <= Len(log[l])
  <2>1. CASE m \in msgs
    BY <1>4, <2>1 DEF MessagesAreTrue, Responses
  <2>2. CASE m \notin msgs
    <3>1. Responds(n, m)
      BY <2>2 DEF NodeStep, CommitStep, Sends, Responses
    <3>2. Agrees(log'[n], log[l], m.body.matchIndex)
      BY <1>2, <1>4, <3>1, RespondsTruly
    <3> QED BY <3>2 DEF Agrees
  <2> QED BY <2>1, <2>2
<1> QED BY <1>1, <1>2, <1>5, <1>6

\* A step of this kind keeps the invariant.
LEMMA CommitInvStep ==
    ASSUME RaftInv, RaftInv', CommitInv, NEW n \in Node, NodeStep(n)
    PROVE  CommitInv'
<1>1. EntriesAreSafe'
    BY EntriesStaySafe DEF CommitInv
<1>2. CommitsAreChosen'
  <2>1. \A a \in Node : (Committed(log[a], commit[a], term[a])
                           /\ Committed(log[a], applied[a], term[a]))'
    BY <1>1, NodesCommitChosen
  <2>2. ASSUME NEW m \in msgs', m.body.type = "Heartbeat", NEW l \in Buildable',
               Has(l, m.body.lastIndex, m.term)
        PROVE  Committed(l, m.body.commitIndex, m.term)'
    BY <2>2, HeartbeatsCommitChosen
  <2> QED BY <2>1, <2>2 DEF CommitsAreChosen
<1>3. MessagesAreTrue'
  <2>1. MessagesAreTrue
    BY DEF CommitInv
  <2>2. ASSUME NEW m \in msgs', m.body.type = "Campaign"
        PROVE  /\ m.term <= term'[m.from]
               /\ m.term = term'[m.from] /\ role'[m.from].kind = "candidate" =>
                     m.body.lastIndex = Len(log'[m.from]) /\ m.body.lastTerm = LastTerm(log'[m.from])
    BY <2>1, <2>2, CampaignsStayTrue
  <2>3. ASSUME NEW m \in msgs', IsGrant(m) PROVE m.term <= term'[m.to]
    BY <2>1, <2>3, GrantsStayTrue
  <2>4. ASSUME NEW m \in msgs', m.body.type = "Heartbeat", NEW l \in Node, IsLeader(l)',
               term'[l] = m.term
        PROVE  Has(log'[l], m.body.lastIndex, m.term)
    BY <2>1, <2>4, HeartbeatsStayTrue
  <2>5. ASSUME NEW m \in Responses', NEW l \in Node, IsLeader(l)', term'[l] = m.term
        PROVE  m.body.matchIndex <= Len(log'[l])
    BY <2>1, <2>5, ResponsesStayTrue
  <2> QED BY <2>2, <2>3, <2>4, <2>5 DEF MessagesAreTrue, IsGrant
<1> QED BY <1>1, <1>2, <1>3 DEF CommitInv

-----------------------------------------------------------------------------
(* The actions are such steps: followers.                                  *)

\* Messages that say nothing about logs, commit indexes or campaigns; appends are
\* described by LogStep.
Silent(S) ==
    \A m \in S :
        m.body.type \notin {"Heartbeat", "AppendResponse", "HeartbeatResponse", "Campaign"}

\* Messages that are silent.
LEMMA SilentMsgs ==
    ASSUME NEW n, NEW t
    PROVE  /\ \A R : Silent(ReplyMsgs(n, t, R))
           /\ \A b : b.type = "Read" => Silent(Broadcast(n, t, b))
           /\ \A l, progress : Silent(ProposalMsgs(n, t, Propose(l, progress)))
           /\ \A p, l, pr, probe :
                 Silent({Env(n, p, t, b) : b \in MaybeSendAppend(l, pr, probe).bodies})
           /\ \A S, R : Silent(S) /\ Silent(R) => Silent(S \cup R)
           /\ Silent({})
<1>1. \A R : Silent(ReplyMsgs(n, t, R))
    BY DEF Silent, ReplyMsgs, Env
<1>2. \A b : b.type = "Read" => Silent(Broadcast(n, t, b))
    BY DEF Silent, Broadcast, Env
<1>3. \A l, pr, probe : \A b \in MaybeSendAppend(l, pr, probe).bodies : b.type = "Append"
    BY DEF MaybeSendAppend
<1>4. \A l, progress : Silent(ProposalMsgs(n, t, Propose(l, progress)))
  <2>1. ASSUME NEW l, NEW progress, NEW p \in DOMAIN progress,
               NEW b \in Propose(l, progress)[p].bodies
        PROVE  b.type = "Append"
    <3>1. \/ Propose(l, progress)[p] = MaybeSendAppend(l, progress[p], FALSE)
          \/ Propose(l, progress)[p].bodies = {}
      BY DEF Propose
    <3> QED BY <1>3, <2>1, <3>1
  <2>2. \A l, progress : DOMAIN Propose(l, progress) = DOMAIN progress
    BY DEF Propose
  <2> QED BY <2>1, <2>2 DEF Silent, ProposalMsgs, Env
<1>5. \A p, l, pr, probe :
        Silent({Env(n, p, t, b) : b \in MaybeSendAppend(l, pr, probe).bodies})
    BY <1>3 DEF Silent, Env
<1> QED BY <1>1, <1>2, <1>4, <1>5 DEF Silent

\* A step that commits and applies nothing new, and in which a leader learns nothing
\* new about its peers.
LEMMA PlainCommitStep ==
    ASSUME TypeInv, NEW n \in Node,
           \A a \in Node \ {n} : commit'[a] = commit[a] /\ applied'[a] = applied[a],
           commit'[n] <= commit[n], applied'[n] <= applied[n] \/ applied'[n] <= commit[n],
           role'[n].kind = "leader" => \A p \in Peers(n) :
              \/ role'[n].progress[p].match = 0
              \/ IsLeader(n) /\ role'[n].progress[p].match = role[n].progress[p].match,
           NEW sent, msgs' \subseteq msgs \cup sent, \A s \in sent : Sends(n, s)
    PROVE  CommitStep(n)
BY DEF CommitStep, Learns

\* Silent messages may always be sent.
LEMMA SilentSends ==
    ASSUME NEW n, NEW S, Silent(S)
    PROVE  \A s \in S : Sends(n, s)
BY DEF Silent, Sends

\* A node that steps a message as a follower.
LEMMA EndAsFollowerCommit ==
    ASSUME TypeInv, NEW n \in Node, NEW m \in msgs, NEW v, NEW r, r.kind = "follower",
           NEW sent, NEW replies, EndAsFollower(n, m, v, r, sent, replies),
           \A s \in sent : Sends(n, s),
           \A a \in Node \ {n} : commit'[a] = commit[a] /\ applied'[a] = applied[a],
           commit'[n] <= commit[n] \/ \E k \in msgs : CommitsByHeartbeat(n, k),
           applied'[n] <= applied[n] \/ applied'[n] <= commit[n] \/ applied'[n] <= commit'[n]
    PROVE  CommitStep(n)
<1>1. role'[n].kind = "follower"
    BY DEF EndAsFollower, TypeInv, TypeOK
<1> DEFINE all == sent \cup ReplyMsgs(n, term[n], AbortedBy(n, m))
<1>2. msgs' \subseteq msgs \cup all
    BY SendSubset DEF EndAsFollower
<1>3. \A s \in all : Sends(n, s)
  <2>1. \A s \in ReplyMsgs(n, term[n], AbortedBy(n, m)) : Sends(n, s)
    BY SilentMsgs, SilentSends
  <2> QED BY <2>1
<1> HIDE DEF all
<1> QED BY <1>1, <1>2, <1>3 DEF CommitStep

\* Followers.
LEMMA FollowerCommitSteps ==
    ASSUME TypeInv, NEW n \in Node, NEW m \in msgs,
           \/ HandleHeartbeat(n, m) \/ HandleAppend(n, m) \/ HandleRead(n, m)
           \/ HandleCampaign(n, m) \/ HandleClientResponse(n, m) \/ IgnoreVote(n, m)
    PROVE  CommitStep(n)
<1>1. /\ n \in DOMAIN term /\ n \in DOMAIN role /\ n \in DOMAIN log /\ n \in DOMAIN commit
      /\ n \in DOMAIN applied /\ commit[n] \in Nat /\ applied[n] \in Nat /\ log[n] \in Log
      /\ m.body \in Body
    BY DEF TypeInv, TypeOK, Envelope
<1>2. ASSUME NEW v, NEW r, r.kind = "follower", NEW sent, NEW replies,
             EndAsFollower(n, m, v, r, sent, replies), Silent(sent), UNCHANGED <<commit, applied>>
      PROVE  CommitStep(n)
  <2>1. \A s \in sent : Sends(n, s)
    BY <1>2, SilentSends
  <2> QED BY <1>1, <1>2, <2>1, EndAsFollowerCommit
<1>3. ASSUME NEW b, FollowAndRespond(n, m, b),
             Responds(n, Env(n, m.from, m.term, b)),
             b.type \in {"HeartbeatResponse", "AppendResponse"},
             \A a \in Node \ {n} : commit'[a] = commit[a] /\ applied'[a] = applied[a],
             commit'[n] <= commit[n] \/ CommitsByHeartbeat(n, m),
             applied'[n] <= applied[n] \/ applied'[n] <= commit'[n]
      PROVE  CommitStep(n)
  <2>1. PICK e, f : e = Env(n, m.from, m.term, b) /\ f = Follower(m.from, FollowerIn(n, m).forwarded)
    OBVIOUS
  <2>2. Sends(n, e)
    BY <1>3, <2>1 DEF Sends, Env
  <2>3. f.kind = "follower" /\ EndAsFollower(n, m, VoteIn(n, m), f, {e}, {})
    BY <1>3, <2>1 DEF FollowAndRespond, Follower
  <2> QED BY <1>3, <2>2, <2>3, EndAsFollowerCommit
<1>4. ASSUME NEW b, FollowAndRespond(n, m, b)
      PROVE  term'[n] = m.term /\ role'[n].kind = "follower"
    BY <1>1, <1>4 DEF FollowAndRespond, EndAsFollower, Follower
<1>5. CASE HandleHeartbeat(n, m)
  <2> DEFINE match == HeartbeatMatch(n, m)
             b == [type |-> "HeartbeatResponse", matchIndex |-> match, readSeq |-> m.body.readSeq]
             commits == match # 0 /\ m.body.commitIndex > commit[n]
  <2>1. /\ m.body.type = "Heartbeat" /\ FollowAndRespond(n, m, b) /\ log' = log
        /\ commit' = IF commits THEN [commit EXCEPT ![n] = m.body.commitIndex] ELSE commit
        /\ applied' = IF commits
                      THEN [applied EXCEPT ![n] = Max2(@, m.body.commitIndex)] ELSE applied
    BY <1>5 DEF HandleHeartbeat
  <2>2. term'[n] = m.term /\ role'[n].kind = "follower" /\ m.body.commitIndex \in Nat
    BY <1>1, <1>4, <2>1, BodyFields
  <2>3. match = 0 \/ (match = m.body.lastIndex /\ Has(log[n], m.body.lastIndex, m.term))
    BY DEF HeartbeatMatch
  <2> HIDE DEF match
  <2>4. Responds(n, Env(n, m.from, m.term, b))
    BY <2>1, <2>2, <2>3 DEF Responds, Env
  <2>5. \A a \in Node \ {n} : commit'[a] = commit[a] /\ applied'[a] = applied[a]
    BY <1>1, <2>1
  <2>6. CASE commits
    <3>1. commit'[n] = m.body.commitIndex /\ applied'[n] = Max2(applied[n], m.body.commitIndex)
      BY <1>1, <2>1, <2>6
    <3>2. CommitsByHeartbeat(n, m)
      BY <2>1, <2>2, <2>3, <2>6, <3>1 DEF CommitsByHeartbeat
    <3>3. applied'[n] <= applied[n] \/ applied'[n] <= commit'[n]
      BY <1>1, <2>2, <3>1 DEF Max2
    <3> QED BY <1>3, <2>1, <2>4, <2>5, <3>2, <3>3
  <2>7. CASE ~commits
    <3>1. commit'[n] <= commit[n] /\ applied'[n] <= applied[n]
      BY <1>1, <2>1, <2>7
    <3> QED BY <1>3, <2>1, <2>4, <2>5, <3>1
  <2> QED BY <2>6, <2>7
<1>6. CASE HandleAppend(n, m)
  <2>1. UNCHANGED <<commit, applied>> /\ m.body.type = "Append"
    BY <1>6 DEF HandleAppend
  <2>2. PICK b :
          /\ b.type = "AppendResponse" /\ FollowAndRespond(n, m, b)
          /\ \/ b.matchIndex = 0
             \/ /\ b.matchIndex = m.body.baseIndex + Len(m.body.entries)
                /\ HasBase(log[n], m.body.baseIndex, m.body.baseTerm)
                /\ log' = [log EXCEPT ![n] = Splice(@, m.body.baseIndex, m.body.entries)]
    <3>1. CASE HasBase(log[n], m.body.baseIndex, m.body.baseTerm)
      <4> WITNESS [type |-> "AppendResponse",
                   matchIndex |-> m.body.baseIndex + Len(m.body.entries), rejectIndex |-> 0]
      <4> QED BY <1>6, <3>1 DEF HandleAppend
    <3>2. CASE ~HasBase(log[n], m.body.baseIndex, m.body.baseTerm)
      <4> WITNESS [type |-> "AppendResponse", matchIndex |-> 0,
                   rejectIndex |-> Min2(m.body.baseIndex, Len(log[n]) + 1)]
      <4> QED BY <1>6, <3>2 DEF HandleAppend
    <3> QED BY <3>1, <3>2
  <2>3. term'[n] = m.term /\ role'[n].kind = "follower"
    BY <1>4, <2>2
  <2>4. b.matchIndex = 0
          \/ (b.matchIndex = m.body.baseIndex + Len(m.body.entries) /\ Splices(n, m))
    BY <1>1, <2>1, <2>2, <2>3 DEF Splices, Appends
  <2>5. Responds(n, Env(n, m.from, m.term, b))
    BY <2>3, <2>4 DEF Responds, Env
  <2> QED BY <1>1, <1>3, <2>1, <2>2, <2>5
<1>7. CASE HandleRead(n, m)
  <2> DEFINE e == Env(n, m.from, m.term, [type |-> "ReadResponse", seq |-> m.body.seq])
             f == Follower(m.from, FollowerIn(n, m).forwarded)
  <2>1. /\ EndAsFollower(n, m, VoteIn(n, m), f, {e}, {}) /\ f.kind = "follower"
        /\ e.body.type = "ReadResponse"
    BY <1>7 DEF HandleRead, FollowAndRespond, Follower, Env
  <2> HIDE DEF e, f
  <2>2. Silent({e})
    BY <2>1 DEF Silent
  <2> QED BY <1>2, <1>7, <2>1, <2>2 DEF HandleRead
<1>8. FollowerIn(n, m).kind = "follower"
    BY DEF FollowerIn, Follower
<1>9. CASE HandleCampaign(n, m)
  <2> DEFINE v == IF GrantsVote(n, m) THEN m.from ELSE VoteIn(n, m)
             e == Env(n, m.from, m.term, [type |-> "CampaignResponse", vote |-> GrantsVote(n, m)])
  <2>1. /\ EndAsFollower(n, m, v, FollowerIn(n, m), {e}, {})
        /\ e.body.type = "CampaignResponse"
    BY <1>9 DEF HandleCampaign, Env
  <2> HIDE DEF v, e
  <2>2. Silent({e})
    BY <2>1 DEF Silent
  <2> QED BY <1>2, <1>8, <1>9, <2>1, <2>2 DEF HandleCampaign
<1>10. CASE HandleClientResponse(n, m)
  <2>1. PICK f, replies :
          EndAsFollower(n, m, VoteIn(n, m), Follower(m.from, f), {}, replies)
    BY <1>10 DEF HandleClientResponse
  <2>2. Follower(m.from, f).kind = "follower" /\ Silent({})
    BY DEF Follower, Silent
  <2> QED BY <1>2, <1>10, <2>1, <2>2 DEF HandleClientResponse
<1>11. CASE IgnoreVote(n, m)
  <2>1. Silent({})
    BY DEF Silent
  <2> QED BY <1>2, <1>8, <1>11, <2>1 DEF IgnoreVote
<1> QED BY <1>5, <1>6, <1>7, <1>9, <1>10, <1>11

-----------------------------------------------------------------------------
(* Leaders.                                                                *)

\* quorum_value: a quorum has reached it.
LEMMA QuorumHasReached ==
    ASSUME NEW f \in [Node -> Nat], NEW b \in Nat, \A p \in Node : f[p] <= b
    PROVE  QuorumValue(f) \in Nat /\ IsQuorum({p \in Node : f[p] >= QuorumValue(f)})
<1>1. PICK S, V :
        /\ V = {f[p] : p \in Node}
        /\ S = {v \in V : IsQuorum({p \in Node : f[p] >= v})}
    OBVIOUS
<1>2. Cardinality(Node) \in Nat /\ Cardinality(Node) > 1 /\ IsQuorum(Node)
    BY NodeAssumption, FS_CardinalityType DEF IsQuorum
<1>3. V \subseteq Nat /\ V # {} /\ V \subseteq 0..b
  <2>1. Node # {}
    <3> SUFFICES ASSUME Node = {} PROVE FALSE
      OBVIOUS
    <3>1. Cardinality(Node) = 0
      BY FS_EmptySet
    <3> QED BY <1>2, <3>1
  <2> QED BY <1>1, <2>1
<1>4. PICK m \in V : \A v \in V : m <= v
    BY <1>3, HasMinimum
<1>5. m \in S
  <2>1. {p \in Node : f[p] >= m} = Node
    BY <1>1, <1>3, <1>4
  <2> QED BY <1>1, <1>2, <2>1
<1>6. PICK x \in S : \A v \in S : v <= x
  <2>1. S \subseteq 0..b /\ S # {}
    BY <1>1, <1>3, <1>5
  <2> QED BY <2>1, HasMaximum
<1>7. Max(S) \in S
  <2>1. \A v \in S : x >= v
    BY <1>1, <1>3, <1>6
  <2> QED BY <2>1 DEF Max
<1>8. QuorumValue(f) = Max(S)
    BY <1>1 DEF QuorumValue
<1> QED BY <1>1, <1>3, <1>7, <1>8

\* What a leader commits by counting is an entry of its term that a quorum has.
LEMMA NextCommitReached ==
    ASSUME TypeInv, NEW n \in Node, role[n].kind = "leader",
           NEW progress \in [Peers(n) -> Progress], \A p \in Peers(n) : InRange(log[n], progress[p]),
           NextCommit(n, progress) # commit[n]
    PROVE  /\ Has(log[n], NextCommit(n, progress), term[n])
           /\ \E Q \in SUBSET Node :
                 IsQuorum(Q) /\ \A a \in Q \ {n} : progress[a].match >= NextCommit(n, progress)
<1>1. PICK f, q :
        /\ f = [p \in Node |-> IF p = n THEN Len(log[n]) ELSE progress[p].match]
        /\ q = QuorumValue(f)
    OBVIOUS
<1>2. Len(log[n]) \in Nat /\ term[n] \in Nat /\ term[n] > 0
    BY LeaderFields
<1>3. f \in [Node -> Nat] /\ \A p \in Node : f[p] <= Len(log[n])
  <2>1. ASSUME NEW p \in Node, p # n
        PROVE  progress[p].match \in Nat /\ progress[p].match <= Len(log[n])
    <3>1. progress[p] \in Progress /\ InRange(log[n], progress[p])
      BY <2>1 DEF Peers
    <3> QED BY <1>2, <3>1 DEF Progress, InRange
  <2> QED BY <1>1, <1>2, <2>1
<1>4. q \in Nat /\ IsQuorum({p \in Node : f[p] >= q})
    BY <1>1, <1>2, <1>3, QuorumHasReached
<1>5. NextCommit(n, progress) = q /\ TermAt(log[n], q) = term[n]
    BY <1>1 DEF NextCommit
<1>6. Has(log[n], q, term[n])
    BY <1>2, <1>5 DEF TermAt, Has
<1>7. PICK Q \in SUBSET Node : Q = {p \in Node : f[p] >= q}
    OBVIOUS
<1>8. IsQuorum(Q) /\ \A a \in Q \ {n} : progress[a].match >= q
    BY <1>1, <1>4, <1>7
<1> QED BY <1>5, <1>6, <1>8

\* The updates of Progress and the match index.
LEMMA ProgressMatch ==
    ASSUME NEW pr \in Progress, NEW i
    PROVE  /\ Advance(pr, i).match = pr.match \/ Advance(pr, i).match = i
           /\ AdvanceRead(pr, i).match = pr.match
           /\ RegressNext(pr, i).match = pr.match
BY DEF Progress, Advance, AdvanceRead, RegressNext

\* maybe_send_append keeps the match index, and sends nothing but appends.
LEMMA MaybeSendAppendKeeps ==
    ASSUME NEW l, NEW pr \in Progress, NEW probe \in BOOLEAN, NEW send,
           send = MaybeSendAppend(l, pr, probe)
    PROVE  /\ send.progress.match = pr.match
           /\ \A b \in send.bodies : b.type = "Append"
<1>1. send.progress.match = pr.match
    BY DEF MaybeSendAppend, Progress
<1>2. \A b \in send.bodies : b.type = "Append"
    BY DEF MaybeSendAppend
<1> QED BY <1>1, <1>2

\* A leader that receives a message.
LEMMA LeaderCommitStep ==
    ASSUME TypeInv, TypeInv', NEW n \in Node, LogStep(n), NEW m \in msgs, StepsAsLeader(n, m),
           NEW progress, NEW served, NEW sent, Silent(sent),
           EndAsLeader(n, m, progress, served, sent) \/ EndWithCommit(n, m, progress, served, sent),
           \A p \in Peers(n) :
              \/ progress[p].match = role[n].progress[p].match
              \/ p = m.from /\ m \in Responses /\ progress[p].match = m.body.matchIndex
    PROVE  CommitStep(n)
<1>1. role[n].kind = "leader" /\ m.term = term[n]
    BY DEF StepsAsLeader
<1>2. /\ n \in DOMAIN role /\ DOMAIN commit = Node /\ DOMAIN applied = Node
      /\ commit[n] \in Nat /\ applied[n] \in Nat /\ commit'[n] \in Nat /\ applied'[n] \in Nat
    BY DEF TypeInv, TypeOK
<1>3. PICK replies, r :
        /\ Send(msgs \ {m}, sent \cup ReplyMsgs(n, term[n], replies))
        /\ role' = [role EXCEPT ![n] = r] /\ r.kind = "leader" /\ r.progress = progress
        /\ UNCHANGED <<term, log>>
  <2>1. PICK replies, acked, late :
          /\ Send(msgs \ {m}, sent \cup ReplyMsgs(n, term[n], replies))
          /\ role' = [role EXCEPT ![n] = LeaderAfter(n, progress, acked, late)]
          /\ UNCHANGED <<term, log>>
    BY DEF EndAsLeader, EndWithCommit
  <2>2. PICK r : r = LeaderAfter(n, progress, acked, late)
    OBVIOUS
  <2>3. r.kind = "leader" /\ r.progress = progress
    BY <2>2 DEF LeaderAfter, Leader
  <2> QED BY <2>1, <2>2, <2>3
<1>4. role'[n] = r
    BY <1>2, <1>3
<1>5. \A p \in Peers(n) : Learns(n, p)
    BY <1>1, <1>3, <1>4 DEF Learns, IsLeader
<1>6. \A s \in msgs' \ msgs : Sends(n, s)
  <2>1. Silent(sent \cup ReplyMsgs(n, term[n], replies))
    BY SilentMsgs
  <2>2. msgs' \subseteq msgs \cup (sent \cup ReplyMsgs(n, term[n], replies))
    BY <1>3, SendSubset
  <2> QED BY <2>1, <2>2, SilentSends
<1>7. CASE EndAsLeader(n, m, progress, served, sent)
    BY <1>2, <1>5, <1>6, <1>7 DEF EndAsLeader, CommitStep
<1>8. CASE EndWithCommit(n, m, progress, served, sent)
  <2>1. PICK c : c = NextCommit(n, progress)
    OBVIOUS
  <2>2. /\ commit' = [commit EXCEPT ![n] = c]
        /\ applied' = [applied EXCEPT ![n] = IF c > commit[n] THEN Max2(applied[n], c) ELSE applied[n]]
    BY <1>8, <2>1 DEF EndWithCommit
  <2>3. commit'[n] = c /\ \A a \in Node \ {n} : commit'[a] = commit[a] /\ applied'[a] = applied[a]
    BY <1>2, <2>2
  <2>4. applied'[n] <= applied[n] \/ applied'[n] <= commit'[n]
    BY <1>2, <2>2, <2>3 DEF Max2
  <2>5. commit'[n] <= commit[n] \/ CommitsByCounting(n)
    <3>1. CASE c = commit[n]
      BY <1>2, <2>3, <3>1
    <3>2. CASE c # commit[n]
      <4>1. progress \in [Peers(n) -> Progress]
        BY <1>3, <1>4, LeaderFields, RoleFields DEF TypeInv, TypeOK, LeaderRole
      <4>2. \A p \in Peers(n) : InRange(log[n], progress[p])
        BY <1>3, <1>4 DEF LogStep, InRange
      <4>3. /\ Has(log[n], c, term[n])
            /\ \E Q \in SUBSET Node : IsQuorum(Q) /\ \A a \in Q \ {n} : progress[a].match >= c
        BY <1>1, <2>1, <3>2, <4>1, <4>2, NextCommitReached
      <4> QED BY <1>1, <1>3, <1>4, <2>3, <4>3 DEF CommitsByCounting, IsLeader
    <3> QED BY <3>1, <3>2
  <2> QED BY <1>5, <1>6, <2>3, <2>4, <2>5 DEF CommitStep
<1> QED BY <1>7, <1>8

\* Leaders.
LEMMA LeaderCommitSteps ==
    ASSUME TypeInv, TypeInv', NEW n \in Node, LogStep(n), NEW m \in msgs,
           \/ HandleHeartbeatResponse(n, m) \/ HandleAppendResponse(n, m)
           \/ HandleAppendReject(n, m) \/ HandleReadResponse(n, m)
    PROVE  CommitStep(n)
<1> DEFINE l == log[n]
           t == term[n]
           p == m.from
           old == role[n].progress
<1>1. StepsAsLeader(n, m) /\ role[n].kind = "leader" /\ p \in Peers(n)
    BY DEF HandleHeartbeatResponse, HandleAppendResponse, HandleAppendReject,
           HandleReadResponse, StepsAsLeader, TypeInv, TypeOK, Envelope, Peers
<1>2. old \in [Peers(n) -> Progress] /\ old[p] \in Progress /\ m.body \in Body
    BY <1>1, LeaderFields DEF TypeInv, TypeOK, Envelope
<1>3. ASSUME NEW pr, NEW served, NEW sent, Silent(sent), NEW new, new = [old EXCEPT ![p] = pr],
             \/ pr.match = old[p].match
             \/ m \in Responses /\ pr.match = m.body.matchIndex,
             EndAsLeader(n, m, new, served, sent) \/ EndWithCommit(n, m, new, served, sent)
      PROVE  CommitStep(n)
  <2>1. \A q \in Peers(n) :
          \/ new[q].match = role[n].progress[q].match
          \/ q = m.from /\ m \in Responses /\ new[q].match = m.body.matchIndex
    BY <1>2, <1>3
  <2> QED BY <1>1, <1>3, <2>1, LeaderCommitStep
<1>4. CASE HandleHeartbeatResponse(n, m)
  <2>1. PICK a : a = AdvanceRead(old[p], m.body.readSeq)
    OBVIOUS
  <2>2. PICK read : read = [old EXCEPT ![p] = a]
    OBVIOUS
  <2>3. m.body.matchIndex \in Nat /\ m.body.readSeq \in Nat /\ m \in Responses
    BY <1>2, <1>4, BodyFields DEF HandleHeartbeatResponse, Responses
  <2>4. a \in Progress /\ a.match = old[p].match /\ read[p] = a
    BY <1>1, <1>2, <2>1, <2>2, <2>3, ProgressType, ProgressMatch
  <2>5. PICK back : back = RegressNext(a, Len(l))
    OBVIOUS
  <2>6. back \in Progress /\ back.match = old[p].match
    BY <1>1, <2>4, <2>5, LeaderFields, ProgressType, ProgressMatch
  <2>7. PICK probe, adv : probe = MaybeSendAppend(l, back, TRUE) /\ adv = Advance(a, m.body.matchIndex)
    OBVIOUS
  <2>8. /\ probe.progress.match = old[p].match
        /\ adv.match = old[p].match \/ adv.match = m.body.matchIndex
        /\ Silent({Env(n, p, t, b) : b \in probe.bodies})
    <3>1. PICK flag \in BOOLEAN : flag = TRUE
      OBVIOUS
    <3>a. probe = MaybeSendAppend(l, back, flag)
      BY <2>7, <3>1
    <3>2. probe.progress.match = back.match /\ \A b \in probe.bodies : b.type = "Append"
      BY <2>6, <3>a, MaybeSendAppendKeeps
    <3>3. Silent({Env(n, p, t, b) : b \in probe.bodies})
      BY <3>2 DEF Silent, Env
    <3> QED BY <2>4, <2>6, <2>7, <3>2, <3>3, ProgressMatch
  <2>9. PICK served :
          \/ EndAsLeader(n, m, [read EXCEPT ![p] = probe.progress], served,
                         {Env(n, p, t, b) : b \in probe.bodies})
          \/ EndAsLeader(n, m, read, served, {})
          \/ EndWithCommit(n, m, [read EXCEPT ![p] = adv], served, {})
    BY <1>4, <2>1, <2>2, <2>4, <2>5, <2>7 DEF HandleHeartbeatResponse
  <2>10. /\ [read EXCEPT ![p] = probe.progress] = [old EXCEPT ![p] = probe.progress]
         /\ [read EXCEPT ![p] = adv] = [old EXCEPT ![p] = adv]
    BY <1>2, <2>2
  <2>11. Silent({})
    BY DEF Silent
  <2> QED BY <1>3, <2>2, <2>3, <2>4, <2>8, <2>9, <2>10, <2>11
<1>5. CASE HandleAppendResponse(n, m)
  <2>1. PICK adv : adv = Advance(old[p], m.body.matchIndex)
    OBVIOUS
  <2>2. m.body.matchIndex \in Nat /\ m \in Responses
    BY <1>2, <1>5, BodyFields DEF HandleAppendResponse, Responses
  <2>3. adv \in Progress /\ (adv.match = old[p].match \/ adv.match = m.body.matchIndex)
    BY <1>2, <2>1, <2>2, ProgressType, ProgressMatch
  <2>4. PICK send : send = MaybeSendAppend(l, adv, FALSE)
    OBVIOUS
  <2>5. send.progress.match = adv.match /\ \A b \in send.bodies : b.type = "Append"
    <3>1. PICK probe \in BOOLEAN : probe = FALSE
      OBVIOUS
    <3>2. adv \in Progress /\ send = MaybeSendAppend(l, adv, probe)
      BY <2>3, <2>4, <3>1
    <3> QED BY <3>2, MaybeSendAppendKeeps
  <2>6. PICK new, sent : /\ new = [old EXCEPT ![p] = send.progress]
                         /\ sent = {Env(n, p, t, b) : b \in send.bodies}
    OBVIOUS
  <2>7. EndWithCommit(n, m, new, {}, sent) \/ EndAsLeader(n, m, new, {}, sent)
    BY <1>5, <2>1, <2>4, <2>6 DEF HandleAppendResponse
  <2>8. Silent(sent)
    BY <2>5, <2>6 DEF Silent, Env
  <2> QED BY <1>3, <2>2, <2>3, <2>5, <2>6, <2>7, <2>8
<1>6. CASE HandleAppendReject(n, m)
  <2>1. PICK back : back = RegressNext(old[p], m.body.rejectIndex)
    OBVIOUS
  <2>2. m.body.rejectIndex \in Nat
    BY <1>2, <1>6, BodyFields DEF HandleAppendReject
  <2>3. back \in Progress /\ back.match = old[p].match
    BY <1>2, <2>1, <2>2, ProgressType, ProgressMatch
  <2>4. PICK send : send = MaybeSendAppend(l, back, TRUE)
    OBVIOUS
  <2>5. send.progress.match = back.match /\ \A b \in send.bodies : b.type = "Append"
    <3>1. PICK probe \in BOOLEAN : probe = TRUE
      OBVIOUS
    <3>2. back \in Progress /\ send = MaybeSendAppend(l, back, probe)
      BY <2>3, <2>4, <3>1
    <3> QED BY <3>2, MaybeSendAppendKeeps
  <2>6. PICK new, sent : /\ new = [old EXCEPT ![p] = send.progress]
                         /\ sent = {Env(n, p, t, b) : b \in send.bodies}
    OBVIOUS
  <2>7. EndAsLeader(n, m, new, {}, sent)
    BY <1>6, <2>1, <2>4, <2>6 DEF HandleAppendReject
  <2>8. Silent(sent)
    BY <2>5, <2>6 DEF Silent, Env
  <2> QED BY <1>3, <2>3, <2>5, <2>6, <2>7, <2>8
<1>7. CASE HandleReadResponse(n, m)
  <2>1. PICK a, new : a = AdvanceRead(old[p], m.body.seq) /\ new = [old EXCEPT ![p] = a]
    OBVIOUS
  <2>2. a.match = old[p].match
    BY <1>2, <2>1, ProgressMatch
  <2>3. PICK served : EndAsLeader(n, m, new, served, {})
    BY <1>7, <2>1 DEF HandleReadResponse
  <2>4. Silent({})
    BY DEF Silent
  <2> QED BY <1>3, <2>1, <2>2, <2>3, <2>4
<1> QED BY <1>4, <1>5, <1>6, <1>7

-----------------------------------------------------------------------------
(* Elections, requests and failures.                                       *)

\* propose keeps the match indexes.
LEMMA ProposeMatch ==
    ASSUME NEW n, NEW l, NEW progress \in [Peers(n) -> Progress], NEW p \in Peers(n)
    PROVE  Propose(l, progress)[p].progress.match = progress[p].match
<1>1. progress[p] \in Progress
    OBVIOUS
<1>a. PICK probe \in BOOLEAN : probe = FALSE
    OBVIOUS
<1>b. PICK send : send = MaybeSendAppend(l, progress[p], probe)
    OBVIOUS
<1>2. probe = FALSE /\ send = MaybeSendAppend(l, progress[p], probe)
    BY <1>a, <1>b
<1>3. send.progress.match = progress[p].match
    BY <1>1, <1>2, MaybeSendAppendKeeps
<1>4. \/ Propose(l, progress)[p] = send
      \/ Propose(l, progress)[p] = [progress |-> progress[p], bodies |-> {}]
    BY <1>2 DEF Propose
<1> QED BY <1>3, <1>4

\* A step that keeps commit and applied indexes, and what leaders know of peers.
LEMMA QuietCommitStep ==
    ASSUME TypeInv, NEW n \in Node, UNCHANGED <<commit, applied>>,
           role'[n].kind = "leader" => \A p \in Peers(n) :
              \/ role'[n].progress[p].match = 0
              \/ IsLeader(n) /\ role'[n].progress[p].match = role[n].progress[p].match,
           NEW sent, msgs' \subseteq msgs \cup sent, \A s \in sent : Sends(n, s)
    PROVE  CommitStep(n)
<1>1. commit[n] \in Nat /\ applied[n] \in Nat
    BY DEF TypeInv, TypeOK
<1>2. commit'[n] <= commit[n] /\ applied'[n] <= applied[n]
    BY <1>1
<1> QED BY <1>2, PlainCommitStep

\* Timeouts, counted and refused votes, new leaders.
LEMMA ElectionCommitSteps ==
    ASSUME TypeInv, NEW n \in Node,
           \/ FollowerTimeout(n) \/ CandidateTimeout(n) \/ HeartbeatTick(n)
           \/ \E m \in msgs : RefuseVote(n, m) \/ RecordVote(n, m) \/ BecomeLeader(n, m)
                                \/ Ignore(n, m)
    PROVE  CommitStep(n)
<1>1. /\ n \in DOMAIN term /\ n \in DOMAIN role /\ n \in DOMAIN log /\ n \in DOMAIN applied
      /\ term[n] \in Nat /\ log[n] \in Log /\ Len(log[n]) \in Nat
      /\ commit[n] \in Nat /\ applied[n] \in Nat
    BY LenProperties DEF TypeInv, TypeOK, Log
<1>2. CASE FollowerTimeout(n) \/ CandidateTimeout(n)
  <2>1. PICK replies : Campaign(n, replies)
    BY <1>2 DEF FollowerTimeout, CandidateTimeout
  <2>2. /\ term'[n] = term[n] + 1 /\ role'[n].kind = "candidate" /\ log' = log /\ commit' = commit
    BY <1>1, <2>1 DEF Campaign, Candidate
  <2>3. PICK b :
          /\ b.type = "Campaign" /\ b.lastIndex = Len(log[n]) /\ b.lastTerm = LastTerm(log[n])
          /\ Send(msgs, Broadcast(n, term[n] + 1, b))
    BY <2>1 DEF Campaign
  <2>4. \A m \in Broadcast(n, term[n] + 1, b) : Sends(n, m)
    BY <2>2, <2>3 DEF Broadcast, Env, Sends
  <2>5. msgs' \subseteq msgs \cup Broadcast(n, term[n] + 1, b)
    BY <2>3, SendSubset
  <2>6. /\ \A a \in Node \ {n} : commit'[a] = commit[a] /\ applied'[a] = applied[a]
        /\ commit'[n] <= commit[n] /\ (applied'[n] <= applied[n] \/ applied'[n] <= commit[n])
    BY <1>1, <1>2, <2>2 DEF FollowerTimeout, CandidateTimeout, Max2, TypeInv, TypeOK
  <2> QED BY <2>2, <2>4, <2>5, <2>6, PlainCommitStep
<1>3. CASE HeartbeatTick(n)
  <2>1. PICK b :
          /\ b.type = "Heartbeat" /\ b.lastIndex = Len(log[n]) /\ b.commitIndex = commit[n]
          /\ Send(msgs, Broadcast(n, term[n], b))
    BY <1>3 DEF HeartbeatTick, HeartbeatBody
  <2>2. UNCHANGED <<term, log, commit, applied, role>> /\ role[n].kind = "leader"
    BY <1>3 DEF HeartbeatTick
  <2>3. \A m \in Broadcast(n, term[n], b) : Sends(n, m)
    BY <2>1, <2>2 DEF Broadcast, Env, Sends
  <2>4. msgs' \subseteq msgs \cup Broadcast(n, term[n], b)
    BY <2>1, SendSubset
  <2> QED BY <2>2, <2>3, <2>4, QuietCommitStep DEF IsLeader
<1>4. ASSUME NEW m \in msgs, RefuseVote(n, m) PROVE CommitStep(n)
  <2> DEFINE e == Env(n, m.from, m.term, [type |-> "CampaignResponse", vote |-> FALSE])
  <2>1. Silent({e})
    BY DEF Env, Silent
  <2>2. msgs' \subseteq msgs \cup {e} /\ UNCHANGED <<commit, applied, role>>
    BY <1>4, SendSubset DEF RefuseVote
  <2> HIDE DEF e
  <2> QED BY <2>1, <2>2, SilentSends, QuietCommitStep DEF IsLeader
<1>5. ASSUME NEW m \in msgs, Ignore(n, m) PROVE CommitStep(n)
  <2>1. PICK sent : sent = {} /\ Send(msgs \ {m}, sent) /\ UNCHANGED <<commit, applied, role>>
    BY <1>5 DEF Ignore
  <2>2. msgs' \subseteq msgs \cup sent
    BY <2>1, SendSubset
  <2> QED BY <2>1, <2>2, QuietCommitStep DEF IsLeader
<1>6. ASSUME NEW m \in msgs, RecordVote(n, m) PROVE CommitStep(n)
  <2>1. PICK sent : sent = {} /\ Send(msgs \ {m}, sent) /\ UNCHANGED <<commit, applied>>
    BY <1>6 DEF RecordVote
  <2>2. role'[n].kind = "candidate"
    BY <1>1, <1>6 DEF RecordVote, Candidate
  <2>3. msgs' \subseteq msgs \cup sent
    BY <2>1, SendSubset
  <2> QED BY <2>1, <2>2, <2>3, QuietCommitStep
<1>7. ASSUME NEW m \in msgs, BecomeLeader(n, m) PROVE CommitStep(n)
  <2> DEFINE l == Append(log[n], [term |-> term[n], command |-> Noop])
             new == [p \in Peers(n) |-> [match |-> 0, next |-> Len(log[n]) + 1,
                                         readSeq |-> 0]]
             out == Propose(l, new)
             hb == HeartbeatBody(l, commit[n], 0)
             sent == ProposalMsgs(n, term[n], out) \cup Broadcast(n, term[n], hb)
  <2>1. /\ role' = [role EXCEPT ![n] = Leader([p \in Peers(n) |-> out[p].progress], {}, {}, 0)]
        /\ log' = [log EXCEPT ![n] = l] /\ Send(msgs \ {m}, sent)
        /\ UNCHANGED <<term, commit, applied>>
    BY <1>7 DEF BecomeLeader
  <2> HIDE DEF l
  <2>2. new \in [Peers(n) -> Progress]
    BY <1>1 DEF Progress
  <2>3. \A p \in Peers(n) : new[p].match = 0
    OBVIOUS
  <2> HIDE DEF new
  <2>4. \A p \in Peers(n) : out[p].progress.match = 0
    BY <2>2, <2>3, ProposeMatch
  <2>5. Silent(ProposalMsgs(n, term[n], out))
    BY SilentMsgs
  <2> HIDE DEF out
  <2>6. log'[n] = l /\ role'[n].kind = "leader" /\ \A p \in Peers(n) : role'[n].progress[p].match = 0
    BY <1>1, <2>1, <2>4 DEF Leader
  <2>7. \A s \in Broadcast(n, term[n], hb) : Sends(n, s)
    BY <2>1, <2>6 DEF Broadcast, Env, Sends, HeartbeatBody
  <2>8. \A s \in sent : Sends(n, s)
    BY <2>5, <2>7, SilentSends
  <2>9. msgs' \subseteq msgs \cup sent
    BY <2>1, SendSubset
  <2> HIDE DEF sent
  <2> QED BY <2>1, <2>6, <2>8, <2>9, QuietCommitStep
<1> QED BY <1>2, <1>3, <1>4, <1>5, <1>6, <1>7

\* Client requests.
LEMMA RequestCommitSteps ==
    ASSUME TypeInv, NEW n \in Node, NEW from, NEW id, NEW cl, NEW rest,
           rest \subseteq msgs, StepRequest(n, from, id, cl, rest)
    PROVE  CommitStep(n)
<1>1. UNCHANGED <<commit, applied>> /\ n \in DOMAIN role
    BY DEF StepRequest, TypeInv, TypeOK
<1>2. ASSUME NEW sent, Silent(sent), Send(rest, sent),
             role'[n].kind = "leader" => \A p \in Peers(n) :
                IsLeader(n) /\ role'[n].progress[p].match = role[n].progress[p].match
      PROVE  CommitStep(n)
  <2>1. msgs' \subseteq msgs \cup sent
    BY <1>2, SendSubset
  <2> QED BY <1>1, <1>2, <2>1, SilentSends, QuietCommitStep
<1>3. CASE AbortRequest(n, from, id, cl, rest) \/ ServeStatus(n, from, id, cl, rest)
  <2>1. PICK R : Send(rest, ReplyMsgs(n, term[n], R)) /\ role' = role
    BY <1>3 DEF AbortRequest, ServeStatus
  <2>2. Silent(ReplyMsgs(n, term[n], R))
    BY SilentMsgs
  <2> QED BY <1>2, <2>1, <2>2 DEF IsLeader
<1>4. CASE ForwardRequest(n, from, id, cl, rest)
  <2> DEFINE e == Env(n, role[n].leader, term[n], [type |-> "ClientRequest", id |-> id])
  <2>1. role'[n].kind = "follower" /\ Send(rest, {e})
    BY <1>1, <1>4 DEF ForwardRequest, Follower
  <2>2. Silent({e})
    BY DEF Env, Silent
  <2> HIDE DEF e
  <2> QED BY <1>2, <2>1, <2>2
<1>5. CASE ProposeWrite(n, from, id, cl, rest)
  <2> DEFINE l == Append(log[n], [term |-> term[n], command |-> id])
             out == Propose(l, role[n].progress)
             sent == ProposalMsgs(n, term[n], out)
  <2>1. PICK writes :
          /\ role' = [role EXCEPT ![n] = Leader([p \in Peers(n) |-> out[p].progress],
                                               writes, role[n].reads, role[n].readSeq)]
          /\ Send(rest, sent) /\ role[n].kind = "leader"
    BY <1>5 DEF ProposeWrite
  <2> HIDE DEF l
  <2>2. role[n].progress \in [Peers(n) -> Progress]
    BY <2>1, LeaderFields
  <2>3. \A p \in Peers(n) : out[p].progress.match = role[n].progress[p].match
    BY <2>2, ProposeMatch
  <2>4. Silent(sent)
    BY SilentMsgs
  <2> HIDE DEF out, sent
  <2>5. \A p \in Peers(n) :
          IsLeader(n) /\ role'[n].progress[p].match = role[n].progress[p].match
    BY <1>1, <2>1, <2>3 DEF Leader, IsLeader
  <2> QED BY <1>2, <2>1, <2>4, <2>5
<1>6. CASE QueueRead(n, from, id, cl, rest)
  <2>1. PICK reads, seq :
          /\ Send(rest, Broadcast(n, term[n], [type |-> "Read", seq |-> seq]))
          /\ role' = [role EXCEPT ![n] = Leader(role[n].progress, role[n].writes, reads, seq)]
          /\ role[n].kind = "leader"
    BY <1>6 DEF QueueRead
  <2> DEFINE b == [type |-> "Read", seq |-> seq]
  <2>b. b.type = "Read"
    OBVIOUS
  <2>2. Silent(Broadcast(n, term[n], b))
    BY <2>b, SilentMsgs
  <2>3. \A p \in Peers(n) :
          IsLeader(n) /\ role'[n].progress[p].match = role[n].progress[p].match
    BY <1>1, <2>1 DEF Leader, IsLeader
  <2> QED BY <1>2, <2>1, <2>2, <2>3
<1> QED BY <1>3, <1>4, <1>5, <1>6 DEF StepRequest

\* Requests, panics and restarts.
LEMMA OtherCommitSteps ==
    ASSUME TypeInv, NEW n \in Node,
           \/ Restart(n) \/ \E id \in Request : SubmitRequest(n, id)
           \/ \E m \in msgs : HandleClientRequest(n, m) \/ Panic(n, m)
    PROVE  CommitStep(n)
<1>1. /\ n \in DOMAIN role /\ n \in DOMAIN commit /\ n \in DOMAIN applied
      /\ commit[n] \in Nat /\ applied[n] \in Nat
    BY DEF TypeInv, TypeOK
<1>2. CASE Restart(n)
  <2>1. PICK c \in 0..commit[n], a \in 0..applied[n] :
          /\ commit' = [commit EXCEPT ![n] = c]
          /\ applied' = [applied EXCEPT ![n] = Max2(a, c)]
    BY <1>2 DEF Restart
  <2>2. /\ \A b \in Node \ {n} : commit'[b] = commit[b] /\ applied'[b] = applied[b]
        /\ commit'[n] <= commit[n] /\ (applied'[n] <= applied[n] \/ applied'[n] <= commit[n])
    BY <1>1, <2>1 DEF Max2
  <2>3. role'[n].kind = "follower" /\ msgs' = msgs
    BY <1>1, <1>2 DEF Restart, Follower
  <2> QED BY <1>1, <2>2, <2>3 DEF CommitStep
<1>3. ASSUME NEW id \in Request, SubmitRequest(n, id) PROVE CommitStep(n)
    BY <1>3, RequestCommitSteps DEF SubmitRequest
<1>4. ASSUME NEW m \in msgs, HandleClientRequest(n, m) PROVE CommitStep(n)
  <2>1. msgs \ {m} \subseteq msgs
    OBVIOUS
  <2> QED BY <1>4, <2>1, RequestCommitSteps DEF HandleClientRequest
<1>5. ASSUME NEW m \in msgs, Panic(n, m) PROVE CommitStep(n)
  <2>1. PICK sent : sent = {} /\ Send(msgs \ {m}, sent) /\ UNCHANGED <<commit, applied>>
    BY <1>5 DEF Panic
  <2>2. role'[n].kind = "down" /\ msgs' \subseteq msgs \cup sent
    BY <1>1, <1>5, <2>1, SendSubset DEF Panic, Down
  <2> QED BY <2>1, <2>2, QuietCommitStep
<1> QED BY <1>2, <1>3, <1>4, <1>5

\* Every step of a node is one of the kind described above.
LEMMA StepIsNodeStep ==
    ASSUME RaftInv, TypeInv', NEW n \in Node, StepOf(n)
    PROVE  NodeStep(n)
<1>1. ElectionStep(n)
    BY StepIsElectionStep DEF RaftInv
<1>2. LogStep(n)
    BY StepIsLogStep DEF RaftInv, MatchingInv
<1>3. CommitStep(n)
    BY <1>2, FollowerCommitSteps, LeaderCommitSteps, ElectionCommitSteps, OtherCommitSteps
    DEF StepOf, Receive, RaftInv
<1> QED BY <1>1, <1>2, <1>3 DEF NodeStep

-----------------------------------------------------------------------------
(* The invariant, and what it says of logs and state machines.             *)

\* A step that changes nothing is of this kind too.
LEMMA StutterIsNodeStep ==
    ASSUME RaftInv, NEW n \in Node, UNCHANGED vars
    PROVE  NodeStep(n)
<1>1. /\ term[n] \in Nat /\ commit[n] \in Nat /\ applied[n] \in Nat
    BY DEF RaftInv, TypeInv, TypeOK
<1>2. /\ UNCHANGED <<term, vote, role, log, commit, applied, msgs>>
    BY DEF vars
<1>3. \A a, p \in Node, t \in Nat : Supports(a, p, t)' <=> Supports(a, p, t)
    BY <1>2 DEF Supports, VotedFor, Granted, Counted, IsGrant
<1>4. ElectionStep(n)
    BY <1>1, <1>2, <1>3 DEF ElectionStep
<1>5. LogStep(n)
    BY <1>1, <1>2 DEF LogStep, RaftInv, MatchingInv, LeaderState, IsLeader
<1>6. \A p \in Peers(n) : role'[n].kind = "leader" => Learns(n, p)
    BY <1>2 DEF Learns, IsLeader
<1>7. CommitStep(n)
    BY <1>1, <1>2, <1>6 DEF CommitStep
<1> QED BY <1>4, <1>5, <1>7 DEF NodeStep

\* The invariant holds initially: there are no entries and no messages.
LEMMA CommitInit ==
    ASSUME Init
    PROVE  CommitInv
<1>1. Links = {} /\ msgs = {}
    BY DEF Init, Links, Appends, LogLinks, LinksIn
<1>2. \A n \in Node : commit[n] = 0 /\ applied[n] = 0
    BY DEF Init
<1>3. CommitsAreChosen
    BY <1>1, <1>2 DEF CommitsAreChosen, Committed
<1> QED BY <1>1, <1>3 DEF CommitInv, EntriesAreSafe, MessagesAreTrue

\* Every step is one of some node, and keeps the invariant.
LEMMA NextIsNodeStep ==
    ASSUME RaftInv, RaftInv', [Next]_vars
    PROVE  \E n \in Node : NodeStep(n)
<1>1. CASE UNCHANGED vars
  <2>1. Node # {}
    BY NodeAssumption, FS_EmptySet
  <2> QED BY <1>1, <2>1, StutterIsNodeStep
<1>2. CASE Next
    BY <1>2, NextIsAStep, StepIsNodeStep DEF RaftInv
<1> QED BY <1>1, <1>2

\* Every step keeps what the earlier modules prove invariant.
LEMMA RaftInvNext ==
    ASSUME RaftInv, [Next]_vars
    PROVE  RaftInv'
BY TypeInvStep, ElectionInvNext, MatchingNext DEF RaftInv

\* Every step keeps the invariant.
LEMMA CommitNext ==
    ASSUME RaftInv, CommitInv, [Next]_vars
    PROVE  CommitInv'
<1>1. RaftInv'
    BY RaftInvNext
<1>2. PICK n \in Node : NodeStep(n)
    BY <1>1, NextIsNodeStep
<1> QED BY <1>1, <1>2, CommitInvStep

\* Logs that agree up to an index are the same up to it.
LEMMA AgreeingPrefixes ==
    ASSUME NEW l1 \in Log, NEW l2 \in Log, NEW c \in Nat, Agrees(l1, l2, c)
    PROVE  SubSeq(l1, 1, c) = SubSeq(l2, 1, c)
<1>1. Len(l1) \in Nat /\ Len(l2) \in Nat
    BY LenProperties DEF Log
<1> QED BY <1>1 DEF Agrees

\* A leader of a term has the entries that are chosen in it or before.
LEMMA LeaderHasChosen ==
    ASSUME RaftInv, NEW l \in Node, IsLeader(l), NEW j \in Nat, NEW u \in Nat, Chosen(j, u),
           u <= term[l]
    PROVE  Has(log[l], j, u)
<1>1. /\ term[l] \in Nat /\ log[l] \in Buildable /\ log[l] \in Log /\ Len(log[l]) \in Nat
    BY LogsAreBuildable, LenProperties DEF RaftInv, TypeInv, TypeOK, Log
<1>2. Protected(j, u) /\ \E x \in Links : x.index = j /\ x.entry.term = u
    BY ChosenExists
<1>3. CASE u = term[l]
    BY <1>2, <1>3, LeaderHas
<1>4. CASE u < term[l]
  <2>1. LastTerm(log[l]) = term[l]
    BY DEF RaftInv, MatchingInv, LeaderState
  <2>2. Len(log[l]) \in 1..Len(log[l]) /\ log[l][Len(log[l])].term > u
    BY <1>1, <1>4, <2>1 DEF LastTerm, TermAt
  <2> QED BY <1>1, <1>2, <2>2 DEF Protected
<1> QED BY <1>1, <1>3, <1>4

\* The invariant implies leader completeness.
LEMMA CommitImpliesCompleteness ==
    ASSUME RaftInv, CommitInv
    PROVE  LeaderCompleteness
<1> SUFFICES ASSUME NEW l \in Node, NEW n \in Node, IsLeader(l), term[l] >= term[n]
             PROVE  /\ commit[n] <= Len(log[l])
                    /\ SubSeq(log[n], 1, commit[n]) = SubSeq(log[l], 1, commit[n])
    BY DEF LeaderCompleteness
<1>1. /\ term[l] \in Nat /\ term[n] \in Nat /\ commit[n] \in Nat
      /\ log[l] \in Log /\ log[n] \in Log /\ Len(log[l]) \in Nat /\ Len(log[n]) \in Nat
      /\ log[l] \in Buildable
    BY LogsAreBuildable, LenProperties DEF RaftInv, TypeInv, TypeOK, Log
<1>2. CASE commit[n] = 0
    BY <1>1, <1>2 , AgreeingPrefixes DEF Agrees
<1>3. CASE commit[n] # 0
  <2>1. Committed(log[n], commit[n], term[n])
    BY DEF CommitInv, CommitsAreChosen
  <2>2. PICK j, u \in Nat :
          /\ commit[n] <= j /\ u <= term[n] /\ Chosen(j, u)
          /\ \A k \in Buildable : Has(k, j, u) => Agrees(log[n], k, commit[n])
    BY <1>3, <2>1 DEF Committed
  <2>3. Has(log[l], j, u)
    BY <1>1, <2>2, LeaderHasChosen
  <2>4. Agrees(log[n], log[l], commit[n])
    BY <1>1, <2>2, <2>3
  <2> QED BY <1>1, <2>4, AgreeingPrefixes DEF Agrees
<1> QED BY <1>2, <1>3

\* Some log has both of two chosen entries.
LEMMA ChosenTogether ==
    ASSUME RaftInv, NEW j1 \in Nat, NEW u1 \in Nat, NEW j2 \in Nat, NEW u2 \in Nat,
           Chosen(j1, u1), Chosen(j2, u2), u1 <= u2
    PROVE  \E k \in Buildable : Has(k, j1, u1) /\ Has(k, j2, u2)
<1>1. Protected(j1, u1)
    BY ChosenExists
<1>2. PICK k1 \in Buildable : Has(k1, j1, u1)
    BY ChosenExists
<1>3. PICK k2 \in Buildable : Has(k2, j2, u2)
    BY ChosenExists
<1>4. CASE u1 < u2
    BY <1>1, <1>3, <1>4 DEF Protected, Has
<1>5. CASE u1 = u2 /\ j1 <= j2
    BY <1>2, <1>3, <1>5, SameTermPrefix
<1>6. CASE u1 = u2 /\ j2 <= j1
    BY <1>2, <1>3, <1>6, SameTermPrefix
<1> QED BY <1>4, <1>5, <1>6

\* What is committed in two logs is the same in both.
LEMMA CommittedAgree ==
    ASSUME RaftInv, NEW l1 \in Log, NEW l2 \in Log, NEW c \in Nat, NEW t1 \in Nat, NEW t2 \in Nat,
           Committed(l1, c, t1), Committed(l2, c, t2)
    PROVE  Agrees(l1, l2, c)
<1>1. Len(l1) \in Nat /\ Len(l2) \in Nat
    BY LenProperties DEF Log
<1>2. CASE c = 0
    BY <1>1, <1>2 DEF Agrees
<1>3. CASE c # 0
  <2>1. PICK j1, u1 \in Nat :
          Chosen(j1, u1) /\ \A k \in Buildable : Has(k, j1, u1) => Agrees(l1, k, c)
    BY <1>3 DEF Committed
  <2>2. PICK j2, u2 \in Nat :
          Chosen(j2, u2) /\ \A k \in Buildable : Has(k, j2, u2) => Agrees(l2, k, c)
    BY <1>3 DEF Committed
  <2>3. PICK k \in Buildable : Has(k, j1, u1) /\ Has(k, j2, u2)
    <3>1. CASE u1 <= u2
      BY <2>1, <2>2, <3>1, ChosenTogether
    <3>2. CASE u2 <= u1
      BY <2>1, <2>2, <3>2, ChosenTogether
    <3> QED BY <3>1, <3>2
  <2>4. Agrees(l1, k, c) /\ Agrees(l2, k, c) /\ k \in Log
    BY <2>1, <2>2, <2>3 DEF Buildable
  <2>5. Agrees(k, l2, c)
    BY <2>4, AgreesFacts
  <2> QED BY <2>4, <2>5 DEF Agrees
<1> QED BY <1>2, <1>3

\* The invariant implies state machine safety.
LEMMA CommitImpliesSafety ==
    ASSUME RaftInv, CommitInv
    PROVE  StateMachineSafety
<1>1. \A n \in Node : /\ term[n] \in Nat /\ applied[n] \in Nat /\ log[n] \in Log
                      /\ Committed(log[n], applied[n], term[n])
    BY DEF RaftInv, TypeInv, TypeOK, CommitInv, CommitsAreChosen
<1> SUFFICES ASSUME NEW m \in Node, NEW n \in Node, NEW a \in Nat,
                    a <= applied[m], a <= applied[n]
             PROVE  /\ applied[n] <= Len(log[n])
                    /\ SubSeq(log[m], 1, a) = SubSeq(log[n], 1, a)
    BY <1>1 DEF StateMachineSafety, Min2
<1>2. applied[n] <= Len(log[n]) /\ Committed(log[n], a, term[n]) /\ Committed(log[m], a, term[m])
    BY <1>1, CommittedFacts
<1>3. Agrees(log[m], log[n], a)
    BY <1>1, <1>2, CommittedAgree
<1> QED BY <1>1, <1>2, <1>3, AgreeingPrefixes

\* No step changes what is committed, decreases a term or changes a vote in its term.
LEMMA StateKept ==
    ASSUME RaftInv, CommitInv, [Next]_vars, NEW a \in Node
    PROVE  /\ commit[a] <= Len(log'[a])
           /\ SubSeq(log'[a], 1, commit[a]) = SubSeq(log[a], 1, commit[a])
           /\ term'[a] >= term[a]
           /\ term'[a] = term[a] /\ vote[a] # NoNode => vote'[a] = vote[a]
<1>1. RaftInv'
    BY RaftInvNext
<1>2. PICK n \in Node : NodeStep(n)
    BY <1>1, NextIsNodeStep
<1>3. /\ term'[a] >= term[a] /\ commit[a] \in Nat /\ log[a] \in Log /\ log'[a] \in Log
      /\ Len(log[a]) \in Nat /\ a # n => log'[a] = log[a]
    BY <1>1, <1>2, StepTypes
<1>4. term'[a] = term[a] /\ vote[a] # NoNode => vote'[a] = vote[a]
    BY <1>2 DEF NodeStep, ElectionStep
<1>5. Committed(log[a], commit[a], term[a]) /\ term[a] \in Nat
    BY DEF CommitInv, CommitsAreChosen, RaftInv, TypeInv, TypeOK
<1>6. Agrees(log[a], log'[a], commit[a])
  <2>1. CASE a = n
    BY <1>1, <1>2, <1>3, <1>5, <2>1, KeepsCommitted
  <2>2. CASE a # n
    <3>1. commit[a] <= Len(log[a])
      BY <1>3, <1>5, CommittedFacts
    <3> QED BY <1>3, <2>2, <3>1 DEF Agrees
  <2> QED BY <2>1, <2>2
<1>7. commit[a] <= Len(log'[a])
    BY <1>6 DEF Agrees
<1>8. SubSeq(log[a], 1, commit[a]) = SubSeq(log'[a], 1, commit[a])
    BY <1>3, <1>6, AgreeingPrefixes
<1> QED BY <1>3, <1>4, <1>7, <1>8

\* The invariant holds in every behaviour.
LEMMA CommitInvHolds == Spec => [](RaftInv /\ CommitInv)
<1>1. Init => RaftInv /\ CommitInv
    BY TypeInvInit, ElectionInvInit, MatchingInit, CommitInit DEF RaftInv
<1>2. RaftInv /\ CommitInv /\ [Next]_vars => (RaftInv /\ CommitInv)'
    BY RaftInvNext, CommitNext
<1> QED BY <1>1, <1>2, PTL DEF Spec

\* In every behaviour, the leader of a term has everything that any node has
\* committed in that term or before (Candidate::step comparing logs, and
\* Leader::maybe_commit_and_apply committing only entries of its own term).
THEOREM LeadersAreComplete == Spec => []LeaderCompleteness
BY CommitInvHolds, CommitImpliesCompleteness, PTL

\* In every behaviour, all nodes have applied the same commands in the same order
\* (maybe_apply), also when they have started over from an older commit index.
THEOREM StateMachinesAgree == Spec => []StateMachineSafety
BY CommitInvHolds, CommitImpliesSafety, PTL

\* In every behaviour, committed entries are never changed or removed, terms never
\* decrease, and votes are kept in their term (Log::splice, Log::set_term_vote).
THEOREM StateIsKept == Spec => DurableStateIsKept
<1>1. RaftInv /\ CommitInv /\ [Next]_vars =>
        [\A n \in Node :
            /\ commit[n] <= Len(log'[n])
            /\ SubSeq(log'[n], 1, commit[n]) = SubSeq(log[n], 1, commit[n])
            /\ term'[n] >= term[n]
            /\ term'[n] = term[n] /\ vote[n] # NoNode => vote'[n] = vote[n]]_vars
    BY StateKept
<1> QED BY <1>1, CommitInvHolds, PTL DEF Spec, DurableStateIsKept
=============================================================================
