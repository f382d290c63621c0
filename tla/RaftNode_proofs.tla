--------------------------- MODULE RaftNode_proofs ---------------------------
(***************************************************************************)
(* What Node promises, for every cluster and every bound.                  *)
(*                                                                         *)
(* First its assertions: those that protect the log, the progress of peers *)
(* and the uniqueness of the leader never fail, also when nodes crash and  *)
(* forget their roles; the others do not fail while no node restarts.      *)
(*                                                                         *)
(* Then its clients: they are told one outcome of a request only, a write  *)
(* that was acknowledged stays in the logs of a quorum, and reads are      *)
(* linearizable.                                                           *)
(***************************************************************************)
EXTENDS RaftCommit_proofs

\* Somebody takes p for the leader of term t: p itself, the receiver of a message
\* or a follower.
LedBy(p, t) ==
    \/ IsLeader(p) /\ term[p] = t
    \/ \E m \in msgs : m.body.type \in LeaderTypes /\ m.from = p /\ m.term = t
    \/ \E n \in Node : role[n].kind = "follower" /\ role[n].leader = p /\ term[n] = t

\* All agree, and nobody else will be elected in the term of a node that follows
\* a leader.
LeadersAreKnown ==
    /\ \A p, q \in Node, t \in Nat : LedBy(p, t) /\ LedBy(q, t) => p = q
    /\ \A n \in Node : role[n].kind = "follower" /\ role[n].leader # NoNode => Owned(term[n])

\* What the assertions say of a message itself.
MessagesAreValid ==
    \A m \in msgs :
        /\ m.body.type = "Heartbeat" => m.body.commitIndex <= m.body.lastIndex
        /\ m.body.type = "Append" => m.body.baseIndex > 0 \/ m.body.entries # <<>>
        /\ m.body.type = "AppendResponse" => ~(m.body.matchIndex > 0 <=> m.body.rejectIndex > 0)

\* What they say of a response that reaches the leader of its term.
ResponsesAreInRange ==
    \A m \in msgs, n \in Node : IsLeader(n) /\ term[n] = m.term =>
        /\ m.body.type \in {"Heartbeat", "HeartbeatResponse"} => m.body.readSeq <= role[n].readSeq
        /\ m.body.type = "AppendResponse" => m.body.rejectIndex <= Len(log[n])

AssertInv == LeadersAreKnown /\ MessagesAreValid /\ ResponsesAreInRange /\ OnlyRestartPanics

-----------------------------------------------------------------------------
(* What a step of node n does to the leader it follows, to its read        *)
(* sequence number and to what is asserted of messages.                    *)

Tells(n, m) ==
    /\ m.body.type \in LeaderTypes => m.from = n
    /\ m.body.type = "Heartbeat" => m.body.readSeq <= role'[n].readSeq
    /\ m.body.type = "Append" => m.body.baseIndex > 0 \/ m.body.entries # <<>>
    /\ m.body.type = "HeartbeatResponse" =>
          \E r \in msgs : /\ r.body.type = "Heartbeat" /\ r.term = m.term
                          /\ m.body.readSeq = r.body.readSeq
    /\ m.body.type = "AppendResponse" =>
          \E r \in Appends :
              /\ r.term = m.term
              /\ \/ /\ m.body.matchIndex = r.body.baseIndex + Len(r.body.entries)
                    /\ m.body.rejectIndex = 0
                 \/ m.body.matchIndex = 0 /\ m.body.rejectIndex \in 1..r.body.baseIndex

Follows(n) ==
    role'[n].kind = "follower" /\ role'[n].leader # NoNode =>
        \/ /\ role[n].kind = "follower" /\ role'[n].leader = role[n].leader
           /\ term'[n] = term[n]
        \/ \E m \in msgs : /\ m.body.type \in LeaderTypes /\ m.term = term'[n]
                           /\ role'[n].leader = m.from

RoleStep(n) ==
    /\ Follows(n)
    /\ role'[n].kind = "leader" /\ role[n].kind = "leader" => role'[n].readSeq >= role[n].readSeq
    /\ \A m \in msgs' \ msgs : Tells(n, m)
    /\ \/ panics' = panics
       \/ \E m \in msgs : /\ m.to = n /\ m.term >= term[n] /\ role[n].kind # "down"
                          /\ panics' = panics \cup Panics(n, m)

-----------------------------------------------------------------------------
(* Which assertions can fail.                                              *)

\* A splice of an append of its term or a later one fails no assertion of Log::splice.
LEMMA SplicesAreSafe ==
    ASSUME RaftInv, CommitInv, NEW n \in Node, NEW m \in Appends, m.term >= term[n],
           HasBase(log[n], m.body.baseIndex, m.body.baseTerm)
    PROVE  ~SplicePanics(log[n], m.term, commit[n], m.body.baseIndex, m.body.entries)
<1>1. PICK base, bt, es, l, c :
        /\ base = m.body.baseIndex /\ bt = m.body.baseTerm /\ es = m.body.entries
        /\ l = log[n] /\ c = commit[n]
    OBVIOUS
<1>2. /\ base \in Nat /\ bt \in Nat /\ es \in Log /\ Len(es) \in Nat /\ m.term \in Nat
      /\ l \in Log /\ Len(l) \in Nat /\ l \in Buildable /\ c \in Nat /\ term[n] \in Nat
    BY <1>1, AppendFields, LogsAreBuildable, LenProperties DEF RaftInv, TypeInv, TypeOK, Log
<1>3. \A k \in 1..Len(es) :
        /\ 1 <= es[k].term /\ es[k].term <= m.term /\ es[k].term \in Nat
        /\ k > 1 => es[k - 1].term <= es[k].term
        /\ k = 1 => bt <= es[k].term
  <2> SUFFICES ASSUME NEW k \in 1..Len(es)
               PROVE  /\ 1 <= es[k].term /\ es[k].term <= m.term /\ es[k].term \in Nat
                      /\ k > 1 => es[k - 1].term <= es[k].term
                      /\ k = 1 => bt <= es[k].term
    OBVIOUS
  <2> DEFINE x == LinkAt(base, bt, es, k)
  <2>1. x \in AppendLinks(m.body) /\ x \in Links
    BY <1>1, LinksOfParts DEF AppendLinks, LinksIn
  <2>2. /\ x.entry = es[k]
        /\ k = 1 => x.prev = bt
        /\ k > 1 => x.prev = es[k - 1].term
    BY DEF LinkAt
  <2> HIDE DEF x
  <2>3. 1 <= x.entry.term /\ x.prev <= x.entry.term /\ x.entry.term <= m.term
    BY <2>1 DEF RaftInv, MatchingInv, LinksAreSorted, TermsAreBounded
  <2> QED BY <1>2, <2>2, <2>3, EntryTerm
<1>4. base <= Len(l) /\ (base \in 1..Len(l) => l[base].term = bt)
    BY <1>1, <1>2 DEF HasBase, Has
<1>5. ASSUME NEW k \in 1..Len(es), k \notin NewEntries(l, base, es) PROVE l[base + k] = es[k]
  <2>1. Has(l, base + k, es[k].term)
    BY <1>2, <1>5 DEF NewEntries
  <2> QED BY <1>1, <1>2, <2>1, AppendEntry
<1>6. ASSUME NEW k \in NewEntries(l, base, es), base + k <= c PROVE FALSE
  <2>1. PICK i \in 1..k : ~Has(l, base + i, es[i].term)
    BY <1>6 DEF NewEntries
  <2>2. k \in 1..Len(es) /\ i \in 1..Len(es) /\ base + i <= c /\ c # 0
    BY <1>2, <1>6, <2>1 DEF NewEntries
  <2>3. Committed(l, c, term[n])
    BY <1>1 DEF CommitInv, CommitsAreChosen
  <2>4. PICK j, u \in Nat :
          /\ c <= j /\ u <= term[n] /\ Chosen(j, u)
          /\ \A k2 \in Buildable : Has(k2, j, u) => Agrees(l, k2, c)
    BY <2>2, <2>3 DEF Committed
  <2>5. Protected(j, u) /\ \E a \in Node : Has(log[a], j, u) /\ log[a] \in Buildable
    BY <2>4, ChosenExists
  <2>6. PICK b \in Buildable : Has(b, j, u)
    BY <2>5
  <2>7. Agrees(l, b, c) /\ b \in Log
    BY <2>4, <2>6 DEF Buildable
  <2>8. base + i <= j /\ base + i \in Nat /\ m.term >= u
    BY <1>2, <2>2, <2>4
  <2>9. Has(b, base + i, es[i].term)
    BY <1>1, <2>2, <2>5, <2>6, <2>8 DEF Protected
  <2>10. Agrees(b, l, c)
    BY <1>2, <2>7, AgreesFacts
  <2>11. Has(l, base + i, es[i].term)
    BY <1>2, <2>2, <2>7, <2>8, <2>9, <2>10, AgreesFacts
  <2> QED BY <2>1, <2>11
<1>7. es # <<>> => Len(es) \in 1..Len(es) /\ 1 \in 1..Len(es)
    BY <1>2, EmptySeq, LenProperties DEF Log
<1>8. ASSUME es # <<>> PROVE ~(es[1].term = 0 \/ es[Len(es)].term > m.term)
    BY <1>2, <1>3, <1>7, <1>8
<1>9. ASSUME NEW k \in 1..Len(es) - 1 PROVE ~(es[k].term > es[k + 1].term)
  <2>1. k + 1 \in 1..Len(es) /\ k + 1 > 1 /\ (k + 1) - 1 = k /\ k \in 1..Len(es)
    BY <1>2
  <2> QED BY <1>3, <2>1
<1>10. ASSUME es # <<>> PROVE ~(base \in 1..Len(l) /\ es[1].term < l[base].term)
    BY <1>2, <1>3, <1>4, <1>7, <1>10
<1>11. ~SplicePanics(l, m.term, c, base, es)
    BY <1>2, <1>4, <1>5, <1>6, <1>8, <1>9, <1>10 DEF SplicePanics
<1> QED BY <1>1, <1>11

\* The assertions that a message can fail at a node are those about its role.
LEMMA PanicsAreAboutRoles ==
    ASSUME RaftInv, CommitInv, LeadersAreKnown, MessagesAreValid, ResponsesAreInRange,
           NEW n \in Node, NEW m \in msgs, m.to = n, m.term >= term[n]
    PROVE  Panics(n, m) \subseteq {"unexpected message", "client request from other node",
                                   "client response from non-leader"}
<1>1. /\ m.term \in Nat /\ term[n] \in Nat /\ m.from \in Node /\ m.from # n /\ m.body \in Body
      /\ Len(log[n]) \in Nat
    BY LenProperties DEF RaftInv, TypeInv, TypeOK, Envelope, Log
<1> DEFINE kind == IF m.term > term[n] THEN "follower" ELSE role[n].kind
<1>2. kind # "follower" \/ FollowerIn(n, m).leader # NoNode => m.term = term[n]
    BY <1>1 DEF FollowerIn, Follower
<1>3. ASSUME m.body.type \in LeaderTypes PROVE kind # "leader"
  <2> SUFFICES ASSUME kind = "leader" PROVE FALSE
    OBVIOUS
  <2>1. LedBy(m.from, m.term)
    BY <1>3 DEF LedBy
  <2>2. LedBy(n, m.term)
    BY <1>1 DEF LedBy, IsLeader
  <2> QED BY <1>1, <2>1, <2>2 DEF LeadersAreKnown
<1>4. ASSUME m.body.type \in LeaderTypes, kind = "follower"
      PROVE  FollowerIn(n, m).leader \in {NoNode, m.from}
  <2> SUFFICES ASSUME FollowerIn(n, m).leader # NoNode PROVE FollowerIn(n, m).leader = m.from
    OBVIOUS
  <2>1. m.term = term[n] /\ role[n].kind = "follower" /\ FollowerIn(n, m) = role[n]
    BY <1>1 DEF FollowerIn, Follower
  <2>2. role[n].leader \in Node
    BY <2>1, RoleFields DEF RaftInv, TypeInv, TypeOK, FollowerRole, Peers
  <2>3. LedBy(m.from, m.term) /\ LedBy(role[n].leader, m.term)
    BY <1>4, <2>1 DEF LedBy
  <2> QED BY <1>1, <2>1, <2>2, <2>3 DEF LeadersAreKnown
<1>5. m.body.type = "Heartbeat" => ~(m.body.commitIndex > m.body.lastIndex)
    BY <1>1, BodyFields DEF MessagesAreValid
<1>6. ASSUME m.body.type = "Append", HasBase(log[n], m.body.baseIndex, m.body.baseTerm)
      PROVE  ~SplicePanics(log[n], m.term, commit[n], m.body.baseIndex, m.body.entries)
  <2>1. m \in Appends
    BY <1>6 DEF Appends
  <2> QED BY <1>6, <2>1, SplicesAreSafe
<1>7. ASSUME kind = "leader" PROVE IsLeader(n) /\ term[n] = m.term
    BY <1>1, <1>7 DEF IsLeader
<1>8. ASSUME kind = "leader", m.body.type = "HeartbeatResponse"
      PROVE  ~(m.body.matchIndex > Len(log[n]) \/ m.body.readSeq > role[n].readSeq)
  <2>1. m.body.matchIndex \in Nat /\ m.body.readSeq \in Nat /\ role[n].readSeq \in Nat
    BY <1>1, <1>7, <1>8, BodyFields, LeaderFields DEF RaftInv, IsLeader
  <2>2. m.body.matchIndex <= Len(log[n]) /\ m.body.readSeq <= role[n].readSeq
    BY <1>7, <1>8 DEF CommitInv, MessagesAreTrue, Responses, ResponsesAreInRange
  <2> QED BY <1>1, <2>1, <2>2
<1>9. ASSUME kind = "leader", m.body.type = "AppendResponse"
      PROVE  ~(m.body.matchIndex > Len(log[n]) \/ m.body.rejectIndex > Len(log[n]))
  <2>1. m.body.matchIndex \in Nat /\ m.body.rejectIndex \in Nat
    BY <1>1, <1>9, BodyFields
  <2>2. m.body.matchIndex <= Len(log[n]) /\ m.body.rejectIndex <= Len(log[n])
    BY <1>7, <1>9 DEF CommitInv, MessagesAreTrue, Responses, ResponsesAreInRange
  <2> QED BY <1>1, <2>1, <2>2
<1>10. m.body.type = "AppendResponse" => ~(m.body.matchIndex > 0 <=> m.body.rejectIndex > 0)
    BY DEF MessagesAreValid
<1> HIDE DEF kind
<1>11. /\ m.body.type \in {"Heartbeat", "Append"} => m.body.type \in LeaderTypes
    BY DEF LeaderTypes
<1> QED BY <1>3, <1>4, <1>5, <1>6, <1>8, <1>9, <1>10, <1>11 DEF Panics, kind

-----------------------------------------------------------------------------
(* Every step of this kind keeps the invariant.                            *)

\* Whoever is taken for a leader was before, or has just been elected in a term
\* in which nobody led.
LEMMA LedByStep ==
    ASSUME RaftInv, RaftInv', NEW n \in Node, NodeStep(n), RoleStep(n),
           NEW p \in Node, NEW t \in Nat, LedBy(p, t)'
    PROVE  LedBy(p, t) \/ (p = n /\ IsLeader(n)' /\ term'[n] = t /\ ~Owned(t))
<1>1. ASSUME IsLeader(p)', term'[p] = t
      PROVE  LedBy(p, t) \/ (p = n /\ IsLeader(n)' /\ term'[n] = t /\ ~Owned(t))
  <2>1. term'[p] = term[p] /\ (p # n => IsLeader(p))
    BY <1>1, LeadersStep DEF RaftInv, NodeStep
  <2>2. CASE IsLeader(p)
    BY <1>1, <2>1, <2>2 DEF LedBy
  <2>3. CASE ~IsLeader(p)
    <3>1. p = n
      BY <2>1, <2>3
    <3>2. role[n].kind = "candidate"
      BY <1>1, <2>3, <3>1 DEF NodeStep, LogStep, IsLeader
    <3>3. \E Q \in SUBSET Node : IsQuorum(Q) /\ \A a \in Q : Supports(a, n, term[n])
      BY <1>1, <3>1, <3>2 DEF NodeStep, ElectionStep, IsLeader
    <3>4. ~Owned(term[n])
      BY <3>2, <3>3, NotYetOwned DEF RaftInv
    <3> QED BY <1>1, <2>1, <3>1, <3>4
  <2> QED BY <2>2, <2>3
<1>2. ASSUME NEW m \in msgs', m.body.type \in LeaderTypes, m.from = p, m.term = t
      PROVE  LedBy(p, t) \/ (p = n /\ IsLeader(n)' /\ term'[n] = t /\ ~Owned(t))
  <2>1. CASE m \in msgs
    BY <1>2, <2>1 DEF LedBy
  <2>2. CASE m \notin msgs
    <3>1. m.from = n /\ role'[n].kind = "leader" /\ m.term = term'[n]
      BY <1>2, <2>2 DEF RoleStep, Tells, NodeStep, LogStep
    <3> QED BY <1>1, <1>2, <3>1 DEF IsLeader
  <2> QED BY <2>1, <2>2
<1>3. ASSUME NEW a \in Node, role'[a].kind = "follower", role'[a].leader = p, term'[a] = t
      PROVE  LedBy(p, t)
  <2>1. CASE a # n
    BY <1>3, <2>1 DEF LedBy, NodeStep, ElectionStep
  <2>2. CASE a = n
    <3>1. p # NoNode
      BY NodeAssumption
    <3> QED BY <1>3, <2>2, <3>1 DEF LedBy, RoleStep, Follows
  <2> QED BY <2>1, <2>2
<1> QED BY <1>1, <1>2, <1>3 DEF LedBy, IsLeader

\* Where somebody is taken for a leader, somebody has been elected.
LEMMA LedIsOwned ==
    ASSUME RaftInv, LeadersAreKnown, NEW p \in Node, NEW t, LedBy(p, t)
    PROVE  Owned(t)
<1>1. CASE IsLeader(p) /\ term[p] = t
    BY <1>1, LeaderOwns DEF RaftInv
<1>2. CASE \E m \in msgs : m.body.type \in LeaderTypes /\ m.from = p /\ m.term = t
    BY <1>2 DEF RaftInv, MatchingInv, TermsAreOwned
<1>3. CASE \E n \in Node : role[n].kind = "follower" /\ role[n].leader = p /\ term[n] = t
    BY <1>3, NodeAssumption DEF LeadersAreKnown
<1> QED BY <1>1, <1>2, <1>3 DEF LedBy

\* All still agree on who leads.
LEMMA LeadersStayKnown ==
    ASSUME RaftInv, RaftInv', LeadersAreKnown, NEW n \in Node, NodeStep(n), RoleStep(n)
    PROVE  LeadersAreKnown'
<1>1. ASSUME NEW p \in Node, NEW q \in Node, NEW t \in Nat, LedBy(p, t)', LedBy(q, t)'
      PROVE  p = q
  <2>1. \/ LedBy(p, t)
        \/ p = n /\ ~Owned(t)
    BY <1>1, LedByStep
  <2>2. \/ LedBy(q, t)
        \/ q = n /\ ~Owned(t)
    BY <1>1, LedByStep
  <2>3. LedBy(p, t) \/ LedBy(q, t) => Owned(t)
    BY LedIsOwned
  <2> QED BY <2>1, <2>2, <2>3 DEF LeadersAreKnown
<1>2. ASSUME NEW a \in Node, role'[a].kind = "follower", role'[a].leader # NoNode
      PROVE  Owned(term[a])'
  <2>1. PICK t \in Nat : t = term'[a]
    BY DEF RaftInv, TypeInv, TypeOK
  <2>2. Owned(t)
    <3>1. CASE a # n
      BY <1>2, <2>1, <3>1 DEF LeadersAreKnown, NodeStep, ElectionStep
    <3>2. CASE a = n
      <4>1. CASE \E m \in msgs : m.body.type \in LeaderTypes /\ m.term = term'[n]
        BY <2>1, <3>2, <4>1 DEF RaftInv, MatchingInv, TermsAreOwned
      <4>2. CASE /\ role[n].kind = "follower" /\ role'[n].leader = role[n].leader
                 /\ term'[n] = term[n]
        BY <1>2, <2>1, <3>2, <4>2 DEF LeadersAreKnown
      <4> QED BY <1>2, <3>2, <4>1, <4>2 DEF RoleStep, Follows
    <3> QED BY <3>1, <3>2
  <2>3. Owned(t)'
    BY <2>2, OwnedStep DEF RaftInv, NodeStep
  <2> QED BY <2>1, <2>3 DEF Owned
<1> QED BY <1>1, <1>2 DEF LeadersAreKnown

\* New messages are as valid as those they answer.
LEMMA MessagesStayValid ==
    ASSUME RaftInv, RaftInv', CommitInv, MessagesAreValid, NEW n \in Node, NodeStep(n), RoleStep(n)
    PROVE  MessagesAreValid'
<1> SUFFICES ASSUME NEW m \in msgs', m \notin msgs
             PROVE  /\ m.body.type = "Heartbeat" => m.body.commitIndex <= m.body.lastIndex
                    /\ m.body.type = "Append" => m.body.baseIndex > 0 \/ m.body.entries # <<>>
                    /\ m.body.type = "AppendResponse" =>
                          ~(m.body.matchIndex > 0 <=> m.body.rejectIndex > 0)
    BY DEF MessagesAreValid
<1>1. Tells(n, m) /\ Sends(n, m)
    BY DEF RoleStep, NodeStep, CommitStep
<1>2. ASSUME m.body.type = "Heartbeat" PROVE m.body.commitIndex <= m.body.lastIndex
  <2>1. m.body.lastIndex = Len(log'[n]) /\ m.body.commitIndex = commit[n]
    BY <1>1, <1>2 DEF Sends
  <2>2. commit[n] \in Nat
    BY DEF RaftInv, TypeInv, TypeOK
  <2>3. Agrees(log[n], log'[n], commit[n])
    BY <2>2, KeepsCommitted DEF CommitInv, CommitsAreChosen
  <2> QED BY <2>1, <2>3 DEF Agrees
<1>3. ASSUME m.body.type = "AppendResponse"
      PROVE  ~(m.body.matchIndex > 0 <=> m.body.rejectIndex > 0)
  <2>1. PICK r \in Appends :
              \/ /\ m.body.matchIndex = r.body.baseIndex + Len(r.body.entries)
                 /\ m.body.rejectIndex = 0
              \/ m.body.matchIndex = 0 /\ m.body.rejectIndex \in 1..r.body.baseIndex
    BY <1>1, <1>3 DEF Tells
  <2>2. /\ r.body.baseIndex \in Nat /\ r.body.entries \in Log /\ Len(r.body.entries) \in Nat
        /\ r.body.baseIndex > 0 \/ r.body.entries # <<>>
    BY AppendFields DEF RaftInv, MessagesAreValid, Appends
  <2>3. r.body.entries # <<>> => Len(r.body.entries) > 0
    BY <2>2, EmptySeq, LenProperties DEF Log
  <2> QED BY <2>1, <2>2, <2>3
<1> QED BY <1>1, <1>2, <1>3 DEF Tells

\* The read sequence number of a leader is a number.
LEMMA LeaderReadSeq ==
    TypeInv => \A l \in Node : IsLeader(l) => role[l].readSeq \in Nat
BY LeaderFields DEF IsLeader

\* The same after a step.
LEMMA LeaderReadSeqNext ==
    (TypeInv => \A l \in Node : IsLeader(l) => role[l].readSeq \in Nat)'
BY LeaderReadSeq, PTL

\* Responses stay in the range of their leader.
LEMMA ResponsesStayInRange ==
    ASSUME RaftInv, RaftInv', ResponsesAreInRange, NEW n \in Node, NodeStep(n), RoleStep(n)
    PROVE  ResponsesAreInRange'
<1> SUFFICES ASSUME NEW m \in msgs', NEW l \in Node, IsLeader(l)', term'[l] = m.term
             PROVE  /\ m.body.type \in {"Heartbeat", "HeartbeatResponse"} =>
                          m.body.readSeq <= role'[l].readSeq
                    /\ m.body.type = "AppendResponse" => m.body.rejectIndex <= Len(log'[l])
    BY DEF ResponsesAreInRange
<1>1. ASSUME Owned(m.term)
      PROVE  /\ IsLeader(l) /\ term[l] = m.term
             /\ role[l].readSeq \in Nat /\ role'[l].readSeq \in Nat
             /\ role[l].readSeq <= role'[l].readSeq /\ Len(log[l]) <= Len(log'[l])
             /\ Len(log[l]) \in Nat /\ Len(log'[l]) \in Nat
  <2>1. IsLeader(l) /\ term'[l] = term[l] /\ (l # n => role'[l] = role[l])
    BY <1>1, OldLeader
  <2>2. Agrees(log[l], log'[l], Len(log[l]))
    BY <2>1, LeaderLogGrows
  <2>3. role[l].readSeq \in Nat
    BY <2>1, LeaderFields DEF RaftInv, IsLeader
  <2>4. role'[l].readSeq \in Nat
    BY LeaderReadSeqNext DEF RaftInv
  <2>5. role[l].readSeq <= role'[l].readSeq
    BY <2>1, <2>3 DEF RoleStep, IsLeader
  <2>6. Len(log[l]) \in Nat /\ Len(log'[l]) \in Nat
    BY StepTypes
  <2> QED BY <2>1, <2>2, <2>3, <2>4, <2>5, <2>6 DEF Agrees, RaftInv, IsLeader
<1>2. ASSUME NEW r \in msgs, r.term = m.term, r.body.type \in {"Heartbeat", "HeartbeatResponse"}
      PROVE  r.body.readSeq <= role'[l].readSeq
  <2>1. Owned(m.term)
    BY <1>2 DEF RaftInv, MatchingInv, TermsAreOwned, LeaderTypes, LeaderResponseTypes
  <2>2. r.body.readSeq \in Nat
    BY <1>2, BodyFields DEF RaftInv, TypeInv, TypeOK, Envelope
  <2>3. r.body.readSeq <= role[l].readSeq
    BY <1>1, <1>2, <2>1 DEF ResponsesAreInRange
  <2> QED BY <1>1, <2>1, <2>2, <2>3
<1>3. ASSUME m.body.type \in {"Heartbeat", "HeartbeatResponse"}
      PROVE  m.body.readSeq <= role'[l].readSeq
  <2>1. CASE m \in msgs
    BY <1>2, <1>3, <2>1
  <2>2. CASE m \notin msgs /\ m.body.type = "Heartbeat"
    <3>1. /\ m.body.readSeq <= role'[n].readSeq
          /\ role'[n].kind = "leader" /\ m.term = term'[n]
      BY <2>2 DEF RoleStep, Tells, NodeStep, LogStep, LeaderTypes
    <3>2. l = n
      BY <3>1 DEF RaftInv, ElectionInv, ElectionSafety, IsLeader
    <3> QED BY <3>1, <3>2
  <2>3. CASE m \notin msgs /\ m.body.type = "HeartbeatResponse"
    <3>1. PICK r \in msgs : /\ r.body.type = "Heartbeat" /\ r.term = m.term
                            /\ m.body.readSeq = r.body.readSeq
      BY <2>3 DEF RoleStep, Tells
    <3> QED BY <1>2, <3>1
  <2> QED BY <1>3, <2>1, <2>2, <2>3
<1>4. ASSUME m.body.type = "AppendResponse" PROVE m.body.rejectIndex <= Len(log'[l])
  <2>1. CASE m \in msgs
    <3>1. Owned(m.term)
      BY <1>4, <2>1 DEF RaftInv, MatchingInv, TermsAreOwned, LeaderResponseTypes
    <3>2. m.body.rejectIndex \in Nat
      BY <1>4, <2>1, BodyFields DEF RaftInv, TypeInv, TypeOK, Envelope
    <3>3. m.body.rejectIndex <= Len(log[l])
      BY <1>1, <1>4, <2>1, <3>1 DEF ResponsesAreInRange
    <3> QED BY <1>1, <3>1, <3>2, <3>3
  <2>2. CASE m \notin msgs
    <3>1. PICK r \in Appends : r.term = m.term /\ m.body.rejectIndex \in 0..r.body.baseIndex
      <4>1. \A r \in Appends : r.body.baseIndex \in Nat
        BY AppendFields DEF RaftInv
      <4> QED BY <1>4, <2>2, <4>1 DEF RoleStep, Tells
    <3>2. Owned(m.term)
      BY <3>1 DEF RaftInv, MatchingInv, TermsAreOwned, LeaderTypes, Appends
    <3>3. IsSlice(r.body, log[l])
      BY <1>1, <3>1, <3>2 DEF RaftInv, MatchingInv, AppendsAreSlices
    <3>4. r.body.baseIndex \in Nat /\ Len(r.body.entries) \in Nat
      BY AppendFields DEF RaftInv
    <3>5. Len(log[l]) \in Nat /\ Len(log'[l]) \in Nat /\ Len(log[l]) <= Len(log'[l])
      BY <1>1, <3>2
    <3>6. r.body.baseIndex + Len(r.body.entries) <= Len(log[l])
      BY <3>3 DEF IsSlice
    <3>7. m.body.rejectIndex \in Nat /\ m.body.rejectIndex <= r.body.baseIndex
      BY <3>1, <3>4
    <3>8. PICK i \in Nat, base \in Nat, k \in Nat, old \in Nat, new \in Nat :
            /\ i = m.body.rejectIndex /\ base = r.body.baseIndex
            /\ k = Len(r.body.entries) /\ old = Len(log[l]) /\ new = Len(log'[l])
      BY <3>4, <3>5, <3>7
    <3>9. i <= base /\ base + k <= old /\ old <= new
      BY <3>5, <3>6, <3>7, <3>8
    <3>10. i <= new
      BY <3>9
    <3> QED BY <3>8, <3>10
  <2> QED BY <2>1, <2>2
<1> QED BY <1>3, <1>4

\* A step of this kind keeps the invariant.
LEMMA AssertInvStep ==
    ASSUME RaftInv, RaftInv', CommitInv, AssertInv, NEW n \in Node, NodeStep(n), RoleStep(n)
    PROVE  AssertInv'
<1>1. LeadersAreKnown' /\ MessagesAreValid' /\ ResponsesAreInRange'
    BY LeadersStayKnown, MessagesStayValid, ResponsesStayInRange DEF AssertInv
<1>2. OnlyRestartPanics'
    BY PanicsAreAboutRoles DEF RoleStep, AssertInv, OnlyRestartPanics
<1> QED BY <1>1, <1>2 DEF AssertInv

-----------------------------------------------------------------------------
(* The actions are such steps: what is sent.                               *)

\* Messages that no assertion is about.
Plain(S) ==
    \A m \in S : m.body.type \notin LeaderTypes \cup {"HeartbeatResponse", "AppendResponse"}

\* Plain messages, and those to clients are plain, may always be sent.
LEMMA PlainMsgs ==
    ASSUME NEW n, NEW t
    PROVE  /\ \A R : Plain(ReplyMsgs(n, t, R))
           /\ \A b : b.type \notin LeaderTypes \cup {"HeartbeatResponse", "AppendResponse"} =>
                 Plain(Broadcast(n, t, b)) /\ \A p : Plain({Env(n, p, t, b)})
           /\ \A S : Plain(S) => \A m \in S : Tells(n, m)
<1>1. \A R : Plain(ReplyMsgs(n, t, R))
    BY DEF Plain, ReplyMsgs, Env, LeaderTypes
<1>2. \A b : b.type \notin LeaderTypes \cup {"HeartbeatResponse", "AppendResponse"} =>
        Plain(Broadcast(n, t, b)) /\ \A p : Plain({Env(n, p, t, b)})
    BY DEF Plain, Broadcast, Env
<1>3. \A S : Plain(S) => \A m \in S : Tells(n, m)
    BY DEF Plain, Tells, LeaderTypes
<1> QED BY <1>1, <1>2, <1>3

\* maybe_send_append sends a base entry or an entry after it.
LEMMA AppendsSaySomething ==
    ASSUME NEW l \in Log, NEW pr \in Progress, NEW probe \in BOOLEAN, NEW send,
           send = MaybeSendAppend(l, pr, probe), NEW b \in send.bodies
    PROVE  b.type = "Append" /\ (b.baseIndex > 0 \/ b.entries # <<>>)
<1>1. PICK next \in Nat \ {0}, match \in Nat, len \in Nat, k \in Nat \ {0} :
        /\ next = pr.next /\ match = pr.match /\ len = Len(l) /\ k = MaxAppendEntries
    BY BoundAssumption, LenProperties DEF Progress, Log
<1>2. PICK probing, entries :
        /\ probing \in BOOLEAN /\ probing = (probe /\ pr.next > pr.match + 1)
        /\ entries = IF probing THEN <<>> ELSE Scan(l, pr.next, MaxAppendEntries)
    OBVIOUS
<1>a. /\ ~(pr.next > Len(l) /\ ~probing) /\ b.type = "Append"
      /\ b.baseIndex = pr.next - 1 /\ b.entries = entries
  <2>1. send = IF pr.match = Len(l) \/ (pr.next > Len(l) /\ ~probing)
               THEN [progress |-> pr, bodies |-> {}]
               ELSE [progress |-> [pr EXCEPT !.next = @ + Len(entries)],
                     bodies |-> {[type |-> "Append", baseIndex |-> pr.next - 1,
                                  baseTerm |-> TermAt(l, pr.next - 1), entries |-> entries]}]
    BY <1>2 DEF MaybeSendAppend
  <2> QED BY <2>1
<1>3. /\ ~(next > len /\ ~probing) /\ b.type = "Append"
      /\ b.baseIndex = next - 1 /\ b.entries = entries
      /\ probing => next > match + 1
      /\ ~probing => entries = SubSeq(l, next, Min2(len, next + k - 1))
    BY <1>1, <1>2, <1>a DEF Scan
<1>4. CASE next > 1
    BY <1>3, <1>4
<1>5. CASE next = 1
  <2>a. ~probing /\ 1 <= len /\ next + k - 1 = k
    BY <1>3, <1>5
  <2>1. 1 <= len /\ entries = SubSeq(l, 1, Min2(len, k))
    BY <1>3, <1>5, <2>a
  <2>2. PICK h \in Nat : h = Min2(len, k) /\ 1 <= h
    BY <2>1 DEF Min2
  <2>3. Len(entries) = h
    BY <1>1, <2>1, <2>2 DEF Log, Min2
  <2>4. entries # <<>>
    BY <2>2, <2>3
  <2> QED BY <1>3, <2>4
<1> QED BY <1>4, <1>5

\* Leader n may send such appends.
LEMMA AppendMsgsTell ==
    ASSUME NEW n, NEW t, NEW p, NEW l \in Log, NEW pr \in Progress, NEW probe \in BOOLEAN,
           NEW send, send = MaybeSendAppend(l, pr, probe)
    PROVE  \A b \in send.bodies : Tells(n, Env(n, p, t, b))
<1> SUFFICES ASSUME NEW b \in send.bodies PROVE Tells(n, Env(n, p, t, b))
    OBVIOUS
<1>1. b.type = "Append" /\ (b.baseIndex > 0 \/ b.entries # <<>>)
    BY AppendsSaySomething
<1> QED BY <1>1 DEF Tells, Env

\* So does propose.
LEMMA ProposalMsgsTell ==
    ASSUME NEW n, NEW t, NEW l \in Log, NEW progress \in [Peers(n) -> Progress],
           NEW out, out = Propose(l, progress)
    PROVE  \A m \in ProposalMsgs(n, t, out) : Tells(n, m)
<1>1. DOMAIN out = Peers(n)
    BY DEF Propose
<1> SUFFICES ASSUME NEW p \in Peers(n), NEW b \in out[p].bodies PROVE Tells(n, Env(n, p, t, b))
    BY <1>1 DEF ProposalMsgs
<1>2. PICK pr \in Progress, probe \in BOOLEAN : pr = progress[p] /\ probe = FALSE
    OBVIOUS
<1>3. PICK send : send = MaybeSendAppend(l, pr, probe)
    OBVIOUS
<1>4. b \in send.bodies
    BY <1>2, <1>3 DEF Propose
<1> QED BY <1>3, <1>4, AppendMsgsTell

-----------------------------------------------------------------------------
(* Followers, leaders, elections and requests.                             *)

\* A step that fails no assertion.
LEMMA PlainRoleStep ==
    ASSUME NEW n \in Node, Follows(n), UNCHANGED panics,
           role'[n].kind = "leader" /\ role[n].kind = "leader" =>
              role'[n].readSeq >= role[n].readSeq,
           NEW sent, msgs' \subseteq msgs \cup sent, \A s \in sent : Tells(n, s)
    PROVE  RoleStep(n)
BY DEF RoleStep

\* A step that leaves the node its role and term.
LEMMA SameRoleStep ==
    ASSUME TypeInv, NEW n \in Node, UNCHANGED <<role, term, panics>>,
           NEW sent, msgs' \subseteq msgs \cup sent, \A s \in sent : Tells(n, s)
    PROVE  RoleStep(n)
<1>1. role'[n].kind = "leader" /\ role[n].kind = "leader" => role'[n].readSeq >= role[n].readSeq
    BY LeaderFields
<1>2. Follows(n)
    BY DEF Follows
<1> QED BY <1>1, <1>2, PlainRoleStep

\* A node that steps a message as a follower.
LEMMA EndAsFollowerRole ==
    ASSUME TypeInv, NEW n \in Node, NEW m \in msgs, NEW v, NEW r, r.kind = "follower",
           \/ r.leader \in {NoNode, FollowerIn(n, m).leader}
           \/ r.leader = m.from /\ m.body.type \in LeaderTypes,
           NEW sent, \A s \in sent : Tells(n, s), NEW replies,
           EndAsFollower(n, m, v, r, sent, replies)
    PROVE  RoleStep(n)
<1>1. role'[n] = r /\ term'[n] = m.term /\ UNCHANGED panics
    BY DEF EndAsFollower, TypeInv, TypeOK
<1>2. FollowerIn(n, m).leader # NoNode =>
        m.term = term[n] /\ role[n].kind = "follower" /\ FollowerIn(n, m) = role[n]
    BY DEF FollowerIn, Follower
<1>3. Follows(n)
    BY <1>1, <1>2 DEF Follows
<1> DEFINE all == sent \cup ReplyMsgs(n, term[n], AbortedBy(n, m))
<1>4. msgs' \subseteq msgs \cup all
    BY SendSubset DEF EndAsFollower
<1>5. \A s \in all : Tells(n, s)
    BY PlainMsgs
<1> HIDE DEF all
<1> QED BY <1>1, <1>3, <1>4, <1>5, PlainRoleStep

\* Followers.
LEMMA FollowerRoleSteps ==
    ASSUME TypeInv, NEW n \in Node, NEW m \in msgs,
           \/ HandleHeartbeat(n, m) \/ HandleAppend(n, m) \/ HandleRead(n, m)
           \/ HandleCampaign(n, m) \/ HandleClientResponse(n, m) \/ IgnoreVote(n, m)
    PROVE  RoleStep(n)
<1>1. m.body \in Body /\ m.from \in Node /\ log[n] \in Log /\ Len(log[n]) \in Nat
    BY LenProperties DEF TypeInv, TypeOK, Envelope, Log
<1>2. ASSUME NEW b, FollowAndRespond(n, m, b), m.body.type \in LeaderTypes,
             Tells(n, Env(n, m.from, m.term, b))
      PROVE  RoleStep(n)
  <2>1. PICK e, f : e = Env(n, m.from, m.term, b) /\ f = Follower(m.from, FollowerIn(n, m).forwarded)
    OBVIOUS
  <2>2. /\ f.kind = "follower" /\ f.leader = m.from
        /\ EndAsFollower(n, m, VoteIn(n, m), f, {e}, {})
    BY <1>2, <2>1 DEF FollowAndRespond, Follower
  <2>3. \A s \in {e} : Tells(n, s)
    BY <1>2, <2>1
  <2> QED BY <1>2, <2>2, <2>3, EndAsFollowerRole
<1>3. CASE HandleHeartbeat(n, m)
  <2>1. PICK b :
          /\ b.type = "HeartbeatResponse" /\ b.readSeq = m.body.readSeq
          /\ FollowAndRespond(n, m, b) /\ m.body.type = "Heartbeat"
    BY <1>3 DEF HandleHeartbeat
  <2>2. Tells(n, Env(n, m.from, m.term, b)) /\ m.body.type \in LeaderTypes
    BY <2>1 DEF Tells, Env, LeaderTypes
  <2> QED BY <1>2, <2>1, <2>2
<1>4. CASE HandleAppend(n, m)
  <2>1. m.body.type = "Append" /\ m \in Appends /\ m.body.type \in LeaderTypes
    BY <1>4 DEF HandleAppend, Appends, LeaderTypes
  <2>2. PICK b :
          /\ b.type = "AppendResponse" /\ FollowAndRespond(n, m, b)
          /\ \/ /\ b.matchIndex = m.body.baseIndex + Len(m.body.entries)
                /\ b.rejectIndex = 0
             \/ b.matchIndex = 0 /\ b.rejectIndex \in 1..m.body.baseIndex
    <3>1. CASE HasBase(log[n], m.body.baseIndex, m.body.baseTerm)
      <4> WITNESS [type |-> "AppendResponse",
                   matchIndex |-> m.body.baseIndex + Len(m.body.entries), rejectIndex |-> 0]
      <4> QED BY <1>4, <3>1 DEF HandleAppend
    <3>2. CASE ~HasBase(log[n], m.body.baseIndex, m.body.baseTerm)
      <4>1. m.body.baseIndex \in Nat /\ m.body.baseIndex # 0
        BY <1>1, <2>1, <3>2, BodyFields DEF HasBase
      <4>2. Min2(m.body.baseIndex, Len(log[n]) + 1) \in 1..m.body.baseIndex
        BY <1>1, <4>1 DEF Min2
      <4> WITNESS [type |-> "AppendResponse", matchIndex |-> 0,
                   rejectIndex |-> Min2(m.body.baseIndex, Len(log[n]) + 1)]
      <4> QED BY <1>4, <3>2, <4>2 DEF HandleAppend
    <3> QED BY <3>1, <3>2
  <2>3. Tells(n, Env(n, m.from, m.term, b))
    BY <2>1, <2>2 DEF Tells, Env, LeaderTypes
  <2> QED BY <1>2, <2>1, <2>2, <2>3
<1>5. CASE HandleRead(n, m)
  <2>1. PICK b : /\ b.type = "ReadResponse" /\ FollowAndRespond(n, m, b)
                 /\ m.body.type \in LeaderTypes
    BY <1>5 DEF HandleRead, LeaderTypes
  <2>2. Tells(n, Env(n, m.from, m.term, b))
    BY <2>1 DEF Tells, Env, LeaderTypes
  <2> QED BY <1>2, <2>1, <2>2
<1>6. FollowerIn(n, m).kind = "follower" /\ \A s \in {} : Tells(n, s)
    BY DEF FollowerIn, Follower
<1>7. CASE HandleCampaign(n, m)
  <2>1. PICK v, b : /\ b.type = "CampaignResponse"
                    /\ EndAsFollower(n, m, v, FollowerIn(n, m), {Env(n, m.from, m.term, b)}, {})
    BY <1>7 DEF HandleCampaign
  <2>2. \A s \in {Env(n, m.from, m.term, b)} : Tells(n, s)
    BY <2>1 DEF Tells, Env, LeaderTypes
  <2> QED BY <1>6, <2>1, <2>2, EndAsFollowerRole
<1>8. CASE HandleClientResponse(n, m)
  <2>1. PICK f, replies :
          /\ EndAsFollower(n, m, VoteIn(n, m), Follower(m.from, f), {}, replies)
          /\ FollowerIn(n, m).leader = m.from
    BY <1>8 DEF HandleClientResponse
  <2>2. Follower(m.from, f).kind = "follower" /\ Follower(m.from, f).leader = m.from
    BY DEF Follower
  <2> QED BY <1>6, <2>1, <2>2, EndAsFollowerRole
<1>9. CASE IgnoreVote(n, m)
    BY <1>6, <1>9, EndAsFollowerRole DEF IgnoreVote
<1> QED BY <1>3, <1>4, <1>5, <1>7, <1>8, <1>9

\* A leader that receives a message.
LEMMA LeaderRoleStep ==
    ASSUME TypeInv, NEW n \in Node, NEW m \in msgs, role[n].kind = "leader",
           NEW progress, NEW served, NEW sent, \A s \in sent : Tells(n, s),
           EndAsLeader(n, m, progress, served, sent) \/ EndWithCommit(n, m, progress, served, sent)
    PROVE  RoleStep(n)
<1>1. PICK replies, acked, late :
        /\ Send(msgs \ {m}, sent \cup ReplyMsgs(n, term[n], replies))
        /\ role' = [role EXCEPT ![n] = LeaderAfter(n, progress, acked, late)]
        /\ UNCHANGED panics
    BY DEF EndAsLeader, EndWithCommit
<1>2. role'[n].kind = "leader" /\ role'[n].readSeq = role[n].readSeq
    BY <1>1 DEF LeaderAfter, Leader, TypeInv, TypeOK
<1>3. role'[n].readSeq >= role[n].readSeq
    BY <1>2, LeaderFields
<1>4. Follows(n)
    BY <1>2 DEF Follows
<1> DEFINE all == sent \cup ReplyMsgs(n, term[n], replies)
<1>5. msgs' \subseteq msgs \cup all
    BY <1>1, SendSubset
<1>6. \A s \in all : Tells(n, s)
    BY PlainMsgs
<1> HIDE DEF all
<1> QED BY <1>1, <1>3, <1>4, <1>5, <1>6, PlainRoleStep

\* Leaders.
LEMMA LeaderRoleSteps ==
    ASSUME TypeInv, NEW n \in Node, NEW m \in msgs,
           \/ HandleHeartbeatResponse(n, m) \/ HandleAppendResponse(n, m)
           \/ HandleAppendReject(n, m) \/ HandleReadResponse(n, m)
    PROVE  RoleStep(n)
<1> DEFINE l == log[n]
           t == term[n]
           p == m.from
           old == role[n].progress
<1>1. role[n].kind = "leader" /\ p \in Peers(n) /\ m.body \in Body
    BY DEF HandleHeartbeatResponse, HandleAppendResponse, HandleAppendReject,
           HandleReadResponse, StepsAsLeader, TypeInv, TypeOK, Envelope, Peers
<1>2. /\ old \in [Peers(n) -> Progress] /\ old[p] \in Progress
      /\ l \in Log /\ Len(l) \in Nat
    BY <1>1, LeaderFields
<1>3. ASSUME NEW progress, NEW served, NEW sent, \A s \in sent : Tells(n, s),
             \/ EndAsLeader(n, m, progress, served, sent)
             \/ EndWithCommit(n, m, progress, served, sent)
      PROVE  RoleStep(n)
    BY <1>1, <1>3, LeaderRoleStep
<1>4. \A s \in {} : Tells(n, s)
    OBVIOUS
<1>a. ASSUME NEW pr \in Progress, NEW probe \in BOOLEAN, NEW send,
             send = MaybeSendAppend(l, pr, probe)
      PROVE  \A s \in {Env(n, p, t, b) : b \in send.bodies} : Tells(n, s)
  <2>1. \A b \in send.bodies : Tells(n, Env(n, p, t, b))
    BY <1>2, <1>a, AppendMsgsTell
  <2> QED BY <2>1
<1>5. CASE HandleHeartbeatResponse(n, m)
  <2>1. PICK a : a = AdvanceRead(old[p], m.body.readSeq)
    OBVIOUS
  <2>2. PICK read : read = [old EXCEPT ![p] = a]
    OBVIOUS
  <2>3. m.body.readSeq \in Nat /\ a \in Progress /\ read[p] = a
    BY <1>1, <1>2, <1>5, <2>1, <2>2, BodyFields, ProgressType DEF HandleHeartbeatResponse
  <2>4. PICK back \in Progress : back = RegressNext(a, Len(l))
    BY <1>2, <2>3, ProgressType
  <2>5. PICK probe \in BOOLEAN : probe = TRUE
    OBVIOUS
  <2>6. PICK send : send = MaybeSendAppend(l, back, probe)
    OBVIOUS
  <2>7. \A s \in {Env(n, p, t, b) : b \in send.bodies} : Tells(n, s)
    BY <1>a, <2>4, <2>6
  <2>8. PICK served, adv :
          \/ EndAsLeader(n, m, [read EXCEPT ![p] = send.progress], served,
                         {Env(n, p, t, b) : b \in send.bodies})
          \/ EndAsLeader(n, m, read, served, {})
          \/ EndWithCommit(n, m, [read EXCEPT ![p] = adv], served, {})
    BY <1>5, <2>1, <2>2, <2>3, <2>4, <2>5, <2>6 DEF HandleHeartbeatResponse
  <2> QED BY <1>3, <1>4, <2>7, <2>8
<1>6. CASE HandleAppendResponse(n, m)
  <2>1. m.body.matchIndex \in Nat
    BY <1>1, <1>6, BodyFields DEF HandleAppendResponse
  <2>2. PICK adv \in Progress : adv = Advance(old[p], m.body.matchIndex)
    BY <1>2, <2>1, ProgressType
  <2>3. PICK probe \in BOOLEAN : probe = FALSE
    OBVIOUS
  <2>4. PICK send : send = MaybeSendAppend(l, adv, probe)
    OBVIOUS
  <2>5. \A s \in {Env(n, p, t, b) : b \in send.bodies} : Tells(n, s)
    BY <1>a, <2>2, <2>4
  <2>6. PICK new, sent : /\ new = [old EXCEPT ![p] = send.progress]
                         /\ sent = {Env(n, p, t, b) : b \in send.bodies}
    OBVIOUS
  <2>7. EndWithCommit(n, m, new, {}, sent) \/ EndAsLeader(n, m, new, {}, sent)
    BY <1>6, <2>2, <2>3, <2>4, <2>6 DEF HandleAppendResponse
  <2> QED BY <1>3, <2>5, <2>6, <2>7
<1>7. CASE HandleAppendReject(n, m)
  <2>1. m.body.rejectIndex \in Nat
    BY <1>1, <1>7, BodyFields DEF HandleAppendReject
  <2>2. PICK back \in Progress : back = RegressNext(old[p], m.body.rejectIndex)
    BY <1>2, <2>1, ProgressType
  <2>3. PICK probe \in BOOLEAN : probe = TRUE
    OBVIOUS
  <2>4. PICK send : send = MaybeSendAppend(l, back, probe)
    OBVIOUS
  <2>5. \A s \in {Env(n, p, t, b) : b \in send.bodies} : Tells(n, s)
    BY <1>a, <2>2, <2>4
  <2>6. PICK new, sent : /\ new = [old EXCEPT ![p] = send.progress]
                         /\ sent = {Env(n, p, t, b) : b \in send.bodies}
    OBVIOUS
  <2>7. EndAsLeader(n, m, new, {}, sent)
    BY <1>7, <2>2, <2>3, <2>4, <2>6 DEF HandleAppendReject
  <2> QED BY <1>3, <2>5, <2>6, <2>7
<1>8. CASE HandleReadResponse(n, m)
  <2>1. PICK new, served : EndAsLeader(n, m, new, served, {})
    BY <1>8 DEF HandleReadResponse
  <2> QED BY <1>3, <1>4, <2>1
<1> QED BY <1>5, <1>6, <1>7, <1>8

\* Timeouts, counted and refused votes, new leaders.
LEMMA ElectionRoleSteps ==
    ASSUME TypeInv, NEW n \in Node,
           \/ FollowerTimeout(n) \/ CandidateTimeout(n) \/ HeartbeatTick(n)
           \/ \E m \in msgs : RefuseVote(n, m) \/ RecordVote(n, m) \/ BecomeLeader(n, m)
                                \/ Ignore(n, m)
    PROVE  RoleStep(n)
<1>1. n \in DOMAIN role /\ log[n] \in Log /\ Len(log[n]) \in Nat /\ term[n] \in Nat
    BY LenProperties DEF TypeInv, TypeOK, Log
<1>2. CASE FollowerTimeout(n) \/ CandidateTimeout(n)
  <2>1. PICK b : /\ b.type = "Campaign" /\ Send(msgs, Broadcast(n, term[n] + 1, b))
                 /\ role' = [role EXCEPT ![n] = Candidate({n})] /\ UNCHANGED panics
    BY <1>2 DEF FollowerTimeout, CandidateTimeout, Campaign
  <2>2. role'[n].kind = "candidate"
    BY <1>1, <2>1 DEF Candidate
  <2>3. PICK sent : sent = Broadcast(n, term[n] + 1, b)
    OBVIOUS
  <2>4. \A s \in sent : Tells(n, s)
    BY <2>1, <2>3 DEF Broadcast, Env, Tells, LeaderTypes
  <2>5. msgs' \subseteq msgs \cup sent
    BY <2>1, <2>3, SendSubset
  <2>6. Follows(n)
    BY <2>2 DEF Follows
  <2> QED BY <2>1, <2>2, <2>4, <2>5, <2>6, PlainRoleStep
<1>3. CASE HeartbeatTick(n)
  <2>1. PICK b : /\ b.type = "Heartbeat" /\ b.readSeq = role[n].readSeq
                 /\ Send(msgs, Broadcast(n, term[n], b))
    BY <1>3 DEF HeartbeatTick, HeartbeatBody
  <2>2. UNCHANGED <<term, role, panics>> /\ role[n].kind = "leader"
    BY <1>3 DEF HeartbeatTick
  <2>3. role[n].readSeq \in Nat
    BY <2>2, LeaderFields
  <2>4. \A s \in Broadcast(n, term[n], b) : Tells(n, s)
    BY <2>1, <2>2, <2>3 DEF Broadcast, Env, Tells, LeaderTypes
  <2>5. msgs' \subseteq msgs \cup Broadcast(n, term[n], b)
    BY <2>1, SendSubset
  <2> QED BY <2>2, <2>4, <2>5, SameRoleStep
<1>4. ASSUME NEW m \in msgs, RefuseVote(n, m) PROVE RoleStep(n)
  <2>1. PICK b : /\ b.type = "CampaignResponse"
                 /\ Send(msgs \ {m}, {Env(n, m.from, m.term, b)})
                 /\ UNCHANGED <<role, term, panics>>
    <3> WITNESS [type |-> "CampaignResponse", vote |-> FALSE]
    <3> QED BY <1>4 DEF RefuseVote
  <2>2. \A s \in {Env(n, m.from, m.term, b)} : Tells(n, s)
    BY <2>1 DEF Env, Tells, LeaderTypes
  <2>3. msgs' \subseteq msgs \cup {Env(n, m.from, m.term, b)}
    BY <2>1, SendSubset
  <2> QED BY <2>1, <2>2, <2>3, SameRoleStep
<1>5. ASSUME NEW m \in msgs, Ignore(n, m) PROVE RoleStep(n)
  <2>1. PICK sent : sent = {} /\ Send(msgs \ {m}, sent) /\ UNCHANGED <<role, term, panics>>
    BY <1>5 DEF Ignore
  <2>2. msgs' \subseteq msgs \cup sent
    BY <2>1, SendSubset
  <2> QED BY <2>1, <2>2, SameRoleStep
<1>6. ASSUME NEW m \in msgs, RecordVote(n, m) PROVE RoleStep(n)
  <2>1. PICK sent : sent = {} /\ Send(msgs \ {m}, sent) /\ UNCHANGED panics
    BY <1>6 DEF RecordVote
  <2>2. role'[n].kind = "candidate"
    BY <1>1, <1>6 DEF RecordVote, Candidate
  <2>3. msgs' \subseteq msgs \cup sent
    BY <2>1, SendSubset
  <2>4. Follows(n)
    BY <2>2 DEF Follows
  <2> QED BY <2>1, <2>2, <2>3, <2>4, PlainRoleStep
<1>7. ASSUME NEW m \in msgs, BecomeLeader(n, m) PROVE RoleStep(n)
  <2> DEFINE l == Append(log[n], [term |-> term[n], command |-> Noop])
             new == [p \in Peers(n) |-> [match |-> 0, next |-> Len(log[n]) + 1,
                                         readSeq |-> 0]]
             out == Propose(l, new)
             hb == HeartbeatBody(l, commit[n], 0)
             sent == ProposalMsgs(n, term[n], out) \cup Broadcast(n, term[n], hb)
  <2>1. /\ role' = [role EXCEPT ![n] = Leader([p \in Peers(n) |-> out[p].progress], {}, {}, 0)]
        /\ Send(msgs \ {m}, sent) /\ UNCHANGED panics /\ role[n].kind = "candidate"
    BY <1>7 DEF BecomeLeader
  <2>2. l \in Log
    BY <1>1 DEF Log, Entry
  <2> HIDE DEF l
  <2>3. new \in [Peers(n) -> Progress]
    BY <1>1 DEF Progress
  <2> HIDE DEF new
  <2>4. \A s \in ProposalMsgs(n, term[n], out) : Tells(n, s)
    BY <2>2, <2>3, ProposalMsgsTell
  <2> HIDE DEF out
  <2>5. role'[n].kind = "leader" /\ role'[n].readSeq = 0
    BY <1>1, <2>1 DEF Leader
  <2>6. \A s \in Broadcast(n, term[n], hb) : Tells(n, s)
    BY <2>5 DEF Broadcast, Env, Tells, LeaderTypes, HeartbeatBody
  <2>7. \A s \in sent : Tells(n, s)
    BY <2>4, <2>6
  <2>8. msgs' \subseteq msgs \cup sent
    BY <2>1, SendSubset
  <2> HIDE DEF sent
  <2>9. Follows(n)
    BY <2>5 DEF Follows
  <2> QED BY <2>1, <2>7, <2>8, <2>9, PlainRoleStep
<1> QED BY <1>2, <1>3, <1>4, <1>5, <1>6, <1>7

\* Client requests.
LEMMA RequestRoleSteps ==
    ASSUME TypeInv, NEW n \in Node, NEW from, NEW id, NEW cl, NEW rest,
           rest \subseteq msgs, StepRequest(n, from, id, cl, rest)
    PROVE  RoleStep(n)
<1>1. UNCHANGED <<term, panics>> /\ n \in DOMAIN role /\ log[n] \in Log /\ term[n] \in Nat
    BY DEF StepRequest, TypeInv, TypeOK
<1>2. ASSUME NEW sent, \A s \in sent : Tells(n, s), Send(rest, sent), Follows(n),
             role'[n].kind = "leader" /\ role[n].kind = "leader" =>
                role'[n].readSeq >= role[n].readSeq
      PROVE  RoleStep(n)
  <2>1. msgs' \subseteq msgs \cup sent
    BY <1>2, SendSubset
  <2> QED BY <1>1, <1>2, <2>1, PlainRoleStep
<1>3. CASE AbortRequest(n, from, id, cl, rest) \/ ServeStatus(n, from, id, cl, rest)
  <2>1. PICK R : Send(rest, ReplyMsgs(n, term[n], R)) /\ UNCHANGED role
    BY <1>3 DEF AbortRequest, ServeStatus
  <2>2. PICK sent : sent = ReplyMsgs(n, term[n], R)
    OBVIOUS
  <2>3. \A s \in sent : Tells(n, s)
    BY <2>2, PlainMsgs
  <2>4. msgs' \subseteq msgs \cup sent
    BY <2>1, <2>2, SendSubset
  <2> QED BY <1>1, <2>1, <2>3, <2>4, SameRoleStep
<1>4. CASE ForwardRequest(n, from, id, cl, rest)
  <2>1. PICK b : b.type = "ClientRequest" /\ Send(rest, {Env(n, role[n].leader, term[n], b)})
    BY <1>4 DEF ForwardRequest
  <2>2. /\ role'[n].kind = "follower" /\ role[n].kind = "follower"
        /\ role'[n].leader = role[n].leader
    BY <1>1, <1>4 DEF ForwardRequest, Follower
  <2>3. \A s \in {Env(n, role[n].leader, term[n], b)} : Tells(n, s)
    BY <2>1 DEF Env, Tells, LeaderTypes
  <2>4. Follows(n)
    BY <1>1, <2>2 DEF Follows
  <2> QED BY <1>2, <2>1, <2>2, <2>3, <2>4
<1>5. CASE ProposeWrite(n, from, id, cl, rest)
  <2> DEFINE l == Append(log[n], [term |-> term[n], command |-> id])
             out == Propose(l, role[n].progress)
             sent == ProposalMsgs(n, term[n], out)
  <2>1. PICK writes :
          /\ role' = [role EXCEPT ![n] = Leader([p \in Peers(n) |-> out[p].progress],
                                               writes, role[n].reads, role[n].readSeq)]
          /\ Send(rest, sent) /\ role[n].kind = "leader" /\ id \in Write
    BY <1>5 DEF ProposeWrite
  <2>2. l \in Log
    BY <1>1, <2>1 DEF Log, Entry
  <2> HIDE DEF l
  <2>3. role[n].progress \in [Peers(n) -> Progress] /\ role[n].readSeq \in Nat
    BY <2>1, LeaderFields
  <2>4. \A s \in sent : Tells(n, s)
    BY <2>2, <2>3, ProposalMsgsTell
  <2> HIDE DEF out, sent
  <2>5. role'[n].kind = "leader" /\ role'[n].readSeq = role[n].readSeq
    BY <1>1, <2>1 DEF Leader
  <2>6. Follows(n) /\ role'[n].readSeq >= role[n].readSeq
    BY <2>3, <2>5 DEF Follows
  <2> QED BY <1>2, <2>1, <2>4, <2>6
<1>6. CASE QueueRead(n, from, id, cl, rest)
  <2>1. PICK reads, seq :
          /\ Send(rest, Broadcast(n, term[n], [type |-> "Read", seq |-> seq]))
          /\ role' = [role EXCEPT ![n] = Leader(role[n].progress, role[n].writes, reads, seq)]
          /\ seq = role[n].readSeq + 1 /\ role[n].kind = "leader"
    BY <1>6 DEF QueueRead
  <2>2. PICK sent : sent = Broadcast(n, term[n], [type |-> "Read", seq |-> seq])
    OBVIOUS
  <2>3. \A s \in sent : Tells(n, s)
    BY <2>2 DEF Broadcast, Env, Tells, LeaderTypes
  <2>4. role'[n].kind = "leader" /\ role'[n].readSeq = seq
    BY <1>1, <2>1 DEF Leader
  <2>5. Follows(n) /\ role'[n].readSeq >= role[n].readSeq
    BY <2>1, <2>4, LeaderFields DEF Follows
  <2> QED BY <1>2, <2>1, <2>2, <2>3, <2>5
<1> QED BY <1>3, <1>4, <1>5, <1>6 DEF StepRequest

\* Requests, panics and restarts.
LEMMA OtherRoleSteps ==
    ASSUME TypeInv, NEW n \in Node,
           \/ Restart(n) \/ \E id \in Request : SubmitRequest(n, id)
           \/ \E m \in msgs : HandleClientRequest(n, m) \/ Panic(n, m)
    PROVE  RoleStep(n)
<1>1. n \in DOMAIN role
    BY DEF TypeInv, TypeOK
<1>2. CASE Restart(n)
  <2>1. role'[n].kind = "follower" /\ role'[n].leader = NoNode /\ UNCHANGED <<msgs, panics>>
    BY <1>1, <1>2 DEF Restart, Follower
  <2> QED BY <2>1 DEF RoleStep, Follows
<1>3. ASSUME NEW id \in Request, SubmitRequest(n, id) PROVE RoleStep(n)
    BY <1>3, RequestRoleSteps DEF SubmitRequest
<1>4. ASSUME NEW m \in msgs, HandleClientRequest(n, m) PROVE RoleStep(n)
  <2>1. msgs \ {m} \subseteq msgs
    OBVIOUS
  <2> QED BY <1>4, <2>1, RequestRoleSteps DEF HandleClientRequest
<1>5. ASSUME NEW m \in msgs, Panic(n, m) PROVE RoleStep(n)
  <2>1. PICK sent : sent = {} /\ Send(msgs \ {m}, sent)
    BY <1>5 DEF Panic
  <2>2. role'[n].kind = "down" /\ msgs' \subseteq msgs
    BY <1>1, <1>5, <2>1, SendSubset DEF Panic, Down
  <2>3. /\ m.to = n /\ m.term >= term[n] /\ role[n].kind # "down"
        /\ panics' = panics \cup Panics(n, m)
    BY <1>5 DEF Panic
  <2> QED BY <2>2, <2>3 DEF RoleStep, Follows
<1> QED BY <1>2, <1>3, <1>4, <1>5

\* Every step of a node is one of the kind described above.
LEMMA StepIsRoleStep ==
    ASSUME TypeInv, NEW n \in Node, StepOf(n)
    PROVE  RoleStep(n)
BY FollowerRoleSteps, LeaderRoleSteps, ElectionRoleSteps, OtherRoleSteps DEF StepOf, Receive

-----------------------------------------------------------------------------
(* The invariant, and what it says of assertions.                          *)

\* The invariant holds initially: nobody leads and nothing has been sent.
LEMMA AssertInit ==
    ASSUME Init
    PROVE  AssertInv
BY DEF Init, AssertInv, LeadersAreKnown, LedBy, IsLeader, Follower, MessagesAreValid,
       ResponsesAreInRange, OnlyRestartPanics

\* Every step keeps the invariant.
LEMMA AssertNext ==
    ASSUME RaftInv, CommitInv, AssertInv, [Next]_vars
    PROVE  AssertInv'
<1>1. RaftInv'
    BY RaftInvNext
<1>2. CASE UNCHANGED vars
  <2>1. PICK n \in Node : NodeStep(n)
    <3>1. Node # {}
      BY NodeAssumption, FS_EmptySet
    <3> QED BY <1>2, <3>1, StutterIsNodeStep
  <2>2. PICK sent : sent = {} /\ msgs' \subseteq msgs \cup sent
    BY <1>2 DEF vars
  <2>3. RoleStep(n)
    BY <1>2, <2>2, SameRoleStep DEF vars, RaftInv
  <2> QED BY <1>1, <2>1, <2>3, AssertInvStep
<1>3. CASE Next
  <2>1. PICK n \in Node : StepOf(n)
    BY <1>3, NextIsAStep
  <2>2. NodeStep(n) /\ RoleStep(n)
    BY <1>1, <2>1, StepIsNodeStep, StepIsRoleStep DEF RaftInv
  <2> QED BY <1>1, <2>2, AssertInvStep
<1> QED BY <1>2, <1>3

\* In every behaviour, whatever crashes there are, the assertions of Node::step that
\* guard the log, the progress of peers and the uniqueness of the leader never fail:
\* those that can fail are about the role of the node that receives a message.
THEOREM OnlyRolesPanic == Spec => []OnlyRestartPanics
<1>1. Init => AssertInv
    BY AssertInit
<1>2. RaftInv /\ CommitInv /\ AssertInv /\ [Next]_vars => AssertInv'
    BY AssertNext
<1>3. AssertInv => OnlyRestartPanics
    BY DEF AssertInv
<1> QED BY <1>1, <1>2, <1>3, CommitInvHolds, PTL DEF Spec

-----------------------------------------------------------------------------
(* Progress.  What a leader has recorded of a peer is not enough by itself:  *)
(* the responses in flight must be true as well.                           *)

\* Node p has been in term t, and as long as it is, it has the first i entries of
\* the leader of t.
HasUpTo(p, t, i) ==
    i > 0 => /\ term[p] >= t
             /\ term[p] = t => \A l \in Node : IsLeader(l) /\ term[l] = t => Agrees(log[p], log[l], i)

ProgressInv ==
    /\ \A m \in Responses : HasUpTo(m.from, m.term, m.body.matchIndex)
    /\ \A n \in Node : IsLeader(n) =>
          \A p \in Peers(n) : HasUpTo(p, term[n], role[n].progress[p].match)

\* A node keeps what it has of the leader's log, whatever it splices.
LEMMA HasUpToStep ==
    ASSUME RaftInv, RaftInv', NEW n \in Node, NodeStep(n), NEW p \in Node,
           NEW t \in Nat, Owned(t), NEW i \in Nat, HasUpTo(p, t, i)
    PROVE  HasUpTo(p, t, i)'
<1>1. term[p] \in Nat /\ term'[p] \in Nat /\ term'[p] >= term[p] /\ log[p] \in Log /\ log'[p] \in Log
    BY StepTypes
<1>2. i > 0 => term[p] >= t /\ term'[p] >= t
    BY <1>1 DEF HasUpTo
<1>3. ASSUME i > 0, term'[p] = t, NEW l \in Node, IsLeader(l)', term'[l] = t
      PROVE  Agrees(log'[p], log'[l], i)
  <2>1. IsLeader(l) /\ term[l] = t
    BY <1>3, OldLeader
  <2>2. term[p] = t /\ Agrees(log[p], log[l], i)
    BY <1>1, <1>2, <1>3, <2>1 DEF HasUpTo
  <2>3. log[l] \in Log /\ log'[l] \in Log /\ Len(log[l]) \in Nat /\ i <= Len(log[l]) /\ i <= Len(log[p])
    BY <2>2, StepTypes DEF Agrees
  <2>4. Agrees(log[l], log'[l], i)
    <3>1. Agrees(log[l], log'[l], Len(log[l]))
      BY <1>3, <2>1, LeaderLogGrows
    <3> QED BY <2>3, <3>1, AgreesFacts
  <2>5. Agrees(log'[p], log[p], i)
    <3>1. CASE log'[p] = log[p]
      BY <2>3, <3>1 DEF Agrees
    <3>2. ASSUME NEW e, Proposes(n, e), p = n PROVE Agrees(log'[p], log[p], i)
      <4>1. Agrees(log[p], log'[p], i)
        BY <1>1, <2>3, <3>2, GrownAgrees DEF Proposes
      <4> QED BY <1>1, <4>1, AgreesFacts
    <3>3. ASSUME NEW m \in msgs, Splices(n, m), p = n PROVE Agrees(log'[p], log[p], i)
      <4>1. m \in Appends /\ m.term = t
        BY <1>3, <3>3 DEF Splices
      <4>2. /\ m.body.baseIndex \in Nat /\ m.body.entries \in Log /\ Len(m.body.entries) \in Nat
            /\ IsSlice(m.body, log[l])
        BY <2>1, <4>1, AppendFields DEF RaftInv, MatchingInv, AppendsAreSlices
      <4>3. Agrees(log[l], log[p], i)
        BY <1>1, <2>2, <2>3, AgreesFacts
      <4>4. \A k \in 1..Len(m.body.entries) : m.body.baseIndex + k <= i =>
               Has(log[p], m.body.baseIndex + k, m.body.entries[k].term)
        <5>1. PICK b : b = m.body
          OBVIOUS
        <5> QED BY <1>1, <2>3, <4>2, <4>3, <5>1, SliceHas
      <4>5. Agrees(log[p], log'[p], i)
        BY <2>3, <3>3, <4>4, SpliceKeeps
      <4> QED BY <1>1, <4>5, AgreesFacts
    <3> QED BY <3>1, <3>2, <3>3, StepTypes DEF NodeStep, LogStep
  <2>6. Agrees(log'[p], log[l], i)
    BY <1>1, <2>2, <2>3, <2>5, AgreesFacts
  <2> QED BY <1>1, <2>3, <2>4, <2>6, AgreesFacts
<1> QED BY <1>2, <1>3 DEF HasUpTo

\* The fields of responses after a step.
LEMMA ResponseFieldsNext ==
    (TypeInv => \A r \in Responses :
                  r.body.matchIndex \in Nat /\ r.term \in Nat /\ r.from \in Node /\ r.to \in Node)'
BY ResponseFields, PTL

\* A step of this kind keeps the invariant.
LEMMA ProgressInvStep ==
    ASSUME RaftInv, RaftInv', CommitInv, ProgressInv, NEW n \in Node, NodeStep(n)
    PROVE  ProgressInv'
<1>1. \A m \in Responses : m.term \in Nat /\ Owned(m.term)
    BY ResponseFields DEF RaftInv, MatchingInv, TermsAreOwned, Responses, LeaderResponseTypes
<1>2. ASSUME NEW m \in Responses'
      PROVE  (HasUpTo(m.from, m.term, m.body.matchIndex))'
  <2>1. PICK p \in Node, t \in Nat, i \in Nat : p = m.from /\ t = m.term /\ i = m.body.matchIndex
    BY <1>2, ResponseFieldsNext DEF RaftInv
  <2>2. CASE m \in msgs
    <3>1. m \in Responses
      BY <1>2, <2>2 DEF Responses
    <3>2. HasUpTo(p, t, i) /\ Owned(t)
      BY <1>1, <2>1, <3>1 DEF ProgressInv
    <3>3. HasUpTo(p, t, i)'
      BY <3>2, HasUpToStep
    <3> QED BY <2>1, <3>3
  <2>3. CASE m \notin msgs
    <3>1. m \in msgs' \ msgs /\ m.body.type \in {"AppendResponse", "HeartbeatResponse"}
      BY <1>2, <2>3 DEF Responses
    <3>2. Responds(n, m)
      BY <3>1 DEF NodeStep, CommitStep, Sends
    <3>3. p = n /\ t = term'[n]
      BY <2>1, <3>2 DEF Responds
    <3>4. Owned(t)
      <4>1. PICK r \in msgs : r.body.type \in LeaderTypes /\ m.term = r.term
        BY <3>1 DEF NodeStep, LogStep, LeaderResponseTypes
      <4> QED BY <2>1, <4>1 DEF RaftInv, MatchingInv, TermsAreOwned
    <3>5. ASSUME NEW l \in Node, IsLeader(l)', term'[l] = t PROVE Agrees(log'[p], log'[l], i)
      <4>1. IsLeader(l) /\ term[l] = t
        BY <3>4, <3>5, OldLeader
      <4>2. Agrees(log'[n], log[l], i)
        BY <2>1, <3>2, <4>1, RespondsTruly DEF CommitInv
      <4>3. Agrees(log[l], log'[l], Len(log[l]))
        BY <3>5, <4>1, LeaderLogGrows
      <4>4. log[l] \in Log /\ log'[l] \in Log /\ log'[n] \in Log /\ Len(log[l]) \in Nat
        BY StepTypes
      <4>5. Agrees(log[l], log'[l], i)
        BY <4>2, <4>3, <4>4, AgreesFacts DEF Agrees
      <4> QED BY <3>3, <4>2, <4>4, <4>5, AgreesFacts
    <3>6. HasUpTo(p, t, i)'
      BY <3>3, <3>5 DEF HasUpTo
    <3> QED BY <2>1, <3>6
  <2> QED BY <2>2, <2>3
<1>3. ASSUME NEW a \in Node, IsLeader(a)', NEW p \in Peers(a)
      PROVE  (HasUpTo(p, term[a], role[a].progress[p].match))'
  <2>1. PICK t, i : t = term'[a] /\ i = role'[a].progress[p].match
    OBVIOUS
  <2>2. p \in Node /\ t \in Nat
    BY <2>1, StepTypes DEF Peers
  <2>3. ASSUME IsLeader(a), term[a] = t, i \in Nat, HasUpTo(p, t, i) PROVE HasUpTo(p, t, i)'
    BY <2>2, <2>3, LeaderOwns, HasUpToStep DEF RaftInv
  <2>4. ASSUME IsLeader(a) PROVE /\ role[a].progress[p].match \in Nat
                                 /\ HasUpTo(p, term[a], role[a].progress[p].match)
    BY <2>4, LeaderFields DEF RaftInv, IsLeader, Progress, ProgressInv
  <2>5. CASE a # n
    <3>1. role'[a] = role[a] /\ term'[a] = term[a]
      BY <2>5, StepTypes
    <3> QED BY <1>3, <2>1, <2>3, <2>4, <3>1 DEF IsLeader
  <2>6. CASE a = n
    <3>1. Learns(n, p)
      BY <1>3, <2>6 DEF NodeStep, CommitStep, IsLeader
    <3>2. CASE i = 0
      BY <2>1, <3>2 DEF HasUpTo
    <3>3. IsLeader(n) => term'[n] = term[n]
      BY <1>3, <2>6, LeadersStep DEF RaftInv, NodeStep
    <3>4. CASE IsLeader(n) /\ role'[n].progress[p].match = role[n].progress[p].match
      BY <2>1, <2>3, <2>4, <2>6, <3>3, <3>4
    <3>5. ASSUME IsLeader(n), NEW m \in Responses, m.from = p, m.term = term[n],
                 role'[n].progress[p].match = m.body.matchIndex
          PROVE  HasUpTo(p, t, i)'
      <4>1. i \in Nat /\ HasUpTo(p, t, i)
        BY <2>1, <2>6, <3>3, <3>5, ResponseFields DEF ProgressInv, RaftInv
      <4> QED BY <2>1, <2>3, <2>6, <3>3, <3>5, <4>1
    <3> QED BY <2>1, <2>6, <3>1, <3>2, <3>4, <3>5 DEF Learns
  <2> QED BY <2>5, <2>6
<1> QED BY <1>2, <1>3 DEF ProgressInv

\* In every behaviour, a leader's progress is true: a peer that is in its term has
\* the leader's log up to the match index, however responses are delayed and
\* reordered and whatever the peer splices afterwards (Leader::step, Progress::advance),
\* and the next index is in the range that Progress documents.
THEOREM ProgressStaysTrue == Spec => []ProgressIsTrue
<1>1. Init => ProgressInv
    BY DEF Init, ProgressInv, Responses, IsLeader, Follower
<1>2. RaftInv /\ CommitInv /\ ProgressInv /\ [Next]_vars => ProgressInv'
  <2>1. SUFFICES ASSUME RaftInv, CommitInv, ProgressInv, [Next]_vars PROVE ProgressInv'
    OBVIOUS
  <2>2. RaftInv'
    BY <2>1, RaftInvNext
  <2>3. PICK n \in Node : NodeStep(n)
    BY <2>1, <2>2, NextIsNodeStep
  <2> QED BY <2>1, <2>2, <2>3, ProgressInvStep
<1>3. RaftInv /\ ProgressInv => ProgressIsTrue
  <2>1. SUFFICES ASSUME RaftInv, ProgressInv, NEW n \in Node, IsLeader(n)
                 PROVE  /\ LastTerm(log[n]) = term[n]
                        /\ \A p \in Peers(n) :
                              LET pr == role[n].progress[p]
                              IN  /\ pr.next \in pr.match + 1..Len(log[n]) + 1
                                  /\ term[p] = term[n] =>
                                        SubSeq(log[p], 1, pr.match) = SubSeq(log[n], 1, pr.match)
    BY DEF ProgressIsTrue
  <2>2. ASSUME NEW p \in Peers(n), term[p] = term[n]
        PROVE  SubSeq(log[p], 1, role[n].progress[p].match)
                  = SubSeq(log[n], 1, role[n].progress[p].match)
    <3>1. PICK i : i = role[n].progress[p].match
      OBVIOUS
    <3>2. i \in Nat /\ log[n] \in Log /\ log[p] \in Log
      BY <2>1, <3>1, LeaderFields DEF RaftInv, TypeInv, TypeOK, IsLeader, Progress, Peers
    <3>3. Agrees(log[p], log[n], i)
      <4>1. CASE i = 0
        <5>1. Len(log[n]) \in Nat /\ Len(log[p]) \in Nat
          BY <3>2, LenProperties DEF Log
        <5> QED BY <4>1, <5>1 DEF Agrees
      <4>2. CASE i # 0
        BY <2>1, <2>2, <3>1, <3>2, <4>2 DEF ProgressInv, HasUpTo
      <4> QED BY <4>1, <4>2
    <3> QED BY <3>1, <3>2, <3>3, AgreeingPrefixes
  <2> QED BY <2>1, <2>2 DEF RaftInv, MatchingInv, LeaderState
<1> QED BY <1>1, <1>2, <1>3, CommitInvHolds, PTL DEF Spec

-----------------------------------------------------------------------------
(* Roles and requests: a client is told one outcome only, and while no     *)
(* node restarts no assertion fails at all.                                *)
(*                                                                         *)
(* A node holds a request of its own client when it is among the           *)
(* forwarded ones of a follower, or the writes and reads of a leader: its  *)
(* role then has to answer it.  One node at most holds a request, once,    *)
(* and only while the client waits; a step that answers it lets go of it.  *)

\* Clients and what they know and are told.
LEMMA ClientTypes ==
    TypeInv =>
        /\ \A i \in Request :
              /\ client[i].status \in {"idle", "pending", "ok", "abort"}
              /\ client[i].seen \in SUBSET Write /\ client[i].value \in SUBSET Write
        /\ \A m \in msgs :
              /\ m.body.type = "ClientRequest" => m.body.id \in Request
              /\ m.body.type = "ClientResponse" =>
                    /\ m.body.id \in Request /\ m.body.status \in {"ok", "abort"}
                    /\ m.body.value \in SUBSET Write
        /\ \A l \in Node : IsLeader(l) =>
              /\ \A x \in role[l].writes : x.id \in Write /\ x.index \in Nat /\ x.from \in Node
              /\ \A x \in role[l].reads : x.id \in Read /\ x.seq \in Nat /\ x.from \in Node
<1> SUFFICES ASSUME TypeInv
             PROVE  /\ \A i \in Request :
                          /\ client[i].status \in {"idle", "pending", "ok", "abort"}
                          /\ client[i].seen \in SUBSET Write /\ client[i].value \in SUBSET Write
                    /\ \A m \in msgs :
                          /\ m.body.type = "ClientRequest" => m.body.id \in Request
                          /\ m.body.type = "ClientResponse" =>
                                /\ m.body.id \in Request /\ m.body.status \in {"ok", "abort"}
                                /\ m.body.value \in SUBSET Write
                    /\ \A l \in Node : IsLeader(l) =>
                          /\ \A x \in role[l].writes :
                                x.id \in Write /\ x.index \in Nat /\ x.from \in Node
                          /\ \A x \in role[l].reads :
                                x.id \in Read /\ x.seq \in Nat /\ x.from \in Node
    OBVIOUS
<1>1. \A i \in Request : client[i] \in ClientView
    BY DEF TypeInv, TypeOK
<1>2. \A m \in msgs : m.body \in Body
    BY DEF TypeInv, TypeOK, Envelope
<1>3. ASSUME NEW l \in Node, IsLeader(l)
      PROVE  /\ \A x \in role[l].writes : x.id \in Write /\ x.index \in Nat /\ x.from \in Node
             /\ \A x \in role[l].reads : x.id \in Read /\ x.seq \in Nat /\ x.from \in Node
  <2>1. /\ role[l].writes \in SUBSET [index : Nat, from : Node, id : Write]
        /\ role[l].reads \in SUBSET [seq : Nat, from : Node, id : Read]
    BY <1>3, LeaderFields DEF IsLeader
  <2> QED BY <2>1
<1>4. \A i \in Request :
        /\ client[i].status \in {"idle", "pending", "ok", "abort"}
        /\ client[i].seen \in SUBSET Write /\ client[i].value \in SUBSET Write
    BY <1>1 DEF ClientView
<1>5. \A m \in msgs :
        /\ m.body.type = "ClientRequest" => m.body.id \in Request
        /\ m.body.type = "ClientResponse" =>
              /\ m.body.id \in Request /\ m.body.status \in {"ok", "abort"}
              /\ m.body.value \in SUBSET Write
    BY <1>2, BodyFields
<1> QED BY <1>3, <1>4, <1>5

\* The same after a step.
LEMMA ClientTypesNext ==
    (TypeInv =>
        /\ \A i \in Request :
              /\ client[i].status \in {"idle", "pending", "ok", "abort"}
              /\ client[i].seen \in SUBSET Write /\ client[i].value \in SUBSET Write
        /\ \A m \in msgs :
              /\ m.body.type = "ClientRequest" => m.body.id \in Request
              /\ m.body.type = "ClientResponse" =>
                    /\ m.body.id \in Request /\ m.body.status \in {"ok", "abort"}
                    /\ m.body.value \in SUBSET Write
        /\ \A l \in Node : IsLeader(l) =>
              /\ \A x \in role[l].writes : x.id \in Write /\ x.index \in Nat /\ x.from \in Node
              /\ \A x \in role[l].reads : x.id \in Read /\ x.seq \in Nat /\ x.from \in Node)'
BY ClientTypes, PTL

\* A client sees its request change only if there is a response to it.
LEMMA AnswerCases ==
    ASSUME NEW cl \in [Request -> ClientView], NEW n, NEW R, NEW i \in Request
    PROVE  \/ Answer(cl, n, R)[i] = cl[i]
           \/ \E r \in R : /\ r.to = n /\ r.id = i
                           /\ Answer(cl, n, R)[i].status = r.status
                           /\ Answer(cl, n, R)[i].value = r.value
                           /\ Answer(cl, n, R)[i].seen = cl[i].seen
<1> DEFINE mine == {r \in R : r.to = n /\ r.id = i}
           r0 == CHOOSE r \in mine : TRUE
<1>1. CASE mine = {}
    BY <1>1 DEF Answer
<1>2. CASE mine # {}
  <2>1. r0 \in mine
    BY <1>2
  <2>2. Answer(cl, n, R)[i] = [cl[i] EXCEPT !.status = r0.status, !.value = r0.value]
    BY <1>2 DEF Answer
  <2>3. cl[i] \in ClientView
    OBVIOUS
  <2> HIDE DEF r0
  <2>4. /\ Answer(cl, n, R)[i].status = r0.status /\ Answer(cl, n, R)[i].value = r0.value
        /\ Answer(cl, n, R)[i].seen = cl[i].seen
    BY <2>2, <2>3 DEF ClientView
  <2> QED BY <2>1, <2>4
<1> QED BY <1>1, <1>2

-----------------------------------------------------------------------------
(* Roles, and the requests that depend on them.  While no node restarts, a  *)
(* node that led a term or followed in it still does, or is in a later term; *)
(* that is why messages about a role find it.                              *)

\* Node p leads term t, or has left it.
Leads(p, t) == term[p] > t \/ (IsLeader(p) /\ term[p] = t)

\* Node p follows l in term t, or has left it.
FollowsIn(p, l, t) ==
    term[p] > t \/ (term[p] = t /\ role[p].kind = "follower" /\ role[p].leader = l)

\* The requests that a leader has to answer.
Requests(n) == role[n].writes \cup role[n].reads

MessagesFindRoles ==
    \A m \in msgs :
        /\ m.body.type \in LeaderTypes => Leads(m.from, m.term)
        /\ m.body.type \in LeaderResponseTypes \cup {"ClientRequest"} => Leads(m.to, m.term)
        /\ m.body.type = "ClientRequest" => FollowsIn(m.from, m.to, m.term)
        /\ m.body.type = "ClientResponse" => FollowsIn(m.to, m.from, m.term)

RolesAreKept ==
    \A n \in Node :
        /\ role[n].kind = "follower" /\ role[n].leader # NoNode => Leads(role[n].leader, term[n])
        /\ IsLeader(n) => \A x \in Requests(n) : x.from = n \/ FollowsIn(x.from, n, term[n])

RolesInv == restarts = 0 => MessagesFindRoles /\ RolesAreKept /\ panics = {}

\* Node n has to answer request i of its own client.
Holds(n, i) ==
    \/ role[n].kind = "follower" /\ i \in role[n].forwarded
    \/ IsLeader(n) /\ \E x \in Requests(n) : x.from = n /\ x.id = i

\* One node at most, once, and as long as the client waits.
HoldersInv ==
    /\ \A n \in Node : \A i \in Request :
          Holds(n, i) => client[i].status = "pending" /\ \A p \in Node : Holds(p, i) => p = n
    /\ \A n \in Node : IsLeader(n) =>
          \A x, y \in Requests(n) : x.from = n /\ y.from = n /\ x.id = y.id => x = y

-----------------------------------------------------------------------------
(* What a step of node n does to its role and to the requests that it has  *)
(* to answer.                                                              *)

\* Node n has to answer a request of node p, or has just received one.
AnswersTo(n, p) ==
    \/ IsLeader(n) /\ \E x \in Requests(n) : x.from = p
    \/ \E m \in msgs : /\ m.body.type = "ClientRequest" /\ m.to = n /\ m.from = p
                       /\ m.term = term[n]

KeepsRole(n) ==
    \/ restarts' # 0
    \/ role'[n].kind = "down" /\ panics' # {}
    \/ term'[n] > term[n]
    \/ /\ term'[n] = term[n]
       /\ IsLeader(n) => role'[n].kind = "leader"
       /\ role[n].kind = "follower" /\ role[n].leader # NoNode =>
             role'[n].kind = "follower" /\ role'[n].leader = role[n].leader

Routes(n, m) ==
    /\ m.body.type \in LeaderResponseTypes =>
          \E r \in msgs : r.body.type \in LeaderTypes /\ r.from = m.to /\ r.term = m.term
    /\ m.body.type = "ClientRequest" =>
          /\ m.from = n /\ m.term = term[n] /\ term'[n] = term[n]
          /\ role[n].kind = "follower" /\ role[n].leader = m.to
          /\ role'[n].kind = "follower" /\ role'[n].leader = m.to
    /\ m.body.type = "ClientResponse" => m.from = n /\ m.term = term[n] /\ AnswersTo(n, m.to)

\* Request y of leader n is one that it had to answer before, or the only new one.
Takes(n, y) ==
    \/ IsLeader(n) /\ y \in Requests(n)
    \/ /\ y.from = n => client[y.id].status = "idle"
       /\ y.from # n => AnswersTo(n, y.from)
       /\ \A z \in Requests(n)' : z = y \/ (IsLeader(n) /\ z \in Requests(n))

TakesRequests(n) ==
    role'[n].kind = "leader" =>
        \A y \in Requests(n)' : term'[n] = term[n] /\ Takes(n, y)

\* Nothing happens to request i at n, or n answers it, or its client submits it.
Settles(n, i) ==
    \/ client'[i] = client[i] /\ (Holds(n, i)' => Holds(n, i))
    \/ Holds(n, i) /\ ~Holds(n, i)'
    \/ /\ client[i].status = "idle" /\ client'[i].status # "idle"
       /\ Holds(n, i)' => client'[i].status = "pending"

RequestStep(n) ==
    /\ restarts' = 0 => restarts = 0
    /\ KeepsRole(n)
    /\ \A m \in msgs' \ msgs : Routes(n, m)
    /\ TakesRequests(n)
    /\ \A i \in Request : Settles(n, i)

-----------------------------------------------------------------------------
(* Every step of this kind keeps the invariants.                           *)

\* Requests are held once and while their clients wait.
LEMMA HoldersStep ==
    ASSUME TypeInv, TypeInv', HoldersInv, NEW n \in Node, RequestStep(n),
           \A p \in Node : p # n => role'[p] = role[p]
    PROVE  HoldersInv'
<1>1. ASSUME NEW p \in Node, NEW i \in Request, p # n PROVE Holds(p, i)' <=> Holds(p, i)
    BY <1>1 DEF Holds, IsLeader, Requests
<1>2. ASSUME NEW p \in Node, NEW i \in Request, Holds(p, i)'
      PROVE  client'[i].status = "pending" /\ \A q \in Node : Holds(q, i)' => q = p
  <2>1. Settles(n, i)
    BY DEF RequestStep
  <2>2. CASE client'[i] = client[i] /\ (Holds(n, i)' => Holds(n, i))
    BY <1>1, <1>2, <2>2 DEF HoldersInv
  <2>3. CASE Holds(n, i) /\ ~Holds(n, i)'
    BY <1>1, <1>2, <2>3 DEF HoldersInv
  <2>4. CASE /\ client[i].status = "idle" /\ client'[i].status # "idle"
             /\ Holds(n, i)' => client'[i].status = "pending"
    <3>1. \A q \in Node : ~Holds(q, i)
      BY <2>4 DEF HoldersInv
    <3> QED BY <1>1, <1>2, <2>4, <3>1
  <2> QED BY <2>1, <2>2, <2>3, <2>4 DEF Settles
<1>3. ASSUME NEW p \in Node, IsLeader(p)', NEW x \in Requests(p)', NEW y \in Requests(p)',
             x.from = p, y.from = p, x.id = y.id
      PROVE  x = y
  <2>1. CASE p # n
    BY <1>3, <2>1 DEF HoldersInv, IsLeader, Requests
  <2>2. CASE p = n
    <3>1. Takes(n, x) /\ Takes(n, y)
      BY <1>3, <2>2 DEF RequestStep, TakesRequests, IsLeader
    <3>2. CASE IsLeader(n) /\ x \in Requests(n) /\ y \in Requests(n)
      BY <1>3, <2>2, <3>2 DEF HoldersInv
    <3>3. ASSUME IsLeader(n), NEW old \in Requests(n), old.from = n,
                 client[old.id].status = "idle"
          PROVE  FALSE
      <4>1. old.id \in Request
        BY <3>3, ClientTypes DEF Requests, Request
      <4>2. Holds(n, old.id)
        BY <3>3 DEF Holds
      <4> QED BY <3>3, <4>1, <4>2 DEF HoldersInv
    <3> QED BY <1>3, <2>2, <3>1, <3>2, <3>3 DEF Takes
  <2> QED BY <2>1, <2>2
<1> QED BY <1>2, <1>3 DEF HoldersInv

\* Nodes that led or followed still do, or have left the term.
LEMMA RolesStep ==
    ASSUME TypeInv, TypeInv', NEW n \in Node, KeepsRole(n), restarts' = 0, panics' = {},
           \A p \in Node : p # n => term'[p] = term[p] /\ role'[p] = role[p],
           term'[n] >= term[n], NEW p \in Node, NEW t \in Nat
    PROVE  /\ Leads(p, t) => Leads(p, t)'
           /\ \A l \in Node : FollowsIn(p, l, t) => FollowsIn(p, l, t)'
<1>1. term[p] \in Nat /\ term'[p] \in Nat
    BY DEF TypeInv, TypeOK
<1>2. CASE p # n
    BY <1>2 DEF Leads, FollowsIn, IsLeader
<1>3. CASE p = n
  <2>1. \A l \in Node : l # NoNode
    BY NodeAssumption
  <2>2. \/ term'[n] > term[n]
        \/ /\ term'[n] = term[n]
           /\ IsLeader(n) => role'[n].kind = "leader"
           /\ role[n].kind = "follower" /\ role[n].leader # NoNode =>
                 role'[n].kind = "follower" /\ role'[n].leader = role[n].leader
    BY DEF KeepsRole
  <2> QED BY <1>1, <1>3, <2>1, <2>2 DEF Leads, FollowsIn, IsLeader
<1> QED BY <1>2, <1>3

\* Messages find the roles that they are about, so no assertion fails.
LEMMA RolesPreventPanics ==
    ASSUME RaftInv, CommitInv, AssertInv, MessagesFindRoles,
           NEW n \in Node, NEW m \in msgs, m.to = n, m.term >= term[n]
    PROVE  Panics(n, m) = {}
<1>1. m.term \in Nat /\ term[n] \in Nat
    BY DEF RaftInv, TypeInv, TypeOK, Envelope
<1>2. Panics(n, m) \subseteq {"unexpected message", "client request from other node",
                              "client response from non-leader"}
    BY PanicsAreAboutRoles DEF AssertInv
<1>3. m.body.type \in LeaderResponseTypes \cup {"ClientRequest"} =>
        m.term = term[n] /\ role[n].kind = "leader"
    BY <1>1 DEF MessagesFindRoles, Leads, IsLeader
<1>4. m.body.type = "ClientResponse" =>
        m.term = term[n] /\ role[n].kind = "follower" /\ FollowerIn(n, m).leader = m.from
    BY <1>1 DEF MessagesFindRoles, FollowsIn, FollowerIn
<1>5. "unexpected message" \notin Panics(n, m)
    BY <1>1, <1>3, <1>4 DEF Panics
<1>6. "client request from other node" \notin Panics(n, m)
    BY <1>1, <1>3 DEF Panics
<1>7. "client response from non-leader" \notin Panics(n, m)
    BY <1>1, <1>4 DEF Panics
<1> QED BY <1>2, <1>5, <1>6, <1>7

\* Messages and roles stay in agreement, as long as no node restarts.
LEMMA RolesInvStep ==
    ASSUME RaftInv, RaftInv', CommitInv, AssertInv, RolesInv, NEW n \in Node, NodeStep(n),
           RoleStep(n), RequestStep(n)
    PROVE  RolesInv'
<1>1. SUFFICES ASSUME restarts' = 0
               PROVE  MessagesFindRoles' /\ RolesAreKept' /\ panics' = {}
    BY DEF RolesInv
<1>2. MessagesFindRoles /\ RolesAreKept /\ panics = {}
    BY <1>1 DEF RolesInv, RequestStep
<1>3. panics' = {}
    BY <1>2, RolesPreventPanics DEF RoleStep
<1>4. /\ TypeInv /\ TypeInv' /\ term'[n] >= term[n]
      /\ \A p \in Node : p # n => term'[p] = term[p] /\ role'[p] = role[p]
    BY StepTypes DEF RaftInv
<1>5. \A p \in Node, t \in Nat :
        /\ Leads(p, t) => Leads(p, t)'
        /\ \A l \in Node : FollowsIn(p, l, t) => FollowsIn(p, l, t)'
    BY <1>1, <1>3, <1>4, RolesStep DEF RequestStep
<1>6. /\ msgs \subseteq Envelope /\ msgs' \subseteq Envelope
      /\ term \in [Node -> Nat] /\ term' \in [Node -> Nat]
    BY <1>4 DEF TypeInv, TypeOK
<1>7. ASSUME NEW p \in Node, AnswersTo(n, p), p # n PROVE FollowsIn(p, n, term[n])
    BY <1>2, <1>7 DEF AnswersTo, RolesAreKept, MessagesFindRoles
<1>8. ASSUME NEW m \in msgs'
      PROVE  /\ m.body.type \in LeaderTypes => Leads(m.from, m.term)'
             /\ m.body.type \in LeaderResponseTypes \cup {"ClientRequest"} =>
                   Leads(m.to, m.term)'
             /\ m.body.type = "ClientRequest" => FollowsIn(m.from, m.to, m.term)'
             /\ m.body.type = "ClientResponse" => FollowsIn(m.to, m.from, m.term)'
  <2>1. PICK p \in Node, q \in Node, t \in Nat : p = m.from /\ q = m.to /\ t = m.term /\ p # q
    BY <1>6, <1>8 DEF Envelope
  <2>2. CASE m \in msgs
    <3>1. /\ m.body.type \in LeaderTypes => Leads(p, t)
          /\ m.body.type \in LeaderResponseTypes \cup {"ClientRequest"} => Leads(q, t)
          /\ m.body.type = "ClientRequest" => FollowsIn(p, q, t)
          /\ m.body.type = "ClientResponse" => FollowsIn(q, p, t)
      BY <1>2, <2>1, <2>2 DEF MessagesFindRoles
    <3>2. /\ m.body.type \in LeaderTypes => Leads(p, t)'
          /\ m.body.type \in LeaderResponseTypes \cup {"ClientRequest"} => Leads(q, t)'
          /\ m.body.type = "ClientRequest" => FollowsIn(p, q, t)'
          /\ m.body.type = "ClientResponse" => FollowsIn(q, p, t)'
      BY <1>5, <3>1
    <3> QED BY <2>1, <3>2 DEF Leads, FollowsIn, IsLeader
  <2>3. CASE m \notin msgs
    <3>1. Routes(n, m)
      BY <1>8, <2>3 DEF RequestStep
    <3>2. ASSUME m.body.type \in LeaderTypes PROVE Leads(p, t)'
      BY <1>8, <2>1, <2>3, <3>2
      DEF RoleStep, Tells, NodeStep, LogStep, Leads, IsLeader
    <3>3. ASSUME m.body.type \in LeaderResponseTypes PROVE Leads(q, t)'
      <4>1. Leads(q, t)
        BY <1>2, <2>1, <3>1, <3>3 DEF Routes, MessagesFindRoles
      <4> QED BY <1>5, <4>1
    <3>4. ASSUME m.body.type = "ClientRequest" PROVE Leads(q, t)' /\ FollowsIn(p, q, t)'
      <4>1. /\ p = n /\ t = term[n] /\ term'[n] = t
            /\ role[n].kind = "follower" /\ role[n].leader = q
            /\ role'[n].kind = "follower" /\ role'[n].leader = q
        BY <2>1, <3>1, <3>4 DEF Routes
      <4>2. Leads(q, t)
        BY <1>2, <4>1, NodeAssumption DEF RolesAreKept
      <4> QED BY <1>5, <4>1, <4>2 DEF FollowsIn
    <3>5. ASSUME m.body.type = "ClientResponse" PROVE FollowsIn(q, p, t)'
      <4>1. p = n /\ t = term[n] /\ AnswersTo(n, q)
        BY <2>1, <3>1, <3>5 DEF Routes
      <4>2. FollowsIn(q, p, t)
        BY <1>7, <2>1, <4>1
      <4> QED BY <1>5, <4>2
    <3> QED BY <2>1, <3>2, <3>3, <3>4, <3>5 DEF Leads, FollowsIn, IsLeader
  <2> QED BY <2>2, <2>3
<1>9. ASSUME NEW a \in Node, role'[a].kind = "follower", role'[a].leader # NoNode
      PROVE  Leads(role[a].leader, term[a])'
  <2>1. PICK l \in Node, t \in Nat : l = role'[a].leader /\ t = term'[a]
    <3>1. PICK r \in Role(a) : r = role'[a]
      BY <1>4 DEF TypeInv, TypeOK
    <3>2. r \in FollowerRole(a)
      BY <1>9, <3>1, RoleFields
    <3>3. role'[a].leader \in Node
      BY <1>9, <3>1, <3>2 DEF FollowerRole, Peers
    <3> QED BY <1>6, <3>3
  <2>2. Leads(l, t)
    <3>1. CASE a # n
      BY <1>2, <1>4, <1>9, <2>1, <3>1 DEF RolesAreKept
    <3>2. CASE a = n
      <4>1. CASE role[n].kind = "follower" /\ role'[n].leader = role[n].leader /\ term'[n] = term[n]
        BY <1>2, <1>9, <2>1, <3>2, <4>1 DEF RolesAreKept
      <4>2. ASSUME NEW m \in msgs, m.body.type \in LeaderTypes, m.term = term'[n],
                   role'[n].leader = m.from
            PROVE  Leads(l, t)
        BY <1>2, <2>1, <3>2, <4>2 DEF MessagesFindRoles
      <4> QED BY <1>9, <3>2, <4>1, <4>2 DEF RoleStep, Follows
    <3> QED BY <3>1, <3>2
  <2>3. Leads(l, t)'
    BY <1>5, <2>2
  <2> QED BY <2>1, <2>3 DEF Leads, IsLeader
<1>10. ASSUME NEW a \in Node, IsLeader(a)', NEW x \in Requests(a)', x.from # a
       PROVE  FollowsIn(x.from, a, term[a])'
  <2>1. PICK p \in Node, t \in Nat : p = x.from /\ t = term'[a]
    <3>1. x.from \in Node
      BY <1>4, <1>10, ClientTypesNext DEF Requests
    <3> QED BY <1>6, <3>1
  <2>2. FollowsIn(p, a, t)
    <3>1. CASE a # n
      BY <1>2, <1>4, <1>10, <2>1, <3>1 DEF RolesAreKept, IsLeader, Requests
    <3>2. CASE a = n
      <4>1. term'[n] = term[n] /\ Takes(n, x)
        BY <1>10, <3>2 DEF RequestStep, TakesRequests, IsLeader
      <4>2. CASE IsLeader(n) /\ x \in Requests(n)
        BY <1>2, <1>10, <2>1, <3>2, <4>1, <4>2 DEF RolesAreKept
      <4>3. CASE AnswersTo(n, x.from)
        BY <1>7, <1>10, <2>1, <3>2, <4>1, <4>3
      <4> QED BY <1>10, <3>2, <4>1, <4>2, <4>3 DEF Takes
    <3> QED BY <3>1, <3>2
  <2>3. FollowsIn(p, a, t)'
    BY <1>5, <2>2
  <2> QED BY <2>1, <2>3 DEF FollowsIn
<1>11. MessagesFindRoles'
    BY <1>8 DEF MessagesFindRoles
<1>12. RolesAreKept'
    BY <1>9, <1>10 DEF RolesAreKept
<1> QED BY <1>3, <1>11, <1>12
-----------------------------------------------------------------------------
(* The actions are such steps.                                             *)

\* Messages that are not about requests and answer no leader.
Apart(S) ==
    \A m \in S :
        m.body.type \notin LeaderResponseTypes \cup {"ClientRequest", "ClientResponse"}

\* They may always be sent.
LEMMA ApartMsgs ==
    ASSUME NEW n, NEW t
    PROVE  /\ \A b : b.type \notin LeaderResponseTypes \cup {"ClientRequest", "ClientResponse"} =>
                 Apart(Broadcast(n, t, b)) /\ \A p : Apart({Env(n, p, t, b)})
           /\ \A l, progress : Apart(ProposalMsgs(n, t, Propose(l, progress)))
           /\ \A p, l, pr, probe :
                 Apart({Env(n, p, t, b) : b \in MaybeSendAppend(l, pr, probe).bodies})
           /\ \A S : Apart(S) => \A m \in S : Routes(n, m)
<1>1. \A l, pr, probe : \A b \in MaybeSendAppend(l, pr, probe).bodies : b.type = "Append"
  <2> SUFFICES ASSUME NEW l, NEW pr, NEW probe, NEW b \in MaybeSendAppend(l, pr, probe).bodies
               PROVE  b.type = "Append"
    OBVIOUS
  <2> DEFINE probing == probe /\ pr.next > pr.match + 1
             entries == IF probing THEN <<>> ELSE Scan(l, pr.next, MaxAppendEntries)
             body == [type |-> "Append", baseIndex |-> pr.next - 1,
                      baseTerm |-> TermAt(l, pr.next - 1), entries |-> entries]
  <2>1. \/ MaybeSendAppend(l, pr, probe) = [progress |-> pr, bodies |-> {}]
        \/ MaybeSendAppend(l, pr, probe) =
              [progress |-> [pr EXCEPT !.next = @ + Len(entries)], bodies |-> {body}]
    BY DEF MaybeSendAppend
  <2> QED BY <2>1
<1>2. ASSUME NEW l, NEW progress, NEW p \in DOMAIN Propose(l, progress),
             NEW b \in Propose(l, progress)[p].bodies
      PROVE  b.type = "Append"
    BY <1>1, <1>2 DEF Propose
<1>3. \A l, progress : Apart(ProposalMsgs(n, t, Propose(l, progress)))
    BY <1>2 DEF Apart, ProposalMsgs, Env, LeaderResponseTypes
<1>4. \A p, l, pr, probe :
        Apart({Env(n, p, t, b) : b \in MaybeSendAppend(l, pr, probe).bodies})
    BY <1>1 DEF Apart, Env, LeaderResponseTypes
<1>5. \A b : b.type \notin LeaderResponseTypes \cup {"ClientRequest", "ClientResponse"} =>
        Apart(Broadcast(n, t, b)) /\ \A p : Apart({Env(n, p, t, b)})
    BY DEF Apart, Broadcast, Env
<1>6. \A S : Apart(S) => \A m \in S : Routes(n, m)
    BY DEF Apart, Routes
<1> QED BY <1>3, <1>4, <1>5, <1>6

\* Responses R to requests that node n then no longer has to answer.
Clears(n, R) ==
    \A r \in R : /\ r.to = n => Holds(n, r.id) /\ ~Holds(n, r.id)'
                 /\ r.to # n => AnswersTo(n, r.to)

\* They reach the client that waits, or the node that forwarded the request.
LEMMA ClearsFacts ==
    ASSUME TypeInv, NEW n, NEW R, Clears(n, R)
    PROVE  /\ client' = Answer(client, n, R) /\ (\A i \in Request : Holds(n, i)' => Holds(n, i))
                 => \A i \in Request : Settles(n, i)
           /\ \A m \in ReplyMsgs(n, term[n], R) : Routes(n, m)
<1>1. ASSUME client' = Answer(client, n, R), \A i \in Request : Holds(n, i)' => Holds(n, i),
             NEW i \in Request
      PROVE  Settles(n, i)
  <2>1. client \in [Request -> ClientView]
    BY DEF TypeInv, TypeOK
  <2>2. client'[i] = client[i] \/ \E r \in R : r.to = n /\ r.id = i
    BY <1>1, <2>1, AnswerCases
  <2> QED BY <1>1, <2>2 DEF Clears, Settles
<1>2. ASSUME NEW m \in ReplyMsgs(n, term[n], R) PROVE Routes(n, m)
  <2>1. PICK r \in R : /\ r.to # n /\ m.body.type = "ClientResponse" /\ m.from = n
                       /\ m.to = r.to /\ m.term = term[n]
    BY <1>2 DEF ReplyMsgs, Env
  <2> QED BY <2>1 DEF Clears, Routes, LeaderResponseTypes
<1> QED BY <1>1, <1>2

\* A node that leaves its role has no request left to answer, and aborts those of
\* the role.
LEMMA AbortsClear ==
    ASSUME TypeInv, NEW n \in Node, \A i \in Request : ~Holds(n, i)'
    PROVE  Clears(n, Aborted(n))
<1>1. SUFFICES ASSUME NEW r \in Aborted(n)
               PROVE  /\ r.to = n => Holds(n, r.id) /\ ~Holds(n, r.id)'
                      /\ r.to # n => AnswersTo(n, r.to)
    BY DEF Clears
<1>2. CASE role[n].kind = "follower"
  <2>1. PICK i \in role[n].forwarded : r = Reply(n, i, "abort", {})
    BY <1>1, <1>2 DEF Aborted
  <2>2. i \in Request
    BY <1>2, <2>1, RoleFields DEF TypeInv, TypeOK, FollowerRole
  <2> QED BY <1>2, <2>1, <2>2 DEF Reply, Holds
<1>3. CASE role[n].kind = "leader"
  <2>1. PICK x \in Requests(n) : r = Reply(x.from, x.id, "abort", {})
    BY <1>1, <1>3 DEF Aborted, Requests
  <2>2. IsLeader(n) /\ x.id \in Request
    BY <1>3, <2>1, ClientTypes DEF IsLeader, Requests, Request
  <2>3. r.to = x.from /\ r.id = x.id
    BY <2>1 DEF Reply
  <2> QED BY <2>2, <2>3 DEF Holds, AnswersTo
<1> QED BY <1>1, <1>2, <1>3 DEF Aborted

\* A node that steps a message as a follower.
LEMMA EndAsFollowerRequests ==
    ASSUME TypeInv, NEW n \in Node, NEW m \in msgs, StepsAsFollower(n, m),
           NEW v, NEW r, r.kind = "follower", r.forwarded \subseteq FollowerIn(n, m).forwarded,
           FollowerIn(n, m).leader \in {NoNode, r.leader},
           NEW sent, \A s \in sent : Routes(n, s), NEW replies,
           \A q \in replies : q.to = n /\ q.id \in FollowerIn(n, m).forwarded \ r.forwarded,
           EndAsFollower(n, m, v, r, sent, replies)
    PROVE  RequestStep(n)
<1>1. /\ role'[n] = r /\ term'[n] = m.term /\ UNCHANGED restarts
      /\ m.term \in Nat /\ term[n] \in Nat /\ m.term >= term[n]
    BY DEF EndAsFollower, TypeInv, TypeOK, Envelope, StepsAsFollower
<1>2. \/ m.term > term[n] /\ FollowerIn(n, m).forwarded = {}
      \/ m.term = term[n] /\ role[n].kind = "follower" /\ FollowerIn(n, m) = role[n]
      \/ m.term = term[n] /\ role[n].kind = "candidate" /\ FollowerIn(n, m).forwarded = {}
    BY <1>1 DEF FollowerIn, Follower, StepsAsFollower
<1>3. KeepsRole(n)
    BY <1>1, <1>2 DEF KeepsRole, IsLeader
<1>4. \A i : Holds(n, i)' <=> i \in r.forwarded
    BY <1>1 DEF Holds, IsLeader
<1>5. \A i : i \in FollowerIn(n, m).forwarded => Holds(n, i)
    BY <1>2 DEF Holds
<1>6. PICK R : R = AbortedBy(n, m) \cup replies
    OBVIOUS
<1>7. Clears(n, AbortedBy(n, m))
  <2>1. CASE m.term > term[n]
    <3>1. \A i \in Request : ~Holds(n, i)'
      BY <1>1, <1>2, <1>4, <2>1
    <3> QED BY <2>1, <3>1, AbortsClear DEF AbortedBy
  <2>2. CASE ~(m.term > term[n])
    BY <2>2 DEF AbortedBy, Clears
  <2> QED BY <2>1, <2>2
<1>8. Clears(n, R)
    BY <1>4, <1>5, <1>6, <1>7 DEF Clears
<1>9. \A i \in Request : Settles(n, i)
    BY <1>4, <1>5, <1>6, <1>8, ClearsFacts DEF EndAsFollower
<1>10. PICK aborts : aborts = ReplyMsgs(n, term[n], AbortedBy(n, m))
    OBVIOUS
<1>11. \A s \in aborts : Routes(n, s)
    BY <1>7, <1>10, ClearsFacts
<1>12. msgs' \subseteq msgs \cup (sent \cup aborts)
    BY <1>10, SendSubset DEF EndAsFollower
<1>13. TakesRequests(n)
    BY <1>1 DEF TakesRequests
<1> QED BY <1>1, <1>3, <1>9, <1>11, <1>12, <1>13 DEF RequestStep
\* Followers.
LEMMA FollowerRequestSteps ==
    ASSUME TypeInv, NEW n \in Node, NEW m \in msgs,
           \/ HandleHeartbeat(n, m) \/ HandleAppend(n, m) \/ HandleRead(n, m)
           \/ HandleCampaign(n, m) \/ HandleClientResponse(n, m) \/ IgnoreVote(n, m)
    PROVE  RequestStep(n)
<1>1. StepsAsFollower(n, m)
    BY DEF HandleHeartbeat, HandleAppend, HandleRead, HandleCampaign, HandleClientResponse,
           IgnoreVote
<1>2. PICK none, f : none = {} /\ f = FollowerIn(n, m)
    OBVIOUS
<1>3. f.kind = "follower"
    BY <1>2 DEF FollowerIn, Follower
<1>4. ASSUME NEW b, FollowAndRespond(n, m, b), m.body.type \in LeaderTypes,
             b.type \in LeaderResponseTypes
      PROVE  RequestStep(n)
  <2>1. PICK e, r : /\ e = Env(n, m.from, m.term, b) /\ r = Follower(m.from, f.forwarded)
    OBVIOUS
  <2>2. PICK sent : sent = {e}
    OBVIOUS
  <2>3. Routes(n, e)
    BY <1>4, <2>1 DEF Routes, Env, LeaderResponseTypes
  <2>4. /\ EndAsFollower(n, m, VoteIn(n, m), r, sent, none)
        /\ FollowerIn(n, m).leader \in {NoNode, m.from}
    BY <1>2, <1>4, <2>1, <2>2 DEF FollowAndRespond
  <2>5. /\ r.kind = "follower" /\ r.forwarded \subseteq FollowerIn(n, m).forwarded
        /\ FollowerIn(n, m).leader \in {NoNode, r.leader}
    BY <1>2, <2>1, <2>4 DEF Follower
  <2> QED BY <1>1, <1>2, <2>2, <2>3, <2>4, <2>5, EndAsFollowerRequests
<1>5. CASE HandleHeartbeat(n, m)
  <2>1. PICK b : b.type = "HeartbeatResponse" /\ FollowAndRespond(n, m, b)
    BY <1>5 DEF HandleHeartbeat
  <2> QED BY <1>4, <1>5, <2>1 DEF HandleHeartbeat, LeaderTypes, LeaderResponseTypes
<1>6. CASE HandleAppend(n, m)
  <2>1. PICK b : b.type = "AppendResponse" /\ FollowAndRespond(n, m, b)
    BY <1>6 DEF HandleAppend
  <2> QED BY <1>4, <1>6, <2>1 DEF HandleAppend, LeaderTypes, LeaderResponseTypes
<1>7. CASE HandleRead(n, m)
  <2>1. PICK b : b.type = "ReadResponse" /\ FollowAndRespond(n, m, b)
    BY <1>7 DEF HandleRead
  <2> QED BY <1>4, <1>7, <2>1 DEF HandleRead, LeaderTypes, LeaderResponseTypes
<1>8. CASE HandleCampaign(n, m)
  <2>1. PICK v, b, sent : /\ b.type = "CampaignResponse" /\ sent = {Env(n, m.from, m.term, b)}
                          /\ EndAsFollower(n, m, v, f, sent, none)
    BY <1>2, <1>8 DEF HandleCampaign
  <2>2. \A s \in sent : Routes(n, s)
    BY <2>1 DEF Routes, Env, LeaderResponseTypes
  <2> QED BY <1>1, <1>2, <1>3, <2>1, <2>2, EndAsFollowerRequests
<1>9. CASE IgnoreVote(n, m)
  <2>1. EndAsFollower(n, m, VoteIn(n, m), f, none, none)
    BY <1>2, <1>9 DEF IgnoreVote
  <2> QED BY <1>1, <1>2, <1>3, <2>1, EndAsFollowerRequests
<1>10. CASE HandleClientResponse(n, m)
  <2>1. PICK r, replies :
          /\ r = Follower(m.from, f.forwarded \ {m.body.id})
          /\ replies = IF m.body.id \in f.forwarded
                       THEN {Reply(n, m.body.id, m.body.status, m.body.value)} ELSE {}
    OBVIOUS
  <2>2. EndAsFollower(n, m, VoteIn(n, m), r, none, replies) /\ f.leader = m.from
    BY <1>2, <1>10, <2>1 DEF HandleClientResponse
  <2>3. /\ r.kind = "follower" /\ r.leader = m.from
        /\ r.forwarded = f.forwarded \ {m.body.id}
    BY <2>1 DEF Follower
  <2>4. \A q \in replies : q.to = n /\ q.id \in f.forwarded \ r.forwarded
    BY <2>1, <2>3 DEF Reply
  <2> QED BY <1>1, <1>2, <2>2, <2>3, <2>4, EndAsFollowerRequests
<1> QED BY <1>5, <1>6, <1>7, <1>8, <1>9, <1>10

\* A leader that receives a message, and answers some of its requests.
LEMMA LeaderRequestStep ==
    ASSUME TypeInv, HoldersInv, NEW n \in Node, NEW m \in msgs, role[n].kind = "leader",
           NEW progress, NEW served \in SUBSET role[n].reads, NEW sent, Apart(sent),
           EndAsLeader(n, m, progress, served, sent) \/ EndWithCommit(n, m, progress, served, sent)
    PROVE  RequestStep(n)
<1>1. IsLeader(n) /\ n \in DOMAIN role
    BY DEF IsLeader, TypeInv, TypeOK
<1> DEFINE Answers(R, acked, gone) ==
             /\ acked \subseteq role[n].writes /\ gone \subseteq role[n].reads
             /\ \A r \in R : \E x \in acked \cup gone : r.to = x.from /\ r.id = x.id
             /\ role' = [role EXCEPT ![n] = LeaderAfter(n, progress, acked, gone)]
             /\ Send(msgs \ {m}, sent \cup ReplyMsgs(n, term[n], R))
             /\ client' = Answer(client, n, R)
             /\ UNCHANGED <<term, panics, restarts>>
<1> HIDE DEF Answers
<1>a. \E R, acked, gone : Answers(R, acked, gone)
  <2>0. \A S, a : \A r \in ReadReplies(n, S, a) : \E x \in S : r.to = x.from /\ r.id = x.id
    <3>1. ASSUME NEW S, NEW a, NEW r \in ReadReplies(n, S, a)
          PROVE  \E x \in S : r.to = x.from /\ r.id = x.id
      <4>1. PICK x \in S : r = Reply(x.from, x.id, "ok", StateAt(log[n], a))
        BY <3>1 DEF ReadReplies
      <4> QED BY <4>1 DEF Reply
    <3> QED BY <3>1
  <2>1. CASE EndAsLeader(n, m, progress, served, sent)
    <3>1. PICK none, R : none = {} /\ R = ReadReplies(n, served, applied[n])
      OBVIOUS
    <3>2. \A r \in R : \E x \in none \cup served : r.to = x.from /\ r.id = x.id
      BY <2>0, <3>1
    <3>3. /\ role' = [role EXCEPT ![n] = LeaderAfter(n, progress, none, served)]
          /\ Send(msgs \ {m}, sent \cup ReplyMsgs(n, term[n], R))
          /\ client' = Answer(client, n, R)
          /\ UNCHANGED <<term, panics, restarts>>
      BY <2>1, <3>1 DEF EndAsLeader
    <3>4. none \subseteq role[n].writes
      BY <3>1
    <3>5. Answers(R, none, served)
      BY <3>2, <3>3, <3>4 DEF Answers
    <3> QED BY <3>5
  <2>2. CASE EndWithCommit(n, m, progress, served, sent)
    <3>1. PICK c, a, acked, late :
            /\ a = IF c > commit[n] THEN Max2(applied[n], c) ELSE applied[n]
            /\ c = NextCommit(n, progress)
            /\ acked = {w \in role[n].writes : w.index \in applied[n] + 1..a}
            /\ late = IF c > commit[n] /\ TermAt(log[n], commit[n]) # term[n]
                      THEN ReadyReads(n, progress, c) ELSE {}
      OBVIOUS
    <3>2. PICK acks, now, later :
            /\ acks = {Reply(w.from, w.id, "ok", {}) : w \in acked}
            /\ now = ReadReplies(n, served, applied[n]) /\ later = ReadReplies(n, late, a)
      OBVIOUS
    <3>3. PICK R, gone : R = acks \cup now \cup later /\ gone = served \cup late
      OBVIOUS
    <3>4. /\ role' = [role EXCEPT ![n] = LeaderAfter(n, progress, acked, gone)]
          /\ Send(msgs \ {m}, sent \cup ReplyMsgs(n, term[n], R))
          /\ client' = Answer(client, n, R)
          /\ UNCHANGED <<term, panics, restarts>>
      BY <2>2, <3>1, <3>2, <3>3 DEF EndWithCommit
    <3>5. acked \subseteq role[n].writes
      BY <3>1
    <3>6. gone \subseteq role[n].reads
      <4>1. \A x \in ReadyReads(n, progress, c) : x \in role[n].reads
        BY DEF ReadyReads
      <4> QED BY <3>1, <3>3, <4>1
    <3>7. \A r \in acks : \E x \in acked : r.to = x.from /\ r.id = x.id
      <4>1. \A w : Reply(w.from, w.id, "ok", {}).to = w.from /\ Reply(w.from, w.id, "ok", {}).id = w.id
        BY DEF Reply
      <4> QED BY <3>2, <4>1
    <3>8. \A r \in R : \E x \in acked \cup gone : r.to = x.from /\ r.id = x.id
      BY <2>0, <3>2, <3>3, <3>7
    <3>9. Answers(R, acked, gone)
      BY <3>4, <3>5, <3>6, <3>8 DEF Answers
    <3> QED BY <3>9
  <2> QED BY <2>1, <2>2
<1>2. PICK R, acked, gone : Answers(R, acked, gone)
    BY <1>a
<1> USE DEF Answers
<1>3. /\ role'[n].kind = "leader" /\ role'[n].writes = role[n].writes \ acked
      /\ role'[n].reads = role[n].reads \ gone
    BY <1>1, <1>2 DEF LeaderAfter, Leader
<1>4. Requests(n)' \subseteq Requests(n) /\ \A x \in acked \cup gone : x \in Requests(n)
    BY <1>2, <1>3 DEF Requests
<1>5. \A x \in acked \cup gone : x \notin Requests(n)'
  <2>1. /\ \A w \in role[n].writes : w.id \in Write
        /\ \A x \in role[n].reads : x.id \in Read
    BY <1>1, ClientTypes
  <2> QED BY <1>2, <1>3, <2>1, RequestAssumption DEF Requests
<1>6. Clears(n, R)
  <2>1. SUFFICES ASSUME NEW r \in R
                 PROVE  /\ r.to = n => Holds(n, r.id) /\ ~Holds(n, r.id)'
                        /\ r.to # n => AnswersTo(n, r.to)
    BY DEF Clears
  <2>2. PICK x \in acked \cup gone : r.to = x.from /\ r.id = x.id
    BY <1>2
  <2>3. CASE r.to # n
    BY <1>1, <1>4, <2>2, <2>3 DEF AnswersTo
  <2>4. CASE r.to = n
    <3>1. Holds(n, r.id)
      BY <1>1, <1>4, <2>2, <2>4 DEF Holds
    <3>2. ASSUME NEW y \in Requests(n)', y.from = n, y.id = r.id PROVE FALSE
      <4>1. y = x
        BY <1>1, <1>4, <2>2, <2>4, <3>2 DEF HoldersInv
      <4> QED BY <1>5, <3>2, <4>1
    <3>3. ~Holds(n, r.id)'
      BY <1>3, <3>2 DEF Holds, IsLeader
    <3> QED BY <2>4, <3>1, <3>3
  <2> QED BY <2>3, <2>4
<1>7. \A i \in Request : Holds(n, i)' => Holds(n, i)
    BY <1>1, <1>3, <1>4 DEF Holds, IsLeader
<1>8. \A i \in Request : Settles(n, i)
    BY <1>2, <1>6, <1>7, ClearsFacts
<1>9. PICK replies : replies = ReplyMsgs(n, term[n], R)
    OBVIOUS
<1>10. \A s \in replies : Routes(n, s)
    BY <1>6, <1>9, ClearsFacts
<1>11. \A s \in sent : Routes(n, s)
    BY ApartMsgs
<1>12. msgs' \subseteq msgs \cup (sent \cup replies)
    BY <1>2, <1>9, SendSubset
<1>13. KeepsRole(n)
    BY <1>1, <1>2, <1>3 DEF KeepsRole, IsLeader
<1>14. TakesRequests(n)
    BY <1>1, <1>2, <1>4 DEF TakesRequests, Takes
<1> QED BY <1>2, <1>8, <1>10, <1>11, <1>12, <1>13, <1>14 DEF RequestStep
\* Leaders.
LEMMA LeaderRequestSteps ==
    ASSUME TypeInv, HoldersInv, NEW n \in Node, NEW m \in msgs,
           \/ HandleHeartbeatResponse(n, m) \/ HandleAppendResponse(n, m)
           \/ HandleAppendReject(n, m) \/ HandleReadResponse(n, m)
    PROVE  RequestStep(n)
<1>0. \A p, l, pr, probe :
        Apart({Env(n, p, term[n], b) : b \in MaybeSendAppend(l, pr, probe).bodies})
    BY ApartMsgs
<1> DEFINE l == log[n]
           t == term[n]
           p == m.from
           old == role[n].progress
<1>1. role[n].kind = "leader"
    BY DEF HandleHeartbeatResponse, HandleAppendResponse, HandleAppendReject,
           HandleReadResponse, StepsAsLeader
<1>2. ASSUME NEW progress, NEW served \in SUBSET role[n].reads, NEW sent, Apart(sent),
             \/ EndAsLeader(n, m, progress, served, sent)
             \/ EndWithCommit(n, m, progress, served, sent)
      PROVE  RequestStep(n)
    BY <1>1, <1>2, LeaderRequestStep
<1>3. PICK none \in SUBSET role[n].reads : none = {} /\ Apart(none)
  <2>1. Apart({}) /\ {} \in SUBSET role[n].reads
    BY DEF Apart
  <2> QED BY <2>1
<1>4. \A progress, c : ReadyReads(n, progress, c) \in SUBSET role[n].reads
  <2>1. \A progress, c : \A x \in ReadyReads(n, progress, c) : x \in role[n].reads
    BY DEF ReadyReads
  <2> QED BY <2>1
<1>5. ASSUME NEW pr, NEW probe, NEW sent,
             sent = {Env(n, p, t, b) : b \in MaybeSendAppend(l, pr, probe).bodies}
      PROVE  Apart(sent)
    BY <1>0, <1>5
<1>6. CASE HandleHeartbeatResponse(n, m)
  <2>1. PICK read : read = [old EXCEPT ![p] = AdvanceRead(@, m.body.readSeq)]
    OBVIOUS
  <2>2. PICK served : served = IF read # old THEN ReadyReads(n, read, commit[n]) ELSE none
    OBVIOUS
  <2>3. served \in SUBSET role[n].reads
    BY <1>4, <2>2
  <2>4. PICK pr, flag : pr = RegressNext(read[p], Len(l)) /\ flag = TRUE
    OBVIOUS
  <2>5. PICK sent : sent = {Env(n, p, t, b) : b \in MaybeSendAppend(l, pr, flag).bodies}
    OBVIOUS
  <2>6. PICK new, adv :
          \/ EndAsLeader(n, m, new, served, sent)
          \/ EndAsLeader(n, m, read, served, none)
          \/ EndWithCommit(n, m, adv, served, none)
    BY <1>3, <1>6, <2>1, <2>2, <2>4, <2>5 DEF HandleHeartbeatResponse
  <2>7. Apart(sent)
    BY <1>5, <2>5
  <2> QED BY <1>2, <1>3, <2>3, <2>6, <2>7
<1>7. CASE HandleAppendResponse(n, m)
  <2>1. PICK pr, flag : pr = Advance(old[p], m.body.matchIndex) /\ flag = FALSE
    OBVIOUS
  <2>2. PICK sent : sent = {Env(n, p, t, b) : b \in MaybeSendAppend(l, pr, flag).bodies}
    OBVIOUS
  <2>3. PICK new : EndWithCommit(n, m, new, none, sent) \/ EndAsLeader(n, m, new, none, sent)
    BY <1>3, <1>7, <2>1, <2>2 DEF HandleAppendResponse
  <2>4. Apart(sent)
    BY <1>5, <2>2
  <2> QED BY <1>2, <2>3, <2>4
<1>8. CASE HandleAppendReject(n, m)
  <2>1. PICK pr, flag : pr = RegressNext(old[p], m.body.rejectIndex) /\ flag = TRUE
    OBVIOUS
  <2>2. PICK sent : sent = {Env(n, p, t, b) : b \in MaybeSendAppend(l, pr, flag).bodies}
    OBVIOUS
  <2>3. PICK new : EndAsLeader(n, m, new, none, sent)
    BY <1>3, <1>8, <2>1, <2>2 DEF HandleAppendReject
  <2>4. Apart(sent)
    BY <1>5, <2>2
  <2> QED BY <1>2, <2>3, <2>4
<1>9. CASE HandleReadResponse(n, m)
  <2>1. PICK new : new = [old EXCEPT ![p] = AdvanceRead(@, m.body.seq)]
    OBVIOUS
  <2>2. PICK served : served = IF new # old THEN ReadyReads(n, new, commit[n]) ELSE none
    OBVIOUS
  <2>3. EndAsLeader(n, m, new, served, none)
    BY <1>3, <1>9, <2>1, <2>2 DEF HandleReadResponse
  <2>4. served \in SUBSET role[n].reads
    BY <1>4, <2>2
  <2> QED BY <1>2, <1>3, <2>3, <2>4
<1> QED BY <1>6, <1>7, <1>8, <1>9

\* A step that tells clients nothing and takes no request.
LEMMA QuietRequestStep ==
    ASSUME NEW n \in Node, UNCHANGED client, KeepsRole(n), restarts' = 0 => restarts = 0,
           \/ UNCHANGED <<role, term>> \/ role'[n].kind \in {"candidate", "down"}
           \/ role'[n].kind = "follower" /\ role'[n].forwarded = {}
           \/ role'[n].kind = "leader" /\ role'[n].writes = {} /\ role'[n].reads = {},
           NEW sent, Apart(sent), msgs' \subseteq msgs \cup sent
    PROVE  RequestStep(n)
<1>1. \A s \in sent : Routes(n, s)
    BY ApartMsgs
<1>2. \A i : Holds(n, i)' => Holds(n, i)
    BY DEF Holds, IsLeader, Requests
<1>3. TakesRequests(n)
    BY DEF TakesRequests, Takes, IsLeader, Requests
<1> QED BY <1>1, <1>2, <1>3 DEF RequestStep, Settles

\* A node that campaigns aborts its requests.
LEMMA CampaignRequests ==
    ASSUME TypeInv, NEW n \in Node, NEW R, R = Aborted(n), Campaign(n, R)
    PROVE  RequestStep(n)
<1>1. /\ role'[n].kind = "candidate" /\ term'[n] > term[n]
      /\ client' = Answer(client, n, R) /\ UNCHANGED restarts
    BY DEF Campaign, Candidate, TypeInv, TypeOK
<1>2. \A i : ~Holds(n, i)'
    BY <1>1 DEF Holds, IsLeader
<1>3. Clears(n, R)
    BY <1>2, AbortsClear
<1>4. \A i \in Request : Settles(n, i)
    BY <1>1, <1>2, <1>3, ClearsFacts
<1>5. PICK body, sent : /\ sent = Broadcast(n, term[n] + 1, body) /\ Send(msgs, sent)
                        /\ body.type = "Campaign"
  <2> WITNESS [type |-> "Campaign", lastIndex |-> Len(log[n]), lastTerm |-> LastTerm(log[n])],
              Broadcast(n, term[n] + 1,
                  [type |-> "Campaign", lastIndex |-> Len(log[n]), lastTerm |-> LastTerm(log[n])])
  <2> QED BY DEF Campaign
<1>6. \A s \in sent : Routes(n, s)
    BY <1>5 DEF Broadcast, Env, Routes, LeaderResponseTypes
<1>7. msgs' \subseteq msgs \cup sent
    BY <1>5, SendSubset
<1>8. KeepsRole(n) /\ TakesRequests(n)
    BY <1>1 DEF KeepsRole, TakesRequests
<1> QED BY <1>1, <1>4, <1>6, <1>7, <1>8 DEF RequestStep

\* Elections.
LEMMA ElectionRequestSteps ==
    ASSUME TypeInv, NEW n \in Node,
           \/ FollowerTimeout(n) \/ CandidateTimeout(n) \/ HeartbeatTick(n)
           \/ \E m \in msgs : \/ RefuseVote(n, m) \/ RecordVote(n, m)
                              \/ BecomeLeader(n, m) \/ Ignore(n, m)
    PROVE  RequestStep(n)
<1>1. PICK none : none = {} /\ Apart(none)
  <2> WITNESS {}
  <2> QED BY DEF Apart
<1>2. n \in DOMAIN role
    BY DEF TypeInv, TypeOK
<1>3. CASE FollowerTimeout(n)
    BY <1>3, CampaignRequests DEF FollowerTimeout
<1>4. CASE CandidateTimeout(n)
  <2>1. PICK R : R = Aborted(n)
    OBVIOUS
  <2>2. R = {}
    BY <1>4, <2>1 DEF CandidateTimeout, Aborted
  <2> QED BY <1>4, <2>1, <2>2, CampaignRequests DEF CandidateTimeout
<1>5. UNCHANGED <<role, term>> => KeepsRole(n)
    BY DEF KeepsRole, IsLeader
<1>6. CASE HeartbeatTick(n)
  <2>1. PICK body, sent : /\ sent = Broadcast(n, term[n], body) /\ Send(msgs, sent)
                          /\ body.type = "Heartbeat"
    <3> WITNESS HeartbeatBody(log[n], commit[n], role[n].readSeq),
                Broadcast(n, term[n], HeartbeatBody(log[n], commit[n], role[n].readSeq))
    <3> QED BY <1>6 DEF HeartbeatTick, HeartbeatBody
  <2>2. Apart(sent)
    BY <2>1 DEF Broadcast, Env, Apart, LeaderResponseTypes
  <2>3. msgs' \subseteq msgs \cup sent
    BY <2>1, SendSubset
  <2> QED BY <1>5, <1>6, <2>2, <2>3, QuietRequestStep DEF HeartbeatTick
<1>7. ASSUME NEW m \in msgs, RefuseVote(n, m) PROVE RequestStep(n)
  <2>1. PICK sent : /\ Send(msgs \ {m}, sent)
                    /\ sent = {Env(n, m.from, m.term, [type |-> "CampaignResponse",
                                                       vote |-> FALSE])}
    BY <1>7 DEF RefuseVote
  <2>2. Apart(sent)
    BY <2>1 DEF Env, Apart, LeaderResponseTypes
  <2>3. msgs' \subseteq msgs \cup sent
    BY <2>1, SendSubset
  <2> QED BY <1>5, <1>7, <2>2, <2>3, QuietRequestStep DEF RefuseVote
<1>8. ASSUME NEW m \in msgs, Ignore(n, m) PROVE RequestStep(n)
  <2>1. msgs' \subseteq msgs \cup none
    BY <1>1, <1>8, SendSubset DEF Ignore
  <2> QED BY <1>1, <1>5, <1>8, <2>1, QuietRequestStep DEF Ignore
<1>9. ASSUME NEW m \in msgs, RecordVote(n, m) PROVE RequestStep(n)
  <2>1. msgs' \subseteq msgs \cup none
    BY <1>1, <1>9, SendSubset DEF RecordVote
  <2>2. role'[n].kind = "candidate" /\ KeepsRole(n)
    BY <1>2, <1>9 DEF RecordVote, KeepsRole, Candidate, IsLeader
  <2> QED BY <1>1, <1>9, <2>1, <2>2, QuietRequestStep DEF RecordVote
<1>10. ASSUME NEW m \in msgs, BecomeLeader(n, m) PROVE RequestStep(n)
  <2>1. PICK l, new, body :
          /\ l = Append(log[n], [term |-> term[n], command |-> Noop])
          /\ new = [p \in Peers(n) |-> [match |-> 0, next |-> Len(log[n]) + 1, readSeq |-> 0]]
          /\ body = HeartbeatBody(l, commit[n], 0)
    OBVIOUS
  <2>2. PICK proposals, beats : /\ proposals = ProposalMsgs(n, term[n], Propose(l, new))
                                /\ beats = Broadcast(n, term[n], body)
    OBVIOUS
  <2>3. PICK progress :
          /\ role' = [role EXCEPT ![n] = Leader(progress, {}, {}, 0)]
          /\ Send(msgs \ {m}, proposals \cup beats)
          /\ UNCHANGED <<term, client, restarts>> /\ role[n].kind = "candidate"
    BY <1>10, <2>1, <2>2 DEF BecomeLeader
  <2>4. /\ role'[n].kind = "leader" /\ role'[n].writes = {} /\ role'[n].reads = {}
        /\ KeepsRole(n)
    BY <1>2, <2>3 DEF Leader, KeepsRole, IsLeader
  <2>5. Apart(proposals)
    BY <2>2, ApartMsgs
  <2>6. Apart(beats)
    BY <2>1, <2>2 DEF HeartbeatBody, Broadcast, Env, Apart, LeaderResponseTypes
  <2>7. PICK sent : sent = proposals \cup beats
    OBVIOUS
  <2>8. Apart(sent) /\ msgs' \subseteq msgs \cup sent
    BY <2>3, <2>5, <2>6, <2>7, SendSubset DEF Apart
  <2> QED BY <2>3, <2>4, <2>8, QuietRequestStep
<1> QED BY <1>3, <1>4, <1>6, <1>7, <1>8, <1>9, <1>10
\* A request that is stepped: cl is what clients know then.
Enters(n, from, id, cl) ==
    /\ cl \in [Request -> ClientView]
    /\ \A i \in Request : i # id => cl[i] = client[i]
    /\ \/ from = n /\ client[id].status = "idle" /\ cl[id].status = "pending"
       \/ from # n /\ cl[id] = client[id] /\ AnswersTo(n, from)

LEMMA EnteringStep ==
    ASSUME TypeInv, HoldersInv, NEW n \in Node, NEW from \in Node, NEW id \in Request, NEW cl,
           Enters(n, from, id, cl), NEW rest \in SUBSET msgs, StepRequest(n, from, id, cl, rest)
    PROVE  RequestStep(n)
<1>1. UNCHANGED <<term, restarts>> /\ n \in DOMAIN role
    BY DEF StepRequest, TypeInv, TypeOK
<1>2. from = n => ~Holds(n, id)
    BY DEF Enters, HoldersInv
<1>3. ASSUME NEW status, status # "idle",
             Send(rest, ReplyMsgs(n, term[n], {Reply(from, id, status, {})})),
             client' = Answer(cl, n, {Reply(from, id, status, {})}), UNCHANGED role
      PROVE  RequestStep(n)
  <2>1. PICK R : R = {Reply(from, id, status, {})}
    OBVIOUS
  <2>2. \A r \in R : r.to = from /\ r.id = id /\ r.status = status
    BY <2>1 DEF Reply
  <2>3. \A i : Holds(n, i)' <=> Holds(n, i)
    BY <1>3 DEF Holds, IsLeader, Requests
  <2>4. ASSUME NEW i \in Request PROVE Settles(n, i)
    <3>1. cl \in [Request -> ClientView] /\ client' = Answer(cl, n, R)
      BY <1>3, <2>1 DEF Enters
    <3>2. client'[i] = cl[i] \/ \E r \in R : r.to = n /\ r.id = i /\ client'[i].status = r.status
      BY <3>1, AnswerCases
    <3>3. client'[i] = cl[i] \/ (from = n /\ i = id /\ client'[i].status = status)
      BY <2>2, <3>2
    <3> QED BY <1>2, <1>3, <2>3, <3>3 DEF Enters, Settles
  <2>5. PICK sent : sent = ReplyMsgs(n, term[n], R)
    OBVIOUS
  <2>6. ASSUME NEW s \in sent PROVE Routes(n, s)
    <3>1. PICK r \in R : /\ r.to # n /\ s.body.type = "ClientResponse" /\ s.from = n
                         /\ s.to = r.to /\ s.term = term[n]
      BY <2>5, <2>6 DEF ReplyMsgs, Env
    <3> QED BY <2>2, <3>1 DEF Routes, Enters, LeaderResponseTypes
  <2>7. msgs' \subseteq msgs \cup sent
    BY <1>3, <2>1, <2>5, SendSubset
  <2>8. KeepsRole(n) /\ TakesRequests(n)
    BY <1>1, <1>3 DEF KeepsRole, TakesRequests, Takes, IsLeader, Requests
  <2> QED BY <1>1, <2>4, <2>6, <2>7, <2>8 DEF RequestStep
<1>4. CASE AbortRequest(n, from, id, cl, rest)
  <2>1. PICK status : status = "abort"
    OBVIOUS
  <2> QED BY <1>3, <1>4, <2>1 DEF AbortRequest
<1>5. CASE ServeStatus(n, from, id, cl, rest)
  <2>1. PICK status : status = "ok"
    OBVIOUS
  <2> QED BY <1>3, <1>5, <2>1 DEF ServeStatus
<1>6. ASSUME client' = cl, \A i \in Request : Holds(n, i)' => Holds(n, i) \/ (i = id /\ from = n)
      PROVE  \A i \in Request : Settles(n, i)
    BY <1>6 DEF Enters, Settles
<1>7. CASE ForwardRequest(n, from, id, cl, rest)
  <2>1. PICK sent : /\ Send(rest, sent)
                    /\ sent = {Env(n, role[n].leader, term[n],
                                   [type |-> "ClientRequest", id |-> id])}
    BY <1>7 DEF ForwardRequest
  <2>2. /\ role'[n].kind = "follower" /\ role'[n].leader = role[n].leader
        /\ role'[n].forwarded = role[n].forwarded \cup {id}
        /\ role[n].kind = "follower" /\ from = n /\ client' = cl
    BY <1>1, <1>7 DEF ForwardRequest, Follower
  <2>3. \A s \in sent : Routes(n, s)
    BY <1>1, <2>1, <2>2 DEF Env, Routes, LeaderResponseTypes
  <2>4. msgs' \subseteq msgs \cup sent
    BY <2>1, SendSubset
  <2>5. \A i \in Request : Holds(n, i)' => Holds(n, i) \/ (i = id /\ from = n)
    BY <2>2 DEF Holds, IsLeader
  <2>6. KeepsRole(n) /\ TakesRequests(n)
    BY <1>1, <2>2 DEF KeepsRole, TakesRequests, IsLeader
  <2> QED BY <1>1, <1>6, <2>2, <2>3, <2>4, <2>5, <2>6 DEF RequestStep
<1>8. ASSUME NEW x, x.from = from, x.id = id, IsLeader(n), role'[n].kind = "leader",
             Requests(n)' = Requests(n) \cup {x}, client' = cl,
             NEW sent, Apart(sent), Send(rest, sent)
      PROVE  RequestStep(n)
  <2>1. \A s \in sent : Routes(n, s)
    BY <1>8, ApartMsgs
  <2>2. msgs' \subseteq msgs \cup sent
    BY <1>8, SendSubset
  <2>3. \A i \in Request : Holds(n, i)' => Holds(n, i) \/ (i = id /\ from = n)
    BY <1>8 DEF Holds, IsLeader
  <2>4. Takes(n, x)
    BY <1>8 DEF Takes, Enters
  <2>5. TakesRequests(n)
    BY <1>1, <1>8, <2>4 DEF TakesRequests, Takes
  <2>6. KeepsRole(n)
    BY <1>1, <1>8 DEF KeepsRole, IsLeader
  <2> QED BY <1>1, <1>6, <1>8, <2>1, <2>2, <2>3, <2>5, <2>6 DEF RequestStep
<1>9. CASE ProposeWrite(n, from, id, cl, rest)
  <2>1. PICK l : l = Append(log[n], [term |-> term[n], command |-> id])
    OBVIOUS
  <2>2. PICK sent, x : /\ sent = ProposalMsgs(n, term[n], Propose(l, role[n].progress))
                       /\ x = [index |-> Len(l), from |-> from, id |-> id]
    OBVIOUS
  <2>3. PICK progress :
          /\ role' = [role EXCEPT ![n] = Leader(progress, role[n].writes \cup {x},
                                                role[n].reads, role[n].readSeq)]
          /\ Send(rest, sent) /\ client' = cl /\ IsLeader(n)
    BY <1>9, <2>1, <2>2 DEF ProposeWrite, IsLeader
  <2>4. role'[n].kind = "leader" /\ Requests(n)' = Requests(n) \cup {x}
    BY <1>1, <2>3 DEF Leader, Requests
  <2>5. x.from = from /\ x.id = id /\ Apart(sent)
    BY <2>2, ApartMsgs
  <2> QED BY <1>8, <2>3, <2>4, <2>5
<1>10. CASE QueueRead(n, from, id, cl, rest)
  <2>1. PICK seq : seq = role[n].readSeq + 1
    OBVIOUS
  <2>2. PICK sent, x : /\ sent = Broadcast(n, term[n], [type |-> "Read", seq |-> seq])
                       /\ x = [seq |-> seq, from |-> from, id |-> id]
    OBVIOUS
  <2>3. /\ role' = [role EXCEPT ![n] = Leader(role[n].progress, role[n].writes,
                                              role[n].reads \cup {x}, seq)]
        /\ Send(rest, sent) /\ client' = cl /\ IsLeader(n)
    BY <1>10, <2>1, <2>2 DEF QueueRead, IsLeader
  <2>4. role'[n].kind = "leader" /\ Requests(n)' = Requests(n) \cup {x}
    BY <1>1, <2>3 DEF Leader, Requests
  <2>5. x.from = from /\ x.id = id /\ Apart(sent)
    BY <2>2 DEF Broadcast, Env, Apart, LeaderResponseTypes
  <2> QED BY <1>8, <2>3, <2>4, <2>5
<1> QED BY <1>4, <1>5, <1>7, <1>9, <1>10 DEF StepRequest

\* Restarts, requests and failed assertions.
LEMMA OtherRequestSteps ==
    ASSUME TypeInv, HoldersInv, NEW n \in Node,
           \/ Restart(n) \/ \E id \in Request : SubmitRequest(n, id)
           \/ \E m \in msgs : HandleClientRequest(n, m) \/ Panic(n, m)
    PROVE  RequestStep(n)
<1>1. PICK none : none = {} /\ Apart(none)
  <2> WITNESS {}
  <2> QED BY DEF Apart
<1>2. n \in DOMAIN role /\ restarts \in Nat
    BY DEF TypeInv, TypeOK
<1>3. CASE Restart(n)
  <2>1. /\ role'[n].kind = "follower" /\ role'[n].forwarded = {} /\ UNCHANGED <<client, msgs>>
        /\ restarts' # 0
    BY <1>2, <1>3 DEF Restart, Follower
  <2>2. KeepsRole(n)
    BY <2>1 DEF KeepsRole
  <2> QED BY <1>1, <2>1, <2>2, QuietRequestStep
<1>4. ASSUME NEW id \in Request, SubmitRequest(n, id) PROVE RequestStep(n)
  <2>1. PICK new : new = [status |-> "pending", seen |-> Known, value |-> {}]
    OBVIOUS
  <2>2. PICK cl : cl = [client EXCEPT ![id] = new]
    OBVIOUS
  <2>3. client[id].status = "idle" /\ StepRequest(n, n, id, cl, msgs)
    BY <1>4, <2>1, <2>2 DEF SubmitRequest
  <2>4. client \in [Request -> ClientView]
    BY DEF TypeInv, TypeOK
  <2>5. new \in ClientView
    <3>1. Known \in SUBSET Write
      <4>1. \A r \in Read : client[r].value \in SUBSET Write
        BY <2>4 DEF ClientView, Request
      <4> QED BY <4>1 DEF Known
    <3> QED BY <2>1, <3>1 DEF ClientView
  <2>6. Enters(n, n, id, cl)
    <3>1. cl \in [Request -> ClientView]
      BY <2>2, <2>4, <2>5
    <3>2. cl[id] = new /\ \A i \in Request : i # id => cl[i] = client[i]
      BY <2>2, <2>4
    <3> QED BY <2>1, <2>3, <3>1, <3>2 DEF Enters
  <2>7. PICK rest \in SUBSET msgs : rest = msgs
    OBVIOUS
  <2> QED BY <2>3, <2>6, <2>7, EnteringStep
<1>5. ASSUME NEW m \in msgs, HandleClientRequest(n, m) PROVE RequestStep(n)
  <2>1. m.from \in Node /\ m.from # n /\ m.body.id \in Request
    BY <1>5, ClientTypes DEF HandleClientRequest, TypeInv, TypeOK, Envelope
  <2>2. PICK from \in Node, id \in Request : from = m.from /\ id = m.body.id
    BY <2>1
  <2>3. PICK cl, rest : cl = client /\ rest = msgs \ {m}
    OBVIOUS
  <2>4. StepRequest(n, from, id, cl, rest)
    BY <1>5, <2>2, <2>3 DEF HandleClientRequest
  <2>5. AnswersTo(n, from)
    BY <1>5, <2>2 DEF HandleClientRequest, AnswersTo
  <2>6. Enters(n, from, id, cl)
    BY <2>1, <2>2, <2>3, <2>5 DEF Enters, TypeInv, TypeOK
  <2>7. rest \in SUBSET msgs
    BY <2>3
  <2> QED BY <2>2, <2>4, <2>6, <2>7, EnteringStep
<1>6. ASSUME NEW m \in msgs, Panic(n, m) PROVE RequestStep(n)
  <2>1. msgs' \subseteq msgs \cup none
    BY <1>1, <1>6, SendSubset DEF Panic
  <2>2. role'[n].kind = "down" /\ panics' # {}
    BY <1>2, <1>6 DEF Panic, Down
  <2>3. KeepsRole(n)
    BY <2>2 DEF KeepsRole
  <2> QED BY <1>1, <1>6, <2>1, <2>2, <2>3, QuietRequestStep DEF Panic
<1> QED BY <1>3, <1>4, <1>5, <1>6

\* Every step of a node is one of the kind described above.
LEMMA StepIsRequestStep ==
    ASSUME TypeInv, HoldersInv, NEW n \in Node, StepOf(n)
    PROVE  RequestStep(n)
BY FollowerRequestSteps, LeaderRequestSteps, ElectionRequestSteps, OtherRequestSteps
   DEF StepOf, Receive

-----------------------------------------------------------------------------
(* The invariants, and what they say of assertions and clients.            *)

\* Nobody holds a request initially, and nothing has been sent.
LEMMA RequestInit ==
    ASSUME Init
    PROVE  HoldersInv /\ RolesInv
<1>1. \A n \in Node : role[n] = Follower(NoNode, {})
    BY DEF Init
<1>2. \A n \in Node : /\ role[n].kind = "follower" /\ role[n].leader = NoNode
                      /\ role[n].forwarded = {}
    BY <1>1 DEF Follower
<1>3. msgs = {} /\ panics = {}
    BY DEF Init
<1> QED BY <1>2, <1>3 DEF HoldersInv, RolesInv, Holds, IsLeader, MessagesFindRoles, RolesAreKept

\* Every step keeps the invariants.
LEMMA RequestNext ==
    ASSUME RaftInv, CommitInv, AssertInv, HoldersInv, RolesInv, [Next]_vars
    PROVE  HoldersInv' /\ RolesInv'
<1>1. RaftInv' /\ TypeInv /\ TypeInv'
    BY RaftInvNext DEF RaftInv
<1>2. CASE UNCHANGED vars
  <2>1. UNCHANGED <<term, role, msgs, client, panics, restarts>>
    BY <1>2 DEF vars
  <2>2. HoldersInv'
    BY <2>1 DEF HoldersInv, Holds, IsLeader, Requests
  <2>3. RolesInv'
    BY <2>1 DEF RolesInv, MessagesFindRoles, RolesAreKept, Leads, FollowsIn, IsLeader, Requests
  <2> QED BY <2>2, <2>3
<1>3. CASE Next
  <2>1. PICK n \in Node : StepOf(n)
    BY <1>3, NextIsAStep
  <2>2. NodeStep(n) /\ RoleStep(n) /\ RequestStep(n)
    BY <1>1, <2>1, StepIsNodeStep, StepIsRoleStep, StepIsRequestStep
  <2>3. \A p \in Node : p # n => role'[p] = role[p]
    BY <1>1, <2>2, StepTypes
  <2> QED BY <1>1, <2>2, <2>3, HoldersStep, RolesInvStep
<1> QED BY <1>2, <1>3

\* The invariants hold in every reachable state.
LEMMA RequestInvHolds == Spec => [](RaftInv /\ HoldersInv /\ RolesInv)
<1>1. Init => AssertInv /\ HoldersInv /\ RolesInv
    BY AssertInit, RequestInit
<1>2. RaftInv /\ CommitInv /\ AssertInv /\ HoldersInv /\ RolesInv /\ [Next]_vars =>
        AssertInv' /\ HoldersInv' /\ RolesInv'
    BY AssertNext, RequestNext
<1> QED BY <1>1, <1>2, CommitInvHolds, PTL DEF Spec

\* In every behaviour, no assertion of Node::step fails before some node has
\* restarted, however messages are lost, delayed and reordered.
THEOREM NothingPanics == Spec => []NoPanic
<1>1. RolesInv => NoPanic
    BY DEF RolesInv, NoPanic
<1> QED BY <1>1, RequestInvHolds, PTL

\* In every behaviour, a client that has been given a response is given no other,
\* whatever node has forwarded, queued, aborted or forgotten its request.
THEOREM AnswersAreFinal == Spec => AnsweredOnce
<1>1. ASSUME RaftInv, HoldersInv, [Next]_vars
      PROVE  [\A i \in Request :
                client[i].status \in {"ok", "abort"} => client'[i] = client[i]]_vars
  <2>1. CASE UNCHANGED vars
    BY <2>1
  <2>2. CASE Next
    <3>1. PICK n \in Node : StepOf(n)
      BY <2>2, NextIsAStep
    <3>2. \A i \in Request : Settles(n, i)
      BY <1>1, <3>1, StepIsRequestStep DEF RequestStep, RaftInv
    <3> QED BY <1>1, <3>2 DEF Settles, HoldersInv
  <2> QED BY <1>1, <2>1, <2>2
<1> QED BY <1>1, RequestInvHolds, PTL DEF Spec, AnsweredOnce

-----------------------------------------------------------------------------
(* Acknowledged writes and reads.                                          *)
(*                                                                         *)
(* A write is done when it lies below a chosen entry, and below what the   *)
(* leader of that entry's term has committed.  A leader may serve a read   *)
(* only in a term up to which everything is done that the reader knew when *)
(* it submitted the read.  If something was done in a later term instead,  *)
(* a quorum has left the leader's term without confirming the read, and    *)
(* the leader will never serve it.                                         *)

\* Write w is among the first c entries of log l.
InLog(w, l, c) == \E i \in 1..c : l[i].command = w

\* Write w lies below the chosen entry (j, u), and the leader of term u knows.
Anchored(w, j, u) ==
    /\ Chosen(j, u)
    /\ \A k \in Buildable : Has(k, j, u) => InLog(w, k, j)
    /\ \A l \in Node : IsLeader(l) /\ term[l] = u => InLog(w, log[l], commit[l])

\* Write w was done in term t or before.
DoneBy(w, t) == \E j, u \in Nat : u <= t /\ Anchored(w, j, u)

Done(w) == \E t \in Nat : DoneBy(w, t)

Confirmations == {m \in msgs : m.body.type \in {"ReadResponse", "HeartbeatResponse"}}

SeqOf(m) == IF m.body.type = "ReadResponse" THEN m.body.seq ELSE m.body.readSeq

\* The leader of term t knows, or will learn, that p was in its term when the
\* leader had given out read sequence number s.
Confirms(p, t, s) ==
    \/ \E m \in Confirmations : m.from = p /\ m.term = t /\ SeqOf(m) >= s
    \/ \E l \in Node : IsLeader(l) /\ term[l] = t /\ p # l /\ role[l].progress[p].readSeq >= s

\* A quorum has left term t without confirming s.
Unconfirmed(t, s) ==
    \E Q \in SUBSET Node : IsQuorum(Q) /\ \A p \in Q : term[p] > t /\ ~Confirms(p, t, s)

Submitted(i) == client[i].status # "idle"

\* The outcome of request i, if it is this, is true.
Truthful(i, status, value) ==
    /\ i \in Write /\ status = "ok" => Done(i)
    /\ i \in Read => /\ \A w \in value : Done(w)
                     /\ status = "ok" => client[i].seen \subseteq value

\* What clients know was done, and what they are told is true.
ClientsAreTold ==
    \A i \in Request : /\ Truthful(i, client[i].status, client[i].value)
                       /\ \A w \in client[i].seen : Done(w)

\* So is what they will be told.
RepliesAreTrue ==
    \A m \in msgs :
        /\ m.body.type = "ClientResponse" =>
              Submitted(m.body.id) /\ Truthful(m.body.id, m.body.status, m.body.value)
        /\ m.body.type = "ClientRequest" => Submitted(m.body.id)

\* The writes that a leader has to answer are in its log.
WritesAreLogged ==
    \A n \in Node : IsLeader(n) => \A x \in role[n].writes :
        Submitted(x.id) /\ x.index \in 1..Len(log[n]) /\ log[n][x.index].command = x.id

\* The reads that it has to answer can see what their readers know, or cannot be
\* confirmed any more.
ReadsAreFresh ==
    \A n \in Node : IsLeader(n) => \A x \in role[n].reads :
        /\ Submitted(x.id) /\ x.seq \in 1..role[n].readSeq
        /\ Unconfirmed(term[n], x.seq) \/ \A w \in client[x.id].seen : DoneBy(w, term[n])

\* Nobody confirms a sequence number that the leader has not given out.
SequencesAreGiven ==
    \A n \in Node : IsLeader(n) =>
        /\ \A m \in msgs : m.term = term[n] /\ m.body.type \in {"Read", "ReadResponse"} =>
              m.body.seq <= role[n].readSeq
        /\ \A p \in Peers(n) : role[n].progress[p].readSeq <= role[n].readSeq

\* What is committed is applied, and a leader that has applied entries of its term
\* has applied what it has committed.
AppliedIsCommitted ==
    \A n \in Node :
        /\ commit[n] <= applied[n]
        /\ IsLeader(n) /\ Has(log[n], applied[n], term[n]) => applied[n] = commit[n]

ClientInv ==
    /\ ClientsAreTold
    /\ RepliesAreTrue
    /\ WritesAreLogged
    /\ ReadsAreFresh
    /\ SequencesAreGiven
    /\ AppliedIsCommitted

-----------------------------------------------------------------------------
(* What a step of node n does to requests, to what clients are told, and to *)
(* what leaders know of reads.                                             *)

StaysLeader(n) ==
    IsLeader(n) /\ role'[n].kind = "leader" /\ term'[n] = term[n] /\ log'[n] = log[n]

\* Leader n commits a write that it has to answer.
AcksWrite(n, i) ==
    /\ StaysLeader(n) /\ Has(log[n], commit'[n], term[n])
    /\ \E x \in role[n].writes : x.id = i /\ x.index \in 1..commit'[n]

\* A quorum was in the term of leader n when it had given out sequence number s.
Confirmed(n, s) ==
    \E Q \in SUBSET Node : IsQuorum(Q) /\ \A p \in Q : p = n \/ Confirms(p, term[n], s)

\* Leader n serves a confirmed read in a state that has an entry of its term.
ServesRead(n, i, value) ==
    /\ StaysLeader(n)
    /\ \E x \in role[n].reads : x.id = i /\ Confirmed(n, x.seq)
    /\ \/ Has(log[n], commit[n], term[n]) /\ value = StateAt(log[n], applied[n])
       \/ Has(log'[n], commit'[n], term'[n]) /\ value = StateAt(log'[n], applied'[n])

\* What n says of request i.
Outcome(n, i, status, value) ==
    /\ status \in {"ok", "abort"}
    /\ \/ status = "abort" /\ value = {}
       \/ i \in Status /\ value = {}
       \/ \E m \in msgs : /\ m.body.type = "ClientResponse" /\ m.body.id = i
                          /\ m.body.status = status /\ m.body.value = value
       \/ AcksWrite(n, i) /\ value = {}
       \/ ServesRead(n, i, value)

Changes(n, i) ==
    \/ client'[i] = client[i]
    \/ /\ client[i].status = "idle" /\ client'[i].seen = Known /\ client'[i].value = {}
       /\ client'[i].status \in {"pending", "abort"} \/ (i \in Status /\ client'[i].status = "ok")
    \/ client'[i].seen = client[i].seen /\ Outcome(n, i, client'[i].status, client'[i].value)

Says(n, m) ==
    /\ m.body.type = "ClientRequest" => client'[m.body.id].status # "idle"
    /\ m.body.type = "ClientResponse" =>
          Submitted(m.body.id) /\ Outcome(n, m.body.id, m.body.status, m.body.value)
    /\ m.body.type = "Read" => m.body.seq <= role'[n].readSeq
    /\ m.body.type = "ReadResponse" =>
          /\ m.from = n /\ m.term = term'[n]
          /\ \E r \in msgs : /\ r.body.type = "Read" /\ r.term = m.term
                             /\ m.body.seq = r.body.seq

\* The write x is one that n had to answer before, or has just been proposed.
TakesWrite(n, x) ==
    \/ IsLeader(n) /\ x \in role[n].writes
    \/ /\ client'[x.id].status # "idle"
       /\ x.index \in 1..Len(log'[n]) /\ log'[n][x.index].command = x.id

\* The read x is one that n had to answer before, or has got the next sequence number.
TakesRead(n, x) ==
    \/ IsLeader(n) /\ x \in role[n].reads
    \/ /\ IsLeader(n) /\ x.seq = role[n].readSeq + 1 /\ role'[n].readSeq = x.seq
       /\ client'[x.id].status # "idle"

\* The read sequence number of p comes from before, or from a response.
LearnsRead(n, p) ==
    \/ role'[n].progress[p].readSeq = 0
    \/ IsLeader(n) /\ role'[n].progress[p].readSeq = role[n].progress[p].readSeq
    \/ /\ IsLeader(n)
       /\ \E m \in Confirmations : /\ m.from = p /\ m.term = term[n]
                                   /\ role'[n].progress[p].readSeq = SeqOf(m)

KeepsRequests(n) ==
    role'[n].kind = "leader" =>
        /\ \A x \in role'[n].writes : TakesWrite(n, x)
        /\ \A x \in role'[n].reads : TakesRead(n, x)
        /\ \A p \in Peers(n) : LearnsRead(n, p)

AppliesCommits(n) ==
    /\ commit[n] <= applied[n] => commit'[n] <= applied'[n]
    /\ role'[n].kind = "leader" =>
          \/ commit'[n] = commit[n] /\ applied'[n] = applied[n]
          \/ /\ StaysLeader(n) /\ Has(log[n], commit'[n], term[n]) /\ commit'[n] >= commit[n]
             /\ applied'[n] = Max2(applied[n], commit'[n])

ClientStep(n) ==
    /\ \A i \in Request : Changes(n, i)
    /\ \A m \in msgs' \ msgs : Says(n, m)
    /\ KeepsRequests(n)
    /\ AppliesCommits(n)

-----------------------------------------------------------------------------
(* What is done.                                                           *)

\* What is in a log up to an index is in it up to a later one, and in the logs
\* that agree with it.
LEMMA InLogFacts ==
    ASSUME NEW w, NEW l, NEW c \in Nat, InLog(w, l, c)
    PROVE  /\ \A d \in Nat : c <= d => InLog(w, l, d)
           /\ \A k : Agrees(l, k, c) => InLog(w, k, c)
BY DEF InLog, Agrees

\* What the leader of a term has committed, once it has committed an entry of its
\* term, is done in that term.
LEMMA CommitIsDone ==
    RaftInv /\ CommitInv => \A n \in Node : \A w \in Write :
        IsLeader(n) /\ Has(log[n], commit[n], term[n]) /\ InLog(w, log[n], commit[n])
        => DoneBy(w, term[n])
<1> SUFFICES ASSUME RaftInv, CommitInv, NEW n \in Node, NEW w \in Write, IsLeader(n),
                    Has(log[n], commit[n], term[n]), InLog(w, log[n], commit[n])
             PROVE  DoneBy(w, term[n])
    OBVIOUS
<1>1. PICK c, t, l : c = commit[n] /\ t = term[n] /\ l = log[n]
    OBVIOUS
<1>2. /\ c \in Nat /\ t \in Nat /\ l \in Log /\ Len(l) \in Nat /\ l \in Buildable
      /\ c \in 1..Len(l) /\ l[c].term = t /\ l[c].term \in Nat
    BY <1>1, LogsAreBuildable, LenProperties, EntryTerm
    DEF RaftInv, TypeInv, TypeOK, Log, Has
<1>3. PICK j, u \in Nat :
        /\ c <= j /\ u <= t /\ Chosen(j, u)
        /\ \A k \in Buildable : Has(k, j, u) => Agrees(l, k, c)
    BY <1>1, <1>2 DEF CommitInv, CommitsAreChosen, Committed
<1>4. Has(l, j, u)
    BY <1>1, <1>3, LeaderHasChosen
<1>5. u = t
  <2>1. j \in c..Len(l) /\ l[j].term = u
    BY <1>2, <1>3, <1>4 DEF Has
  <2>2. l[c].term <= l[j].term
    BY <1>2, <2>1, SortedLog
  <2> QED BY <1>2, <1>3, <2>1, <2>2
<1>6. ASSUME NEW k \in Buildable, Has(k, j, u) PROVE InLog(w, k, j)
    BY <1>1, <1>2, <1>3, <1>6, InLogFacts
<1>7. ASSUME NEW a \in Node, IsLeader(a), term[a] = u PROVE InLog(w, log[a], commit[a])
  <2>1. a = n
    BY <1>1, <1>5, <1>7 DEF RaftInv, ElectionInv, ElectionSafety
  <2> QED BY <2>1
<1>8. Anchored(w, j, u)
    BY <1>3, <1>6, <1>7 DEF Anchored
<1> QED BY <1>1, <1>2, <1>3, <1>8 DEF DoneBy

\* The same after a step.
LEMMA CommitIsDoneNext ==
    (RaftInv /\ CommitInv => \A n \in Node : \A w \in Write :
        IsLeader(n) /\ Has(log[n], commit[n], term[n]) /\ InLog(w, log[n], commit[n])
        => DoneBy(w, term[n]))'
BY CommitIsDone, PTL

\* A leader that has committed an entry of its term has committed all that was
\* done in its term or before.
LEMMA LeaderHasDone ==
    RaftInv /\ CommitInv => \A n \in Node : \A w \in Write :
        IsLeader(n) /\ Has(log[n], commit[n], term[n]) /\ DoneBy(w, term[n])
        => InLog(w, log[n], commit[n])
<1> SUFFICES ASSUME RaftInv, CommitInv, NEW n \in Node, NEW w \in Write, IsLeader(n),
                    Has(log[n], commit[n], term[n]), DoneBy(w, term[n])
             PROVE  InLog(w, log[n], commit[n])
    OBVIOUS
<1>1. PICK c, t, l : c = commit[n] /\ t = term[n] /\ l = log[n]
    OBVIOUS
<1>2. /\ c \in Nat /\ t \in Nat /\ l \in Log /\ Len(l) \in Nat /\ l \in Buildable
      /\ c \in 1..Len(l) /\ l[c].term = t /\ l[c].term \in Nat
    BY <1>1, LogsAreBuildable, LenProperties, EntryTerm
    DEF RaftInv, TypeInv, TypeOK, Log, Has
<1>3. PICK j, u \in Nat : u <= t /\ Anchored(w, j, u)
    BY <1>1 DEF DoneBy
<1>4. CASE u = t
    BY <1>1, <1>3, <1>4 DEF Anchored
<1>5. CASE u < t
  <2>1. Has(l, j, u)
    BY <1>1, <1>3, LeaderHasChosen DEF Anchored
  <2>2. InLog(w, l, j)
    BY <1>2, <1>3, <2>1 DEF Anchored
  <2>3. j \in 1..Len(l) /\ l[j].term = u
    BY <2>1 DEF Has
  <2>4. ~(c <= j)
    <3>1. ASSUME c <= j PROVE FALSE
      <4>1. j \in c..Len(l)
        BY <1>2, <2>3, <3>1
      <4>2. l[c].term <= l[j].term
        BY <1>2, <4>1, SortedLog
      <4> QED BY <1>2, <1>5, <2>3, <4>2
    <3> QED BY <3>1
  <2> QED BY <1>1, <1>2, <1>3, <2>2, <2>4, InLogFacts
<1> QED BY <1>1, <1>2, <1>3, <1>4, <1>5

\* The same after a step.
LEMMA LeaderHasDoneNext ==
    (RaftInv /\ CommitInv => \A n \in Node : \A w \in Write :
        IsLeader(n) /\ Has(log[n], commit[n], term[n]) /\ DoneBy(w, term[n])
        => InLog(w, log[n], commit[n]))'
BY LeaderHasDone, PTL

\* What is done stays done.
LEMMA AnchoredStep ==
    ASSUME RaftInv, RaftInv', CommitInv, NEW n \in Node, NodeStep(n), AppliesCommits(n),
           NEW w \in Write, NEW j \in Nat, NEW u \in Nat, Anchored(w, j, u)
    PROVE  Anchored(w, j, u)'
<1>1. Chosen(j, u) /\ Chosen(j, u)'
    BY ChosenStep DEF Anchored, CommitInv
<1>2. PICK x \in Links : x.index = j /\ x.entry.term = u
    BY <1>1, ChosenExists
<1>3. ASSUME NEW k \in Buildable', Has(k, j, u) PROVE InLog(w, k, j)
  <2>1. CASE k \in Buildable
    BY <1>3, <2>1 DEF Anchored
  <2>2. ASSUME NEW e, Proposes(n, e), k = log'[n] PROVE InLog(w, k, j)
    <3>1. Has(log[n], j, u)
      BY <1>2, <1>3, <2>2, OldEntry
    <3>2. log[n] \in Buildable /\ log[n] \in Log /\ log'[n] \in Log /\ Len(log[n]) \in Nat
      BY StepTypes
    <3>3. InLog(w, log[n], j)
      BY <3>1, <3>2 DEF Anchored
    <3>4. j <= Len(log[n])
      BY <3>1, <3>2 DEF Has
    <3>5. Agrees(log[n], k, j)
      BY <2>2, <3>2, <3>4, GrownAgrees DEF Proposes
    <3> QED BY <3>3, <3>5, InLogFacts
  <2> QED BY <1>3, <2>1, <2>2, BuildableStep
<1>4. ASSUME NEW l \in Node, IsLeader(l)', term'[l] = u PROVE InLog(w, log'[l], commit'[l])
  <2>1. Owned(term'[l])
    BY <1>2, <1>4 DEF RaftInv, MatchingInv, TermsAreOwned
  <2>2. IsLeader(l) /\ term[l] = u
    BY <1>4, <2>1, OldLeader
  <2>3. InLog(w, log[l], commit[l])
    BY <2>2 DEF Anchored
  <2>4. commit[l] \in Nat /\ commit'[l] \in Nat
    BY StepTypes
  <2>5. Agrees(log[l], log'[l], commit[l]) /\ commit[l] <= commit'[l]
    <3>1. CASE l = n
      <4>1. Agrees(log[l], log'[l], commit[l])
        BY <2>4, <3>1, KeepsCommitted DEF CommitInv, CommitsAreChosen
      <4>2. commit[l] <= commit'[l]
        BY <1>4, <2>4, <3>1 DEF AppliesCommits, IsLeader
      <4> QED BY <4>1, <4>2
    <3>2. CASE l # n
      <4>1. log'[l] = log[l] /\ commit'[l] = commit[l] /\ log[l] \in Log
        BY <3>2, StepTypes
      <4>2. commit[l] <= Len(log[l])
        BY <2>4, <4>1, CommittedFacts DEF CommitInv, CommitsAreChosen, RaftInv, TypeInv, TypeOK
      <4> QED BY <2>4, <4>1, <4>2 DEF Agrees
    <3> QED BY <3>1, <3>2
  <2> QED BY <2>3, <2>4, <2>5, InLogFacts
<1> QED BY <1>1, <1>3, <1>4 DEF Anchored

\* What was done by a term stays so, and so does what was done at all.
LEMMA DoneStep ==
    ASSUME RaftInv, RaftInv', CommitInv, NEW n \in Node, NodeStep(n), AppliesCommits(n),
           NEW w \in Write
    PROVE  /\ \A t \in Nat : DoneBy(w, t) => DoneBy(w, t)'
           /\ Done(w) => Done(w)'
<1>1. ASSUME NEW t \in Nat, DoneBy(w, t) PROVE DoneBy(w, t)'
  <2>1. PICK j, u \in Nat : u <= t /\ Anchored(w, j, u)
    BY <1>1 DEF DoneBy
  <2>2. Anchored(w, j, u)'
    BY <2>1, AnchoredStep
  <2> QED BY <2>1, <2>2 DEF DoneBy
<1>2. ASSUME Done(w) PROVE Done(w)'
  <2>1. PICK t \in Nat : DoneBy(w, t)
    BY <1>2 DEF Done
  <2>2. DoneBy(w, t)'
    BY <1>1, <2>1
  <2> QED BY <2>2 DEF Done
<1> QED BY <1>1, <1>2

-----------------------------------------------------------------------------
(* Confirmed and unconfirmed reads.                                        *)

\* The sequence number of a confirmation, and those of the progress of peers, are
\* numbers.
LEMMA SequenceTypes ==
    TypeInv =>
        /\ \A m \in Confirmations : SeqOf(m) \in Nat /\ m.term \in Nat /\ m.from \in Node
        /\ \A l \in Node : IsLeader(l) =>
              role[l].readSeq \in Nat /\ \A p \in Peers(l) : role[l].progress[p].readSeq \in Nat
<1> SUFFICES ASSUME TypeInv
             PROVE  /\ \A m \in Confirmations :
                          SeqOf(m) \in Nat /\ m.term \in Nat /\ m.from \in Node
                    /\ \A l \in Node : IsLeader(l) =>
                          /\ role[l].readSeq \in Nat
                          /\ \A p \in Peers(l) : role[l].progress[p].readSeq \in Nat
    OBVIOUS
<1>1. ASSUME NEW m \in Confirmations PROVE SeqOf(m) \in Nat /\ m.term \in Nat /\ m.from \in Node
  <2>1. m.body \in Body /\ m.term \in Nat /\ m.from \in Node
    BY DEF Confirmations, TypeInv, TypeOK, Envelope
  <2> QED BY <2>1, BodyFields DEF Confirmations, SeqOf
<1>2. ASSUME NEW l \in Node, IsLeader(l)
      PROVE  role[l].readSeq \in Nat /\ \A p \in Peers(l) : role[l].progress[p].readSeq \in Nat
    BY <1>2, LeaderFields DEF IsLeader, Progress
<1> QED BY <1>1, <1>2

\* The same after a step.
LEMMA SequenceTypesNext ==
    (TypeInv =>
        /\ \A m \in Confirmations : SeqOf(m) \in Nat /\ m.term \in Nat /\ m.from \in Node
        /\ \A l \in Node : IsLeader(l) =>
              role[l].readSeq \in Nat /\ \A p \in Peers(l) : role[l].progress[p].readSeq \in Nat)'
BY SequenceTypes, PTL

\* Nobody newly confirms a sequence number, except a node that is in the term.
LEMMA ConfirmsStep ==
    ASSUME RaftInv, RaftInv', NEW n \in Node, NodeStep(n), ClientStep(n),
           NEW p \in Node, NEW t \in Nat, NEW s \in Nat \ {0}, Confirms(p, t, s)'
    PROVE  Confirms(p, t, s) \/ (p = n /\ term'[n] = t)
<1>1. ASSUME NEW m \in Confirmations', m.from = p, m.term = t, SeqOf(m) >= s
      PROVE  Confirms(p, t, s) \/ (p = n /\ term'[n] = t)
  <2>1. CASE m \in msgs
    <3>1. m \in Confirmations
      BY <2>1 DEF Confirmations
    <3> QED BY <1>1, <3>1 DEF Confirms
  <2>2. CASE m \notin msgs
    <3>1. m \in msgs' \ msgs /\ m.body.type \in {"ReadResponse", "HeartbeatResponse"}
      BY <2>2 DEF Confirmations
    <3>2. Says(n, m) /\ Sends(n, m)
      BY <3>1 DEF ClientStep, NodeStep, CommitStep
    <3> QED BY <1>1, <3>1, <3>2 DEF Says, Sends, Responds
  <2> QED BY <2>1, <2>2
<1>2. ASSUME NEW l \in Node, IsLeader(l)', term'[l] = t, p # l, role'[l].progress[p].readSeq >= s
      PROVE  Confirms(p, t, s)
  <2>1. CASE l # n
    <3>1. role'[l] = role[l] /\ term'[l] = term[l]
      BY <2>1, StepTypes
    <3> QED BY <1>2, <3>1 DEF Confirms, IsLeader
  <2>2. CASE l = n
    <3>1. p \in Peers(n) /\ term'[n] = term[n]
      BY <1>2, <2>2 DEF Peers, NodeStep, ElectionStep, IsLeader
    <3>2. LearnsRead(n, p)
      BY <1>2, <2>2, <3>1 DEF ClientStep, KeepsRequests, IsLeader
    <3>3. role'[n].progress[p].readSeq # 0
      BY <1>2, <2>2
    <3> QED BY <1>2, <2>2, <3>1, <3>2, <3>3 DEF LearnsRead, Confirms
  <2> QED BY <2>1, <2>2
<1>3. Confirmations' = {m \in msgs' : m.body.type \in {"ReadResponse", "HeartbeatResponse"}}
    BY DEF Confirmations
<1> QED BY <1>1, <1>2 DEF Confirms, IsLeader, SeqOf

\* What a quorum has not confirmed, it never will.
LEMMA UnconfirmedStep ==
    ASSUME RaftInv, RaftInv', NEW n \in Node, NodeStep(n), ClientStep(n),
           NEW t \in Nat, NEW s \in Nat \ {0}, Unconfirmed(t, s)
    PROVE  Unconfirmed(t, s)'
<1>1. PICK Q \in SUBSET Node : IsQuorum(Q) /\ \A p \in Q : term[p] > t /\ ~Confirms(p, t, s)
    BY DEF Unconfirmed
<1>2. ASSUME NEW p \in Q PROVE term'[p] > t /\ ~Confirms(p, t, s)'
  <2>1. p \in Node /\ term[p] \in Nat /\ term'[p] \in Nat /\ term'[p] >= term[p]
    BY StepTypes
  <2>2. term'[p] > t
    BY <1>1, <2>1
  <2>3. ASSUME Confirms(p, t, s)' PROVE FALSE
    BY <1>1, <2>1, <2>2, <2>3, ConfirmsStep
  <2> QED BY <2>2, <2>3
<1>3. IsQuorum(Q)'
    BY <1>1 DEF IsQuorum
<1> QED BY <1>2, <1>3 DEF Unconfirmed

\* A leader never confirms a read that a quorum has left unconfirmed.
LEMMA ConfirmedIsNotUnconfirmed ==
    ASSUME TypeInv, NEW n \in Node, NEW s, Confirmed(n, s)
    PROVE  ~Unconfirmed(term[n], s)
<1> SUFFICES ASSUME Unconfirmed(term[n], s) PROVE FALSE
    OBVIOUS
<1>1. PICK Q \in SUBSET Node : IsQuorum(Q) /\ \A p \in Q : p = n \/ Confirms(p, term[n], s)
    BY DEF Confirmed
<1>2. PICK R \in SUBSET Node :
        IsQuorum(R) /\ \A p \in R : term[p] > term[n] /\ ~Confirms(p, term[n], s)
    BY DEF Unconfirmed
<1>3. PICK p \in Node : p \in Q /\ p \in R
    BY <1>1, <1>2, QuorumsIntersect
<1>4. term[n] \in Nat
    BY DEF TypeInv, TypeOK
<1> QED BY <1>1, <1>2, <1>3, <1>4

\* A sequence number that a leader has not given out yet is unconfirmed for good if
\* something was chosen in a later term.
LEMMA NextIsUnconfirmed ==
    ASSUME RaftInv, AssertInv, SequencesAreGiven, NEW n \in Node, IsLeader(n),
           NEW s, s = role[n].readSeq + 1,
           NEW j \in Nat, NEW u \in Nat, u > term[n], Chosen(j, u)
    PROVE  Unconfirmed(term[n], s)
<1>1. PICK Q \in SUBSET Node : IsQuorum(Q) /\ Held(j, u, Q)
    BY DEF Chosen
<1>2. PICK t \in Nat, given \in Nat : t = term[n] /\ given = role[n].readSeq /\ s = given + 1
    BY SequenceTypes DEF RaftInv, TypeInv, TypeOK
<1>3. ASSUME NEW p \in Q PROVE term[p] > t
  <2>1. term[p] >= u /\ term[p] \in Nat
    BY <1>1 DEF Held, RaftInv, TypeInv, TypeOK
  <2> QED BY <1>2, <2>1
<1>4. ASSUME NEW p \in Q, Confirms(p, t, s) PROVE FALSE
  <2>1. ASSUME NEW m \in Confirmations, m.term = t, SeqOf(m) >= s PROVE FALSE
    <3>1. SeqOf(m) \in Nat /\ m \in msgs
      BY SequenceTypes DEF RaftInv, Confirmations
    <3>2. SeqOf(m) <= given
      BY <1>2, <2>1, <3>1 DEF Confirmations, SeqOf, SequencesAreGiven, AssertInv, ResponsesAreInRange
    <3> QED BY <1>2, <2>1, <3>1, <3>2
  <2>2. ASSUME NEW l \in Node, IsLeader(l), term[l] = t, p # l, role[l].progress[p].readSeq >= s
        PROVE  FALSE
    <3>1. l = n
      BY <1>2, <2>2 DEF RaftInv, ElectionInv, ElectionSafety
    <3>2. p \in Peers(n)
      BY <2>2, <3>1 DEF Peers
    <3>3. role[n].progress[p].readSeq <= given /\ role[n].progress[p].readSeq \in Nat
      BY <1>2, <3>2, SequenceTypes DEF SequencesAreGiven, RaftInv
    <3> QED BY <1>2, <2>2, <3>1, <3>3
  <2> QED BY <1>4, <2>1, <2>2 DEF Confirms
<1> QED BY <1>1, <1>2, <1>3, <1>4 DEF Unconfirmed

-----------------------------------------------------------------------------
(* The state that a leader reads.                                          *)

\* The state of a leader that has committed an entry of its term is what was done
\* in its term or before.
LEMMA ReadState ==
    RaftInv /\ CommitInv /\ AppliedIsCommitted => \A n \in Node : \A w \in Write :
        IsLeader(n) /\ Has(log[n], commit[n], term[n]) =>
            (w \in StateAt(log[n], applied[n]) <=> DoneBy(w, term[n]))
<1> SUFFICES ASSUME RaftInv, CommitInv, AppliedIsCommitted, NEW n \in Node, NEW w \in Write,
                    IsLeader(n), Has(log[n], commit[n], term[n])
             PROVE  w \in StateAt(log[n], applied[n]) <=> DoneBy(w, term[n])
    OBVIOUS
<1>1. PICK c, a, t, l : c = commit[n] /\ a = applied[n] /\ t = term[n] /\ l = log[n]
    OBVIOUS
<1>2. /\ c \in Nat /\ a \in Nat /\ t \in Nat /\ l \in Log /\ Len(l) \in Nat /\ l \in Buildable
      /\ c \in 1..Len(l) /\ l[c].term = t
    BY <1>1, LogsAreBuildable, LenProperties DEF RaftInv, TypeInv, TypeOK, Log, Has
<1>3. a = c
  <2>1. c <= a
    BY <1>1 DEF AppliedIsCommitted
  <2>2. a <= Len(l)
    BY <1>1, <1>2, CommittedFacts DEF CommitInv, CommitsAreChosen
  <2>3. a \in 1..Len(l) /\ a \in c..Len(l) /\ l[a].term \in Nat
    BY <1>2, <2>1, <2>2, EntryTerm
  <2>4. t <= l[a].term
    BY <1>2, <2>3, SortedLog
  <2>5. l[a].term <= t
    <3>1. PICK x \in LogLinks(l) : x.entry.term = l[a].term
      BY <1>2, <2>3, LogLinkFields
    <3> QED BY <1>1, <3>1 DEF RaftInv, MatchingInv, TermsAreBounded
  <2>6. Has(l, a, t)
    BY <1>2, <2>3, <2>4, <2>5 DEF Has
  <2> QED BY <1>1, <2>6 DEF AppliedIsCommitted
<1>4. w \in StateAt(l, a) <=> InLog(w, l, c)
    BY <1>3 DEF StateAt, InLog
<1> QED BY <1>1, <1>4, CommitIsDone, LeaderHasDone

\* The same after a step.
LEMMA ReadStateNext ==
    (RaftInv /\ CommitInv /\ AppliedIsCommitted => \A n \in Node : \A w \in Write :
        IsLeader(n) /\ Has(log[n], commit[n], term[n]) =>
            (w \in StateAt(log[n], applied[n]) <=> DoneBy(w, term[n])))'
BY ReadState, PTL

\* What is committed stays applied, and leaders keep what they have applied in line.
LEMMA AppliedStaysCommitted ==
    ASSUME RaftInv, RaftInv', CommitInv, AppliedIsCommitted, NEW n \in Node, NodeStep(n),
           AppliesCommits(n)
    PROVE  AppliedIsCommitted'
<1> SUFFICES ASSUME NEW a \in Node
             PROVE  /\ commit'[a] <= applied'[a]
                    /\ IsLeader(a)' /\ Has(log'[a], applied'[a], term'[a]) =>
                          applied'[a] = commit'[a]
    BY DEF AppliedIsCommitted
<1>1. CASE a # n
  <2>1. /\ term'[a] = term[a] /\ role'[a] = role[a] /\ log'[a] = log[a]
        /\ commit'[a] = commit[a] /\ applied'[a] = applied[a]
    BY <1>1, StepTypes
  <2> QED BY <2>1 DEF AppliedIsCommitted, IsLeader
<1>2. CASE a = n
  <2>1. commit'[n] <= applied'[n]
    BY DEF AppliesCommits, AppliedIsCommitted
  <2>2. ASSUME IsLeader(n)', Has(log'[n], applied'[n], term'[n]) PROVE applied'[n] = commit'[n]
    <3>1. /\ log[n] \in Log /\ Len(log[n]) \in Nat /\ log[n] \in Buildable /\ term'[n] = term[n]
          /\ applied[n] \in Nat /\ applied'[n] \in Nat
          /\ commit[n] \in Nat /\ commit'[n] \in Nat /\ term[n] \in Nat
      BY <2>2, StepTypes DEF NodeStep, ElectionStep, IsLeader
    <3>2. applied[n] <= Len(log[n])
      BY <3>1, CommittedFacts DEF CommitInv, CommitsAreChosen
    <3>3. CASE commit'[n] = commit[n] /\ applied'[n] = applied[n]
      <4>1. ASSUME Has(log[n], applied[n], term[n]), IsLeader(n) PROVE applied'[n] = commit'[n]
        BY <3>3, <4>1 DEF AppliedIsCommitted
      <4>2. ASSUME IsLeader(n) PROVE Has(log[n], applied[n], term[n])
        <5>1. Agrees(log[n], log'[n], Len(log[n]))
          BY <2>2, <4>2, LeaderLogGrows
        <5> QED BY <2>2, <3>1, <3>2, <3>3, <5>1 DEF Agrees, Has
      <4>3. ASSUME ~IsLeader(n) PROVE FALSE
        <5>1. PICK e : Proposes(n, e) /\ role[n].kind = "candidate"
          BY <2>2, <4>3 DEF NodeStep, LogStep, IsLeader
        <5>2. \E Q \in SUBSET Node : IsQuorum(Q) /\ \A b \in Q : Supports(b, n, term[n])
          BY <2>2, <4>3 DEF NodeStep, ElectionStep, IsLeader
        <5>3. ~Owned(term[n])
          BY <5>1, <5>2, NotYetOwned DEF RaftInv
        <5>4. \A k \in 1..Len(log[n]) : log'[n][k] = log[n][k]
          BY <3>1, <5>1, GrownLinks DEF Proposes
        <5>5. Has(log[n], applied[n], term[n])
          BY <2>2, <3>1, <3>2, <3>3, <5>4 DEF Has
        <5>6. PICK x \in Links : x.entry.term = term[n]
          BY <3>1, <5>5, HasLink DEF RaftInv
        <5> QED BY <5>3, <5>6 DEF RaftInv, MatchingInv, TermsAreOwned
      <4> QED BY <4>1, <4>2, <4>3
    <3>4. CASE /\ StaysLeader(n) /\ commit'[n] >= commit[n]
               /\ applied'[n] = Max2(applied[n], commit'[n])
      <4>1. CASE applied[n] <= commit'[n]
        BY <3>1, <3>4, <4>1 DEF Max2
      <4>2. CASE applied[n] > commit'[n]
        <5>1. applied'[n] = applied[n] /\ Has(log[n], applied[n], term[n]) /\ IsLeader(n)
          BY <2>2, <3>4, <4>2 DEF Max2, StaysLeader
        <5>2. applied[n] = commit[n]
          BY <5>1 DEF AppliedIsCommitted
        <5> QED BY <3>1, <3>4, <4>2, <5>2
      <4> QED BY <3>1, <4>1, <4>2
    <3> QED BY <2>2, <3>3, <3>4 DEF AppliesCommits, IsLeader
  <2> QED BY <1>2, <2>1, <2>2
<1> QED BY <1>1, <1>2

-----------------------------------------------------------------------------
(* What clients are told stays true.                                       *)

\* What is true of the outcome of a request stays true.
LEMMA TruthfulStep ==
    ASSUME RaftInv, RaftInv', CommitInv, NEW n \in Node, NodeStep(n), AppliesCommits(n),
           NEW i \in Request, client'[i].seen = client[i].seen,
           NEW status, NEW value \in SUBSET Write, Truthful(i, status, value)
    PROVE  Truthful(i, status, value)'
<1>1. \A w \in Write : Done(w) => Done(w)'
    BY DoneStep
<1> QED BY <1>1 DEF Truthful

\* What a node says of a request is true after the step.
LEMMA OutcomeIsTrue ==
    ASSUME RaftInv, RaftInv', CommitInv, CommitInv', ClientInv, NEW n \in Node, NodeStep(n),
           ClientStep(n), NEW i \in Request, client'[i].seen = client[i].seen,
           NEW status, NEW value \in SUBSET Write, Outcome(n, i, status, value)
    PROVE  Truthful(i, status, value)'
<1>1. AppliesCommits(n)
    BY DEF ClientStep
<1>2. AppliedIsCommitted /\ AppliedIsCommitted'
    BY <1>1, AppliedStaysCommitted DEF ClientInv
<1>3. CASE status = "abort" /\ value = {}
    BY <1>3 DEF Truthful
<1>4. CASE i \in Status /\ value = {}
    BY <1>4, RequestAssumption DEF Truthful
<1>5. ASSUME NEW m \in msgs, m.body.type = "ClientResponse", m.body.id = i,
             m.body.status = status, m.body.value = value
      PROVE  Truthful(i, status, value)'
  <2>1. Truthful(i, status, value)
    BY <1>5 DEF ClientInv, RepliesAreTrue
  <2> QED BY <1>1, <2>1, TruthfulStep
<1>6. CASE AcksWrite(n, i) /\ value = {}
  <2>1. PICK x \in role[n].writes : x.id = i /\ x.index \in 1..commit'[n]
    BY <1>6 DEF AcksWrite
  <2>2. i \in Write /\ i \notin Read
    BY <1>6, <2>1, ClientTypes, RequestAssumption DEF AcksWrite, StaysLeader, RaftInv
  <2>3. log'[n][x.index].command = i
    BY <1>6, <2>1 DEF AcksWrite, StaysLeader, ClientInv, WritesAreLogged
  <2>4. InLog(i, log'[n], commit'[n])
    BY <2>1, <2>3 DEF InLog
  <2>5. IsLeader(n)' /\ Has(log'[n], commit'[n], term'[n])
    BY <1>6 DEF AcksWrite, StaysLeader, IsLeader
  <2>6. DoneBy(i, term[n])'
    BY <2>2, <2>4, <2>5, CommitIsDoneNext
  <2>7. Done(i)'
    BY <2>6 DEF Done, RaftInv, TypeInv, TypeOK
  <2> QED BY <2>2, <2>7 DEF Truthful
<1>7. CASE ServesRead(n, i, value)
  <2>1. PICK x \in role[n].reads : x.id = i /\ Confirmed(n, x.seq)
    BY <1>7 DEF ServesRead
  <2>2. /\ i \in Read /\ i \notin Write /\ IsLeader(n) /\ IsLeader(n)' /\ term'[n] = term[n]
        /\ client[i].seen \in SUBSET Write /\ term[n] \in Nat
    BY <1>7, <2>1, ClientTypes, RequestAssumption
    DEF ServesRead, StaysLeader, IsLeader, RaftInv, TypeInv, TypeOK
  <2>3. \A w \in client[i].seen : DoneBy(w, term[n])
    BY <2>1, <2>2, ConfirmedIsNotUnconfirmed DEF ClientInv, ReadsAreFresh, RaftInv
  <2>4. PICK t \in Nat : t = term[n]
    BY <2>2
  <2>5. \A w \in Write : DoneBy(w, t) => DoneBy(w, t)'
    BY <1>1, DoneStep
  <2>6. ASSUME NEW w \in value PROVE Done(w)'
    <3>1. CASE Has(log[n], commit[n], term[n]) /\ value = StateAt(log[n], applied[n])
      <4>1. DoneBy(w, t)
        BY <1>2, <2>2, <2>4, <2>6, <3>1, ReadState
      <4> QED BY <2>5, <2>6, <4>1 DEF Done
    <3>2. CASE Has(log'[n], commit'[n], term'[n]) /\ value = StateAt(log'[n], applied'[n])
      <4>1. DoneBy(w, term[n])'
        BY <1>2, <2>2, <2>6, <3>2, ReadStateNext
      <4> QED BY <2>2, <4>1 DEF Done
    <3> QED BY <1>7, <3>1, <3>2 DEF ServesRead
  <2>7. ASSUME NEW w \in client[i].seen PROVE w \in value
    <3>1. w \in Write /\ DoneBy(w, t) /\ DoneBy(w, t)'
      BY <2>2, <2>3, <2>4, <2>5
    <3>2. CASE Has(log[n], commit[n], term[n]) /\ value = StateAt(log[n], applied[n])
      BY <1>2, <2>2, <2>4, <3>1, <3>2, ReadState
    <3>3. CASE Has(log'[n], commit'[n], term'[n]) /\ value = StateAt(log'[n], applied'[n])
      <4>1. DoneBy(w, term[n])'
        BY <2>2, <2>4, <3>1 DEF DoneBy, Anchored, Chosen
      <4> QED BY <1>2, <2>2, <3>1, <3>3, <4>1, ReadStateNext
    <3> QED BY <1>7, <3>2, <3>3 DEF ServesRead
  <2> QED BY <2>2, <2>6, <2>7 DEF Truthful
<1> QED BY <1>3, <1>4, <1>5, <1>6, <1>7 DEF Outcome

\* A request that has been submitted stays so, and what its submitter knew stays the same.
LEMMA SubmittedStep ==
    ASSUME NEW n, NEW i \in Request, Changes(n, i), Submitted(i)
    PROVE  Submitted(i)' /\ client'[i].seen = client[i].seen
BY DEF Changes, Submitted, Outcome

\* Whatever a client knows when it submits a request is done by then.
LEMMA SeenIsDone ==
    ASSUME RaftInv, ClientsAreTold, NEW n, NEW i \in Request, Changes(n, i),
           NEW w \in client'[i].seen
    PROVE  w \in Write /\ Done(w)
<1>1. CASE client'[i].seen = client[i].seen
    BY <1>1, ClientTypes DEF ClientsAreTold, RaftInv
<1>2. CASE client'[i].seen = Known
  <2>1. CASE w \in Write /\ client[w].status = "ok"
    <3>1. w \in Request
      BY <2>1 DEF Request
    <3> QED BY <2>1, <3>1 DEF ClientsAreTold, Truthful
  <2>2. ASSUME NEW r \in Read, w \in client[r].value PROVE w \in Write /\ Done(w)
    <3>1. r \in Request
      BY DEF Request
    <3> QED BY <2>2, <3>1, ClientTypes DEF ClientsAreTold, Truthful, RaftInv
  <2> QED BY <1>2, <2>1, <2>2 DEF Known
<1> QED BY <1>1, <1>2 DEF Changes

\* Clients.
LEMMA ClientsStayTold ==
    ASSUME RaftInv, RaftInv', CommitInv, CommitInv', ClientInv, NEW n \in Node, NodeStep(n),
           ClientStep(n)
    PROVE  ClientsAreTold'
<1>1. AppliesCommits(n) /\ \A i \in Request : Changes(n, i)
    BY DEF ClientStep
<1>2. ASSUME NEW i \in Request, NEW w \in client'[i].seen PROVE Done(w)'
  <2>1. w \in Write /\ Done(w)
    BY <1>1, <1>2, SeenIsDone DEF ClientInv
  <2> QED BY <1>1, <2>1, DoneStep
<1>3. ASSUME NEW i \in Request, NEW status, NEW value, status = client'[i].status,
             value = client'[i].value
      PROVE  Truthful(i, status, value)'
  <2>1. value \in SUBSET Write
    BY <1>3, ClientTypesNext DEF RaftInv
  <2>2. CASE client'[i] = client[i]
    <3>1. Truthful(i, status, value)
      BY <1>3, <2>2 DEF ClientInv, ClientsAreTold
    <3> QED BY <1>1, <2>1, <2>2, <3>1, TruthfulStep
  <2>3. CASE /\ value = {}
             /\ status \in {"pending", "abort"} \/ (i \in Status /\ status = "ok")
    BY <2>3, RequestAssumption DEF Truthful
  <2>4. CASE client'[i].seen = client[i].seen /\ Outcome(n, i, status, value)
    BY <2>1, <2>4, OutcomeIsTrue
  <2> QED BY <1>1, <1>3, <2>2, <2>3, <2>4 DEF Changes
<1>4. ASSUME NEW i \in Request PROVE Truthful(i, client[i].status, client[i].value)'
  <2>1. PICK status, value : status = client'[i].status /\ value = client'[i].value
    OBVIOUS
  <2>2. Truthful(i, status, value)'
    BY <1>3, <2>1
  <2> QED BY <2>1, <2>2 DEF Truthful
<1> QED BY <1>2, <1>4 DEF ClientsAreTold

\* Messages to clients and from them.
LEMMA RepliesStayTrue ==
    ASSUME RaftInv, RaftInv', CommitInv, CommitInv', ClientInv, NEW n \in Node, NodeStep(n),
           ClientStep(n)
    PROVE  RepliesAreTrue'
<1>1. AppliesCommits(n) /\ \A i \in Request : Changes(n, i)
    BY DEF ClientStep
<1>2. ASSUME NEW m \in msgs', m.body.type = "ClientRequest" PROVE Submitted(m.body.id)'
  <2>1. m.body.id \in Request
    BY <1>2, ClientTypesNext DEF RaftInv
  <2>2. CASE m \in msgs
    BY <1>1, <1>2, <2>1, <2>2, SubmittedStep DEF ClientInv, RepliesAreTrue
  <2>3. CASE m \notin msgs
    BY <1>2, <2>3 DEF ClientStep, Says, Submitted
  <2> QED BY <2>2, <2>3
<1>3. ASSUME NEW m \in msgs', m.body.type = "ClientResponse"
      PROVE  Submitted(m.body.id)' /\ Truthful(m.body.id, m.body.status, m.body.value)'
  <2>1. PICK i \in Request, value \in SUBSET Write, status \in {"ok", "abort"} :
          i = m.body.id /\ value = m.body.value /\ status = m.body.status
    BY <1>3, ClientTypesNext DEF RaftInv
  <2>2. CASE m \in msgs
    <3>1. Submitted(i) /\ Truthful(i, status, value)
      BY <1>3, <2>1, <2>2 DEF ClientInv, RepliesAreTrue
    <3>2. Submitted(i)' /\ client'[i].seen = client[i].seen
      BY <1>1, <3>1, SubmittedStep
    <3>3. Truthful(i, status, value)'
      BY <1>1, <3>1, <3>2, TruthfulStep
    <3> QED BY <2>1, <3>2, <3>3 
  <2>3. CASE m \notin msgs
    <3>1. Submitted(i) /\ Outcome(n, i, status, value)
      BY <1>3, <2>1, <2>3 DEF ClientStep, Says
    <3>2. Submitted(i)' /\ client'[i].seen = client[i].seen
      BY <1>1, <3>1, SubmittedStep
    <3>3. Truthful(i, status, value)'
      BY <3>1, <3>2, OutcomeIsTrue
    <3> QED BY <2>1, <3>2, <3>3
  <2> QED BY <2>2, <2>3
<1> QED BY <1>2, <1>3 DEF RepliesAreTrue

\* Writes.
LEMMA WritesStayLogged ==
    ASSUME RaftInv, RaftInv', ClientInv, NEW n \in Node, NodeStep(n), ClientStep(n)
    PROVE  WritesAreLogged'
<1> SUFFICES ASSUME NEW l \in Node, IsLeader(l)', NEW x \in role'[l].writes
             PROVE  /\ Submitted(x.id)'
                    /\ x.index \in 1..Len(log'[l]) /\ log'[l][x.index].command = x.id
    BY DEF WritesAreLogged
<1>1. x.id \in Request
    BY ClientTypesNext DEF RaftInv, Request
<1>2. Changes(n, x.id)
    BY <1>1 DEF ClientStep
<1>3. ASSUME IsLeader(l), x \in role[l].writes
      PROVE  /\ Submitted(x.id)'
             /\ x.index \in 1..Len(log'[l]) /\ log'[l][x.index].command = x.id
  <2>1. Submitted(x.id) /\ x.index \in 1..Len(log[l]) /\ log[l][x.index].command = x.id
    BY <1>3 DEF ClientInv, WritesAreLogged
  <2>2. Agrees(log[l], log'[l], Len(log[l]))
    BY <1>3, LeaderLogGrows
  <2>3. Len(log[l]) \in Nat /\ Len(log'[l]) \in Nat
    BY StepTypes
  <2>4. Submitted(x.id)'
    BY <1>1, <1>2, <2>1, SubmittedStep
  <2> QED BY <2>1, <2>2, <2>3, <2>4 DEF Agrees
<1>4. CASE l # n
  <2>1. role'[l] = role[l]
    BY <1>4, StepTypes
  <2> QED BY <1>3, <2>1 DEF IsLeader
<1>5. CASE l = n
  <2>1. TakesWrite(n, x)
    BY <1>5 DEF ClientStep, KeepsRequests, IsLeader
  <2> QED BY <1>3, <1>5, <2>1 DEF TakesWrite, Submitted
<1> QED BY <1>4, <1>5

\* Reads.
LEMMA ReadsStayFresh ==
    ASSUME RaftInv, RaftInv', CommitInv, AssertInv, ClientInv, NEW n \in Node, NodeStep(n),
           RoleStep(n), ClientStep(n)
    PROVE  ReadsAreFresh'
<1> SUFFICES ASSUME NEW l \in Node, IsLeader(l)', NEW x \in role'[l].reads
             PROVE  /\ Submitted(x.id)' /\ x.seq \in 1..role'[l].readSeq
                    /\ \/ Unconfirmed(term[l], x.seq)'
                       \/ \A w \in client'[x.id].seen : DoneBy(w, term[l])'
    BY DEF ReadsAreFresh
<1>1. PICK i \in Request, s \in Nat : i = x.id /\ s = x.seq
    BY ClientTypesNext DEF RaftInv, Request
<1>2. Changes(n, i) /\ AppliesCommits(n)
    BY <1>1 DEF ClientStep
<1>3. PICK t \in Nat : t = term[l]
    BY DEF RaftInv, TypeInv, TypeOK
<1>4. term'[l] = t
    BY <1>3, LeadersStep DEF RaftInv, NodeStep
<1>5. ASSUME s > 0, Unconfirmed(t, s) \/ \A w \in client'[i].seen : DoneBy(w, t)
      PROVE  Unconfirmed(term[l], x.seq)' \/ \A w \in client'[x.id].seen : DoneBy(w, term[l])'
  <2>1. CASE Unconfirmed(t, s)
    <3>1. Unconfirmed(t, s)'
      BY <1>5, <2>1, UnconfirmedStep
    <3> QED BY <1>1, <1>4, <3>1 DEF Unconfirmed
  <2>2. CASE \A w \in client'[i].seen : DoneBy(w, t)
    <3>1. ASSUME NEW w \in client'[i].seen PROVE DoneBy(w, term[l])'
      <4>1. w \in Write
        BY <1>2, SeenIsDone DEF ClientInv
      <4>2. DoneBy(w, t)'
        BY <1>2, <2>2, <4>1, DoneStep
      <4> QED BY <1>4, <4>2 DEF DoneBy
    <3> QED BY <1>1, <3>1
  <2> QED BY <1>5, <2>1, <2>2
<1>6. ASSUME IsLeader(l), x \in role[l].reads,
             role[l].readSeq <= role'[l].readSeq
      PROVE  /\ Submitted(x.id)' /\ x.seq \in 1..role'[l].readSeq
             /\ \/ Unconfirmed(term[l], x.seq)'
                \/ \A w \in client'[x.id].seen : DoneBy(w, term[l])'
  <2>1. /\ Submitted(i) /\ s \in 1..role[l].readSeq
        /\ Unconfirmed(t, s) \/ \A w \in client[i].seen : DoneBy(w, t)
    BY <1>1, <1>3, <1>6 DEF ClientInv, ReadsAreFresh
  <2>2. Submitted(i)' /\ client'[i].seen = client[i].seen
    BY <1>2, <2>1, SubmittedStep
  <2>3. role[l].readSeq \in Nat /\ role'[l].readSeq \in Nat
    BY <1>6, SequenceTypes, SequenceTypesNext DEF RaftInv
  <2>4. s > 0 /\ s \in 1..role'[l].readSeq
    BY <1>6, <2>1, <2>3
  <2> QED BY <1>1, <1>5, <2>1, <2>2, <2>4
<1>7. CASE l # n
  <2>1. role'[l] = role[l]
    BY <1>7, StepTypes
  <2>2. role'[l].readSeq \in Nat
    BY SequenceTypesNext DEF RaftInv
  <2> QED BY <1>6, <2>1, <2>2 DEF IsLeader
<1>8. CASE l = n
  <2>1. TakesRead(n, x)
    BY <1>8 DEF ClientStep, KeepsRequests, IsLeader
  <2>2. CASE IsLeader(n) /\ x \in role[n].reads
    <3>1. role[n].readSeq <= role'[n].readSeq
      <4>1. role[n].readSeq \in Nat /\ role'[n].readSeq \in Nat
        BY <1>8, <2>2, SequenceTypes, SequenceTypesNext DEF RaftInv
      <4>2. role'[n].readSeq >= role[n].readSeq
        BY <1>8, <2>2 DEF RoleStep, IsLeader
      <4> QED BY <4>1, <4>2
    <3> QED BY <1>6, <1>8, <2>2, <3>1
  <2>3. CASE /\ IsLeader(n) /\ x.seq = role[n].readSeq + 1 /\ role'[n].readSeq = x.seq
             /\ client'[x.id].status # "idle"
    <3>1. role[n].readSeq \in Nat
      BY <2>3, SequenceTypes DEF RaftInv
    <3>2. s > 0 /\ s \in 1..role'[n].readSeq
      BY <1>1, <2>3, <3>1
    <3>3. Unconfirmed(t, s) \/ \A w \in client'[i].seen : DoneBy(w, t)
      <4>1. SUFFICES ASSUME NEW w \in client'[i].seen, ~DoneBy(w, t) PROVE Unconfirmed(t, s)
        OBVIOUS
      <4>2. Done(w)
        BY <1>2, SeenIsDone DEF ClientInv
      <4>3. PICK j, u \in Nat : Anchored(w, j, u)
        BY <4>2 DEF Done, DoneBy
      <4>4. u > t
        BY <4>1, <4>3 DEF DoneBy
      <4> QED BY <1>1, <1>3, <1>8, <2>3, <4>3, <4>4, NextIsUnconfirmed DEF Anchored, ClientInv
    <3>4. Submitted(i)'
      BY <1>1, <2>3 DEF Submitted
    <3> QED BY <1>1, <1>5, <1>8, <3>2, <3>3, <3>4
  <2> QED BY <2>1, <2>2, <2>3 DEF TakesRead
<1> QED BY <1>7, <1>8

\* Sequence numbers.
LEMMA SequencesStayGiven ==
    ASSUME RaftInv, RaftInv', AssertInv, SequencesAreGiven, NEW n \in Node, NodeStep(n),
           RoleStep(n), ClientStep(n)
    PROVE  SequencesAreGiven'
<1> SUFFICES ASSUME NEW l \in Node, IsLeader(l)'
             PROVE  /\ \A m \in msgs' :
                          m.term = term'[l] /\ m.body.type \in {"Read", "ReadResponse"} =>
                             m.body.seq <= role'[l].readSeq
                    /\ \A p \in Peers(l) : role'[l].progress[p].readSeq <= role'[l].readSeq
    BY DEF SequencesAreGiven
<1>1. role'[l].readSeq \in Nat /\ term'[l] = term[l]
    BY SequenceTypesNext, LeadersStep DEF RaftInv, NodeStep
<1>2. ASSUME IsLeader(l) PROVE role[l].readSeq \in Nat /\ role[l].readSeq <= role'[l].readSeq
  <2>1. role[l].readSeq \in Nat
    BY <1>2, SequenceTypes DEF RaftInv
  <2>2. l # n => role'[l] = role[l]
    BY StepTypes
  <2> QED BY <1>1, <1>2, <2>1, <2>2 DEF RoleStep, IsLeader
<1>3. ASSUME NEW r \in msgs, r.term = term'[l], r.body.type \in {"Read", "ReadResponse"}
      PROVE  r.body.seq <= role'[l].readSeq
  <2>1. Owned(term'[l])
    BY <1>3 DEF RaftInv, MatchingInv, TermsAreOwned, LeaderTypes, LeaderResponseTypes
  <2>2. IsLeader(l)
    BY <2>1, OldLeader
  <2>3. r.body.seq \in Nat
    BY <1>3, BodyFields DEF RaftInv, TypeInv, TypeOK, Envelope
  <2>4. r.body.seq <= role[l].readSeq
    BY <1>1, <1>3, <2>2 DEF SequencesAreGiven
  <2> QED BY <1>1, <1>2, <2>2, <2>3, <2>4
<1>4. ASSUME NEW m \in msgs', m.term = term'[l], m.body.type \in {"Read", "ReadResponse"}
      PROVE  m.body.seq <= role'[l].readSeq
  <2>1. CASE m \in msgs
    BY <1>3, <1>4, <2>1
  <2>2. CASE m \notin msgs /\ m.body.type = "Read"
    <3>1. /\ m.body.seq <= role'[n].readSeq
          /\ role'[n].kind = "leader" /\ m.term = term'[n]
      BY <2>2 DEF ClientStep, Says, NodeStep, LogStep, LeaderTypes
    <3>2. l = n
      BY <1>4, <3>1 DEF RaftInv, ElectionInv, ElectionSafety, IsLeader
    <3> QED BY <3>1, <3>2
  <2>3. CASE m \notin msgs /\ m.body.type = "ReadResponse"
    <3>1. PICK r \in msgs : r.body.type = "Read" /\ r.term = m.term /\ m.body.seq = r.body.seq
      BY <2>3 DEF ClientStep, Says
    <3> QED BY <1>3, <1>4, <3>1
  <2> QED BY <1>4, <2>1, <2>2, <2>3
<1>5. ASSUME NEW p \in Peers(l) PROVE role'[l].progress[p].readSeq <= role'[l].readSeq
  <2>1. CASE l # n
    <3>1. role'[l] = role[l]
      BY <2>1, StepTypes
    <3> QED BY <1>5, <3>1 DEF SequencesAreGiven, IsLeader
  <2>2. CASE l = n
    <3>1. LearnsRead(n, p)
      BY <1>5, <2>2 DEF ClientStep, KeepsRequests, IsLeader
    <3>2. CASE role'[n].progress[p].readSeq = 0
      BY <1>1, <2>2, <3>2
    <3>3. CASE IsLeader(n) /\ role'[n].progress[p].readSeq = role[n].progress[p].readSeq
      <4>1. role[n].progress[p].readSeq <= role[n].readSeq /\ role[n].progress[p].readSeq \in Nat
        BY <1>5, <2>2, <3>3, SequenceTypes DEF SequencesAreGiven, RaftInv
      <4> QED BY <1>1, <1>2, <2>2, <3>3, <4>1
    <3>4. ASSUME IsLeader(n), NEW m \in Confirmations, m.term = term[n],
                 role'[n].progress[p].readSeq = SeqOf(m)
          PROVE  role'[n].progress[p].readSeq <= role'[n].readSeq
      <4>1. SeqOf(m) \in Nat
        BY SequenceTypes DEF RaftInv
      <4>2. SeqOf(m) <= role[n].readSeq
        BY <3>4 DEF Confirmations, SeqOf, SequencesAreGiven, AssertInv, ResponsesAreInRange
      <4> QED BY <1>1, <1>2, <2>2, <3>4, <4>1, <4>2
    <3> QED BY <2>2, <3>1, <3>2, <3>3, <3>4 DEF LearnsRead
  <2> QED BY <2>1, <2>2
<1> QED BY <1>4, <1>5

\* A step of this kind keeps the invariant.
LEMMA ClientInvStep ==
    ASSUME RaftInv, RaftInv', CommitInv, CommitInv', AssertInv, ClientInv,
           NEW n \in Node, NodeStep(n), RoleStep(n), ClientStep(n)
    PROVE  ClientInv'
<1>1. ClientsAreTold' /\ RepliesAreTrue' /\ WritesAreLogged' /\ ReadsAreFresh'
    BY ClientsStayTold, RepliesStayTrue, WritesStayLogged, ReadsStayFresh
<1>2. SequencesAreGiven' /\ AppliedIsCommitted'
    BY SequencesStayGiven, AppliedStaysCommitted DEF ClientInv, ClientStep
<1> QED BY <1>1, <1>2 DEF ClientInv

-----------------------------------------------------------------------------
(* The actions are such steps: what is sent and answered.                  *)

\* Messages that carry no request, no response to a client and no read.
Mute(S) ==
    \A m \in S :
        m.body.type \notin {"ClientRequest", "ClientResponse", "Read", "ReadResponse"}

\* They may always be sent.
LEMMA MuteMsgs ==
    ASSUME NEW n, NEW t
    PROVE  /\ \A b : b.type \notin {"ClientRequest", "ClientResponse", "Read", "ReadResponse"} =>
                 Mute(Broadcast(n, t, b)) /\ \A p : Mute({Env(n, p, t, b)})
           /\ \A l, progress : Mute(ProposalMsgs(n, t, Propose(l, progress)))
           /\ \A p, l, pr, probe :
                 Mute({Env(n, p, t, b) : b \in MaybeSendAppend(l, pr, probe).bodies})
           /\ \A S : Mute(S) => \A m \in S : Says(n, m)
<1>1. \A b : b.type \notin {"ClientRequest", "ClientResponse", "Read", "ReadResponse"} =>
        Mute(Broadcast(n, t, b)) /\ \A p : Mute({Env(n, p, t, b)})
    BY DEF Mute, Broadcast, Env
<1>2. \A l, pr, probe : \A b \in MaybeSendAppend(l, pr, probe).bodies : b.type = "Append"
  <2> SUFFICES ASSUME NEW l, NEW pr, NEW probe, NEW b \in MaybeSendAppend(l, pr, probe).bodies
               PROVE  b.type = "Append"
    OBVIOUS
  <2> DEFINE entries == IF probe /\ pr.next > pr.match + 1 THEN <<>>
                        ELSE Scan(l, pr.next, MaxAppendEntries)
             body == [type |-> "Append", baseIndex |-> pr.next - 1,
                      baseTerm |-> TermAt(l, pr.next - 1), entries |-> entries]
  <2>1. \/ MaybeSendAppend(l, pr, probe) = [progress |-> pr, bodies |-> {}]
        \/ MaybeSendAppend(l, pr, probe) =
              [progress |-> [pr EXCEPT !.next = @ + Len(entries)], bodies |-> {body}]
    BY DEF MaybeSendAppend
  <2>2. b = body
    BY <2>1
  <2> QED BY <2>2
<1>3. ASSUME NEW l, NEW progress PROVE Mute(ProposalMsgs(n, t, Propose(l, progress)))
  <2>1. ASSUME NEW p \in DOMAIN Propose(l, progress), NEW b \in Propose(l, progress)[p].bodies
        PROVE  b.type = "Append"
    BY <1>2, <2>1 DEF Propose
  <2> QED BY <2>1 DEF Mute, ProposalMsgs, Env
<1>4. \A p, l, pr, probe :
        Mute({Env(n, p, t, b) : b \in MaybeSendAppend(l, pr, probe).bodies})
    BY <1>2 DEF Mute, Env
<1>5. \A S : Mute(S) => \A m \in S : Says(n, m)
    BY DEF Mute, Says
<1> QED BY <1>1, <1>3, <1>4, <1>5

\* Responses that node n may give, to its own client or to another node.
Speaks(n, R) ==
    \A r \in R : Outcome(n, r.id, r.status, r.value) /\ (r.to # n => Submitted(r.id))

\* Responses reach clients and are sent to other nodes.
LEMMA SpeaksFacts ==
    ASSUME TypeInv, NEW n, NEW R, Speaks(n, R)
    PROVE  /\ client' = Answer(client, n, R) => \A i \in Request : Changes(n, i)
           /\ \A t : \A m \in ReplyMsgs(n, t, R) : Says(n, m)
<1>1. ASSUME client' = Answer(client, n, R), NEW i \in Request PROVE Changes(n, i)
  <2>1. client \in [Request -> ClientView]
    BY DEF TypeInv, TypeOK
  <2>2. \/ client'[i] = client[i]
        \/ \E r \in R : /\ r.to = n /\ r.id = i
                        /\ client'[i].status = r.status /\ client'[i].value = r.value
                        /\ client'[i].seen = client[i].seen
    BY <1>1, <2>1, AnswerCases
  <2> QED BY <2>2 DEF Speaks, Changes
<1>2. ASSUME NEW t, NEW m \in ReplyMsgs(n, t, R) PROVE Says(n, m)
  <2>1. PICK r \in R : /\ r.to # n /\ m.body.type = "ClientResponse" /\ m.body.id = r.id
                       /\ m.body.status = r.status /\ m.body.value = r.value
    BY <1>2 DEF ReplyMsgs, Env
  <2> QED BY <2>1 DEF Speaks, Says
<1> QED BY <1>1, <1>2

\* Requests may always be aborted.
LEMMA AbortsSpeak ==
    ASSUME TypeInv, ClientInv, NEW n \in Node, NEW m
    PROVE  Speaks(n, Aborted(n)) /\ Speaks(n, AbortedBy(n, m))
<1>1. CASE role[n].kind = "follower"
  <2>1. Speaks(n, Aborted(n))
    BY <1>1 DEF Aborted, Reply, Speaks, Outcome
  <2> QED BY <2>1 DEF AbortedBy, Speaks
<1>2. CASE role[n].kind = "leader"
  <2>1. \A x \in role[n].writes \cup role[n].reads : Submitted(x.id)
    BY <1>2 DEF ClientInv, WritesAreLogged, ReadsAreFresh, IsLeader
  <2>2. Speaks(n, Aborted(n))
    BY <1>2, <2>1 DEF Aborted, Reply, Speaks, Outcome
  <2> QED BY <2>2 DEF AbortedBy, Speaks
<1>3. CASE role[n].kind \notin {"follower", "leader"}
    BY <1>3 DEF Aborted, AbortedBy, Speaks
<1> QED BY <1>1, <1>2, <1>3

-----------------------------------------------------------------------------
(* Followers.                                                              *)

\* A node that steps a message as a follower.
LEMMA EndAsFollowerClient ==
    ASSUME TypeInv, ClientInv, NEW n \in Node, NEW m \in msgs, NEW v, NEW r, r.kind = "follower",
           NEW sent, \A s \in sent : Says(n, s), NEW replies, Speaks(n, replies),
           EndAsFollower(n, m, v, r, sent, replies),
           commit[n] <= applied[n] => commit'[n] <= applied'[n]
    PROVE  ClientStep(n)
<1>1. role'[n] = r
    BY DEF EndAsFollower, TypeInv, TypeOK
<1>2. PICK R : R = AbortedBy(n, m) \cup replies
    OBVIOUS
<1>3. Speaks(n, R) /\ Speaks(n, AbortedBy(n, m))
    BY <1>2, AbortsSpeak DEF Speaks
<1>4. \A i \in Request : Changes(n, i)
  <2>1. client' = Answer(client, n, R)
    BY <1>2 DEF EndAsFollower
  <2> QED BY <1>3, <2>1, SpeaksFacts
<1>5. PICK aborts : aborts = ReplyMsgs(n, term[n], AbortedBy(n, m))
    OBVIOUS
<1>6. \A s \in aborts : Says(n, s)
    BY <1>3, <1>5, SpeaksFacts
<1>7. msgs' \subseteq msgs \cup (sent \cup aborts)
    BY <1>5, SendSubset DEF EndAsFollower
<1>8. KeepsRequests(n) /\ AppliesCommits(n)
    BY <1>1 DEF KeepsRequests, AppliesCommits
<1> QED BY <1>4, <1>6, <1>7, <1>8 DEF ClientStep

\* Followers.
LEMMA FollowerClientSteps ==
    ASSUME TypeInv, ClientInv, NEW n \in Node, NEW m \in msgs,
           \/ HandleHeartbeat(n, m) \/ HandleAppend(n, m) \/ HandleRead(n, m)
           \/ HandleCampaign(n, m) \/ HandleClientResponse(n, m) \/ IgnoreVote(n, m)
    PROVE  ClientStep(n)
<1>1. PICK none : none = {} /\ Speaks(n, none) /\ \A s \in none : Says(n, s)
  <2> WITNESS {}
  <2> QED BY DEF Speaks
<1>2. ASSUME NEW b, FollowAndRespond(n, m, b), Says(n, Env(n, m.from, m.term, b)),
             commit[n] <= applied[n] => commit'[n] <= applied'[n]
      PROVE  ClientStep(n)
  <2>1. PICK e, f : /\ e = Env(n, m.from, m.term, b)
                    /\ f = Follower(m.from, FollowerIn(n, m).forwarded)
    OBVIOUS
  <2>2. f.kind = "follower" /\ EndAsFollower(n, m, VoteIn(n, m), f, {e}, none)
    BY <1>1, <1>2, <2>1 DEF FollowAndRespond, Follower
  <2>3. \A s \in {e} : Says(n, s)
    BY <1>2, <2>1
  <2> QED BY <1>1, <1>2, <2>2, <2>3, EndAsFollowerClient
<1>3. ASSUME NEW b,
             b.type \notin {"ClientRequest", "ClientResponse", "Read", "ReadResponse"}
      PROVE  Says(n, Env(n, m.from, m.term, b))
    BY <1>3 DEF Says, Env
<1>4. /\ commit[n] \in Nat /\ applied[n] \in Nat /\ n \in DOMAIN commit /\ n \in DOMAIN applied
      /\ n \in DOMAIN role /\ m.body \in Body
    BY DEF TypeInv, TypeOK, Envelope
<1>5. CASE HandleHeartbeat(n, m)
  <2>1. PICK b :
          /\ b.type = "HeartbeatResponse" /\ FollowAndRespond(n, m, b)
          /\ m.body.type = "Heartbeat"
    BY <1>5 DEF HandleHeartbeat
  <2>2. Says(n, Env(n, m.from, m.term, b))
    BY <1>3, <2>1
  <2>3. m.body.commitIndex \in Nat
    BY <1>4, <2>1, BodyFields
  <2>4. \/ commit'[n] = commit[n] /\ applied'[n] = applied[n]
        \/ commit'[n] = m.body.commitIndex /\ applied'[n] = Max2(applied[n], m.body.commitIndex)
    BY <1>4, <1>5 DEF HandleHeartbeat
  <2>5. commit[n] <= applied[n] => commit'[n] <= applied'[n]
    BY <1>4, <2>3, <2>4 DEF Max2
  <2> QED BY <1>2, <2>1, <2>2, <2>5
<1>6. CASE HandleAppend(n, m)
  <2>1. PICK b : b.type = "AppendResponse" /\ FollowAndRespond(n, m, b)
    BY <1>6 DEF HandleAppend
  <2>2. Says(n, Env(n, m.from, m.term, b)) /\ UNCHANGED <<commit, applied>>
    BY <1>3, <1>6, <2>1 DEF HandleAppend
  <2> QED BY <1>2, <2>1, <2>2
<1>7. CASE HandleRead(n, m)
  <2>1. PICK b : /\ b.type = "ReadResponse" /\ b.seq = m.body.seq /\ FollowAndRespond(n, m, b)
                 /\ m.body.type = "Read"
    BY <1>7 DEF HandleRead
  <2>2. term'[n] = m.term
    BY <2>1 DEF FollowAndRespond, EndAsFollower, TypeInv, TypeOK
  <2>3. Says(n, Env(n, m.from, m.term, b)) /\ UNCHANGED <<commit, applied>>
    BY <1>7, <2>1, <2>2 DEF Says, Env, HandleRead
  <2> QED BY <1>2, <2>1, <2>3
<1>8. FollowerIn(n, m).kind = "follower"
    BY DEF FollowerIn, Follower
<1>9. CASE HandleCampaign(n, m)
  <2>1. PICK v, b : /\ b.type = "CampaignResponse"
                    /\ EndAsFollower(n, m, v, FollowerIn(n, m), {Env(n, m.from, m.term, b)}, none)
    BY <1>1, <1>9 DEF HandleCampaign
  <2>2. UNCHANGED <<commit, applied>> /\ \A s \in {Env(n, m.from, m.term, b)} : Says(n, s)
    BY <1>3, <1>9, <2>1 DEF HandleCampaign
  <2> QED BY <1>1, <1>8, <2>1, <2>2, EndAsFollowerClient
<1>10. CASE HandleClientResponse(n, m)
  <2>1. PICK f, replies :
          /\ EndAsFollower(n, m, VoteIn(n, m), Follower(m.from, f), none, replies)
          /\ replies \subseteq {Reply(n, m.body.id, m.body.status, m.body.value)}
          /\ m.body.type = "ClientResponse" /\ UNCHANGED <<commit, applied>>
    BY <1>1, <1>10 DEF HandleClientResponse
  <2>2. Follower(m.from, f).kind = "follower" /\ m.body.status \in {"ok", "abort"}
    BY <1>4, <2>1, BodyFields DEF Follower
  <2>3. Speaks(n, replies)
    BY <2>1, <2>2 DEF Speaks, Reply, Outcome
  <2> QED BY <1>1, <2>1, <2>2, <2>3, EndAsFollowerClient
<1>11. CASE IgnoreVote(n, m)
  <2>1. /\ EndAsFollower(n, m, VoteIn(n, m), FollowerIn(n, m), none, none)
        /\ UNCHANGED <<commit, applied>>
    BY <1>1, <1>11 DEF IgnoreVote
  <2> QED BY <1>1, <1>8, <2>1, EndAsFollowerClient
<1> QED BY <1>5, <1>6, <1>7, <1>9, <1>10, <1>11

-----------------------------------------------------------------------------
(* Leaders.                                                                *)

\* What the progress of leader n says of read sequence numbers is what it said
\* before, or comes from a response.
Learned(n, progress) ==
    \A p \in Peers(n) :
        \/ progress[p].readSeq = role[n].progress[p].readSeq
        \/ \E m \in Confirmations : /\ m.from = p /\ m.term = term[n]
                                    /\ progress[p].readSeq = SeqOf(m)

\* The updates of Progress that are about logs keep the read sequence number.
LEMMA ReadSeqKept ==
    ASSUME NEW l, NEW pr \in Progress, NEW i, NEW probe \in BOOLEAN, NEW send,
           send = MaybeSendAppend(l, pr, probe)
    PROVE  /\ send.progress.readSeq = pr.readSeq
           /\ Advance(pr, i).readSeq = pr.readSeq
           /\ RegressNext(pr, i).readSeq = pr.readSeq
           /\ i \in Nat => AdvanceRead(pr, i).readSeq \in {pr.readSeq, i}
<1>1. send.progress.readSeq = pr.readSeq
  <2>1. \/ send.progress = pr
        \/ \E k : send.progress = [pr EXCEPT !.next = @ + k]
    BY DEF MaybeSendAppend
  <2> QED BY <2>1 DEF Progress
<1> QED BY <1>1 DEF Advance, RegressNext, AdvanceRead, Progress, Max2

\* The reads that maybe_read serves are confirmed, in a state with an entry of the
\* leader's term.
LEMMA ReadyIsConfirmed ==
    ASSUME RaftInv, AssertInv, SequencesAreGiven, NEW n \in Node, IsLeader(n),
           NEW progress \in [Peers(n) -> Progress], Learned(n, progress),
           NEW c, NEW x \in ReadyReads(n, progress, c)
    PROVE  x \in role[n].reads /\ Confirmed(n, x.seq) /\ Has(log[n], c, term[n])
<1>1. PICK f : f = [p \in Node |-> IF p = n THEN role[n].readSeq ELSE progress[p].readSeq]
    OBVIOUS
<1>2. /\ x \in role[n].reads /\ x.seq <= QuorumValue(f) /\ ~(TermAt(log[n], c) < term[n])
    BY <1>1 DEF ReadyReads
<1>3. /\ role[n].readSeq \in Nat /\ term[n] \in Nat /\ term[n] > 0 /\ x.seq \in Nat
      /\ log[n] \in Log /\ Len(log[n]) \in Nat
    BY <1>2, LeaderFields, ClientTypes DEF RaftInv, IsLeader
<1>4. ASSUME NEW p \in Peers(n)
      PROVE  progress[p].readSeq \in Nat /\ progress[p].readSeq <= role[n].readSeq
  <2>1. progress[p].readSeq \in Nat
    BY DEF Progress
  <2>2. progress[p].readSeq <= role[n].readSeq
    <3>1. CASE progress[p].readSeq = role[n].progress[p].readSeq
      BY <3>1 DEF SequencesAreGiven
    <3>2. ASSUME NEW m \in Confirmations, m.term = term[n], progress[p].readSeq = SeqOf(m)
          PROVE  progress[p].readSeq <= role[n].readSeq
      BY <3>2 DEF Confirmations, SeqOf, SequencesAreGiven, AssertInv, ResponsesAreInRange
    <3> QED BY <3>1, <3>2 DEF Learned
  <2> QED BY <2>1, <2>2
<1>5. f \in [Node -> Nat] /\ \A p \in Node : f[p] <= role[n].readSeq
    BY <1>1, <1>3, <1>4 DEF Peers
<1>6. QuorumValue(f) \in Nat /\ IsQuorum({p \in Node : f[p] >= QuorumValue(f)})
    BY <1>3, <1>5, QuorumHasReached
<1>7. PICK q \in Nat : q = QuorumValue(f)
    BY <1>6
<1>8. ASSUME NEW p \in Node, f[p] >= q, p # n PROVE Confirms(p, term[n], x.seq)
  <2>1. p \in Peers(n) /\ f[p] = progress[p].readSeq /\ f[p] \in Nat
    BY <1>1, <1>5, <1>8 DEF Peers
  <2>2. progress[p].readSeq >= x.seq
    BY <1>2, <1>3, <1>7, <1>8, <2>1
  <2> QED BY <1>8, <2>1, <2>2 DEF Learned, Confirms
<1>9. PICK Q \in SUBSET Node : Q = {p \in Node : f[p] >= q}
    OBVIOUS
<1>10. Confirmed(n, x.seq)
    BY <1>6, <1>7, <1>8, <1>9 DEF Confirmed
<1>11. Has(log[n], c, term[n])
  <2>1. c \in 1..Len(log[n]) /\ TermAt(log[n], c) = log[n][c].term
    BY <1>2, <1>3 DEF TermAt
  <2>2. log[n][c].term \in Nat
    BY <1>3, <2>1, EntryTerm
  <2>3. log[n][c].term <= term[n]
    <3>1. PICK y \in LogLinks(log[n]) : y.entry.term = log[n][c].term
      BY <1>3, <2>1, LogLinkFields
    <3> QED BY <3>1 DEF RaftInv, MatchingInv, TermsAreBounded
  <2> QED BY <1>2, <1>3, <2>1, <2>2, <2>3 DEF Has
<1> QED BY <1>2, <1>10, <1>11

\* The read sequence numbers are all that maybe_read looks at in the progress.
LEMMA ReadyReadsSame ==
    ASSUME NEW n \in Node, NEW c, NEW p1 \in [Peers(n) -> Progress], NEW p2 \in [Peers(n) -> Progress],
           \A p \in Peers(n) : p1[p].readSeq = p2[p].readSeq
    PROVE  ReadyReads(n, p1, c) = ReadyReads(n, p2, c)
<1>1. [p \in Node |-> IF p = n THEN role[n].readSeq ELSE p1[p].readSeq]
        = [p \in Node |-> IF p = n THEN role[n].readSeq ELSE p2[p].readSeq]
    BY DEF Peers
<1> QED BY <1>1 DEF ReadyReads

\* Reads that are confirmed may be answered.
LEMMA ServedSpeak ==
    ASSUME TypeInv, ReadsAreFresh, NEW n \in Node, StaysLeader(n),
           NEW served, \A x \in served : x \in role[n].reads /\ Confirmed(n, x.seq),
           NEW a,
           \/ served = {}
           \/ Has(log[n], commit[n], term[n]) /\ a = applied[n]
           \/ Has(log'[n], commit'[n], term'[n]) /\ a = applied'[n]
    PROVE  Speaks(n, ReadReplies(n, served, a))
<1> SUFFICES ASSUME NEW x \in served
             PROVE  Outcome(n, x.id, "ok", StateAt(log[n], a)) /\ Submitted(x.id)
    BY DEF Speaks, ReadReplies, Reply
<1>1. x \in role[n].reads /\ Confirmed(n, x.seq) /\ IsLeader(n) /\ log'[n] = log[n]
    BY DEF StaysLeader
<1>2. Submitted(x.id)
    BY <1>1 DEF ReadsAreFresh
<1>3. ServesRead(n, x.id, StateAt(log[n], a))
    BY <1>1 DEF ServesRead
<1> QED BY <1>2, <1>3 DEF Outcome

\* A leader that receives a message.
LEMMA LeaderClientStep ==
    ASSUME RaftInv, AssertInv, ClientInv, NEW n \in Node, NEW m \in msgs, role[n].kind = "leader",
           NEW progress \in [Peers(n) -> Progress], Learned(n, progress),
           NEW served, served = {} \/ served = ReadyReads(n, progress, commit[n]),
           NEW sent, Mute(sent),
           EndAsLeader(n, m, progress, served, sent) \/ EndWithCommit(n, m, progress, served, sent)
    PROVE  ClientStep(n)
<1>1. IsLeader(n) /\ TypeInv /\ ReadsAreFresh /\ WritesAreLogged /\ SequencesAreGiven
    BY DEF IsLeader, RaftInv, ClientInv
<1>2. /\ n \in DOMAIN role /\ n \in DOMAIN commit /\ n \in DOMAIN applied
      /\ log[n] \in Log /\ Len(log[n]) \in Nat /\ commit[n] \in Nat /\ applied[n] \in Nat
      /\ term[n] \in Nat /\ term[n] > 0
    BY <1>1, LeaderFields DEF TypeInv, TypeOK, IsLeader
<1>3. ASSUME NEW acked, NEW gone, role' = [role EXCEPT ![n] = LeaderAfter(n, progress, acked, gone)],
             UNCHANGED <<term, log>>
      PROVE  StaysLeader(n) /\ KeepsRequests(n)
  <2>1. /\ role'[n].kind = "leader" /\ role'[n].progress = progress
        /\ role'[n].writes \subseteq role[n].writes /\ role'[n].reads \subseteq role[n].reads
    BY <1>2, <1>3 DEF LeaderAfter, Leader
  <2>2. \A p \in Peers(n) : LearnsRead(n, p)
    BY <1>1, <2>1 DEF Learned, LearnsRead
  <2> QED BY <1>1, <1>3, <2>1, <2>2 DEF StaysLeader, KeepsRequests, TakesWrite, TakesRead
<1>4. \A x \in served : /\ x \in role[n].reads /\ Confirmed(n, x.seq)
                        /\ Has(log[n], commit[n], term[n])
    BY <1>1, ReadyIsConfirmed
<1>5. ASSUME NEW R, Speaks(n, R), client' = Answer(client, n, R),
             Send(msgs \ {m}, sent \cup ReplyMsgs(n, term[n], R)),
             KeepsRequests(n), AppliesCommits(n)
      PROVE  ClientStep(n)
  <2>1. PICK replies : replies = ReplyMsgs(n, term[n], R)
    OBVIOUS
  <2>2. \A s \in replies : Says(n, s)
    BY <1>1, <1>5, <2>1, SpeaksFacts
  <2>3. \A s \in sent : Says(n, s)
    BY MuteMsgs
  <2>4. msgs' \subseteq msgs \cup (sent \cup replies)
    BY <1>5, <2>1, SendSubset
  <2>5. \A i \in Request : Changes(n, i)
    BY <1>1, <1>5, SpeaksFacts
  <2> QED BY <1>5, <2>2, <2>3, <2>4, <2>5 DEF ClientStep
<1>6. CASE EndAsLeader(n, m, progress, served, sent)
  <2>1. PICK R : R = ReadReplies(n, served, applied[n])
    OBVIOUS
  <2>2. PICK none : none = {}
    OBVIOUS
  <2>3. /\ role' = [role EXCEPT ![n] = LeaderAfter(n, progress, none, served)]
        /\ Send(msgs \ {m}, sent \cup ReplyMsgs(n, term[n], R))
        /\ client' = Answer(client, n, R)
        /\ UNCHANGED <<term, log, commit, applied>>
    BY <1>6, <2>1, <2>2 DEF EndAsLeader
  <2>4. StaysLeader(n) /\ KeepsRequests(n)
    BY <1>3, <2>3
  <2>5. AppliesCommits(n)
    BY <2>3 DEF AppliesCommits
  <2>6. Speaks(n, R)
    BY <1>1, <1>4, <2>1, <2>4, ServedSpeak
  <2> QED BY <1>5, <2>3, <2>4, <2>5, <2>6
<1>7. CASE EndWithCommit(n, m, progress, served, sent)
  <2>1. PICK c, a, acked, late :
          /\ c = NextCommit(n, progress)
          /\ a = IF c > commit[n] THEN Max2(applied[n], c) ELSE applied[n]
          /\ acked = {w \in role[n].writes : w.index \in applied[n] + 1..a}
          /\ late = IF c > commit[n] /\ TermAt(log[n], commit[n]) # term[n]
                    THEN ReadyReads(n, progress, c) ELSE {}
    OBVIOUS
  <2>2. PICK acks, now, later :
          /\ acks = {Reply(w.from, w.id, "ok", {}) : w \in acked}
          /\ now = ReadReplies(n, served, applied[n]) /\ later = ReadReplies(n, late, a)
    OBVIOUS
  <2>3. /\ commit' = [commit EXCEPT ![n] = c] /\ applied' = [applied EXCEPT ![n] = a]
        /\ role' = [role EXCEPT ![n] = LeaderAfter(n, progress, acked, served \cup late)]
        /\ Send(msgs \ {m}, sent \cup ReplyMsgs(n, term[n], acks \cup now \cup later))
        /\ client' = Answer(client, n, acks \cup now \cup later)
        /\ UNCHANGED <<term, log>>
    BY <1>7, <2>1, <2>2 DEF EndWithCommit
  <2>4. StaysLeader(n) /\ KeepsRequests(n)
    BY <1>3, <2>3
  <2>5. c \in Nat /\ commit'[n] = c /\ applied'[n] = a
    BY <1>1, <1>2, <2>1, <2>3, NextCommitType
  <2>6. /\ c > commit[n] => Has(log[n], c, term[n]) /\ a = Max2(applied[n], c)
        /\ ~(c > commit[n]) => c = commit[n] /\ a = applied[n]
    <3>1. PICK q : c = IF q > commit[n] /\ TermAt(log[n], q) = term[n] THEN q ELSE commit[n]
      BY <2>1 DEF NextCommit
    <3>2. CASE q > commit[n] /\ TermAt(log[n], q) = term[n]
      <4>1. c = q /\ c > commit[n] /\ TermAt(log[n], c) = term[n]
        BY <3>1, <3>2
      <4>2. Has(log[n], c, term[n])
        BY <1>2, <4>1 DEF TermAt, Has
      <4> QED BY <2>1, <4>1, <4>2
    <3>3. CASE ~(q > commit[n] /\ TermAt(log[n], q) = term[n])
      BY <1>2, <2>1, <3>1, <3>3
    <3> QED BY <3>2, <3>3
  <2>7. AppliesCommits(n)
    BY <1>2, <2>4, <2>5, <2>6 DEF AppliesCommits, Max2
  <2>8. Speaks(n, acks)
    <3>1. SUFFICES ASSUME NEW w \in acked PROVE Outcome(n, w.id, "ok", {}) /\ Submitted(w.id)
      <4>1. \A r \in acks : \E w \in acked : r = Reply(w.from, w.id, "ok", {})
        BY <2>2
      <4>2. \A w \in acked : LET r == Reply(w.from, w.id, "ok", {})
                             IN  r.id = w.id /\ r.status = "ok" /\ r.value = {}
        BY DEF Reply
      <4> QED BY <4>1, <4>2 DEF Speaks
    <3>2. w \in role[n].writes /\ w.index \in applied[n] + 1..a
      BY <2>1, <3>1
    <3>3. a \in Nat
      BY <1>2, <2>5, <2>6 DEF Max2
    <3>4. c > commit[n] /\ a = c
      BY <1>2, <2>5, <2>6, <3>2, <3>3 DEF Max2
    <3>5. w.index \in 1..commit'[n] /\ Has(log[n], commit'[n], term[n])
      BY <1>2, <2>5, <2>6, <3>2, <3>4
    <3>6. AcksWrite(n, w.id)
      BY <2>4, <3>2, <3>5 DEF AcksWrite
    <3> QED BY <1>1, <3>2, <3>6 DEF Outcome, WritesAreLogged
  <2>9. Speaks(n, now)
    BY <1>1, <1>4, <2>2, <2>4, ServedSpeak
  <2>10. Speaks(n, later)
    <3>1. \A x \in late : x \in role[n].reads /\ Confirmed(n, x.seq)
      BY <1>1, <2>1, ReadyIsConfirmed
    <3>2. late = {} \/ Has(log'[n], commit'[n], term'[n])
      BY <2>1, <2>4, <2>5, <2>6 DEF StaysLeader
    <3> QED BY <1>1, <2>2, <2>4, <2>5, <3>1, <3>2, ServedSpeak
  <2>11. PICK R : R = acks \cup now \cup later
    OBVIOUS
  <2>12. Speaks(n, R)
    BY <2>8, <2>9, <2>10, <2>11 DEF Speaks
  <2> QED BY <1>5, <2>3, <2>4, <2>7, <2>11, <2>12
<1> QED BY <1>6, <1>7

\* Leaders.
LEMMA LeaderClientSteps ==
    ASSUME RaftInv, AssertInv, ClientInv, NEW n \in Node, NEW m \in msgs,
           \/ HandleHeartbeatResponse(n, m) \/ HandleAppendResponse(n, m)
           \/ HandleAppendReject(n, m) \/ HandleReadResponse(n, m)
    PROVE  ClientStep(n)
<1> DEFINE l == log[n]
           t == term[n]
           p == m.from
           old == role[n].progress
<1>1. role[n].kind = "leader" /\ m.term = t /\ p \in Peers(n) /\ m.body \in Body /\ TypeInv
    BY DEF HandleHeartbeatResponse, HandleAppendResponse, HandleAppendReject,
           HandleReadResponse, StepsAsLeader, RaftInv, TypeInv, TypeOK, Envelope, Peers
<1>2. /\ old \in [Peers(n) -> Progress] /\ old[p] \in Progress
      /\ l \in Log /\ Len(l) \in Nat
    BY <1>1, LeaderFields
<1>3. ASSUME NEW progress \in [Peers(n) -> Progress], Learned(n, progress),
             NEW served, served = {} \/ served = ReadyReads(n, progress, commit[n]),
             NEW sent, Mute(sent),
             \/ EndAsLeader(n, m, progress, served, sent)
             \/ EndWithCommit(n, m, progress, served, sent)
      PROVE  ClientStep(n)
    BY <1>1, <1>3, LeaderClientStep
<1>4. PICK none : none = {} /\ Mute(none)
  <2> WITNESS {}
  <2> QED BY DEF Mute
<1>5. ASSUME NEW pr, NEW new, new = [old EXCEPT ![p] = pr], pr \in Progress,
             \/ pr.readSeq = old[p].readSeq
             \/ \E k \in Confirmations : k.from = p /\ k.term = t /\ pr.readSeq = SeqOf(k)
      PROVE  new \in [Peers(n) -> Progress] /\ Learned(n, new)
  <2>1. new \in [Peers(n) -> Progress]
    BY <1>1, <1>2, <1>5
  <2>2. new[p] = pr /\ \A q \in Peers(n) : q # p => new[q] = old[q]
    BY <1>1, <1>2, <1>5
  <2> QED BY <1>5, <2>1, <2>2 DEF Learned
<1>0. ASSUME NEW pr \in Progress, NEW probe \in BOOLEAN, NEW send,
             send = MaybeSendAppend(l, pr, probe),
             NEW sent, sent = {Env(n, p, t, b) : b \in send.bodies}
      PROVE  Mute(sent)
  <2>1. \A b \in send.bodies : b.type = "Append"
    BY <1>0, MaybeSendAppendKeeps
  <2> QED BY <1>0, <2>1 DEF Mute, Env
<1>6. CASE HandleHeartbeatResponse(n, m)
  <2>1. PICK a : a = AdvanceRead(old[p], m.body.readSeq)
    OBVIOUS
  <2>2. PICK read : read = [old EXCEPT ![p] = a]
    OBVIOUS
  <2>3. m.body.readSeq \in Nat /\ m.body.matchIndex \in Nat /\ a \in Progress /\ read[p] = a
    BY <1>1, <1>2, <1>6, <2>1, <2>2, BodyFields, ProgressType DEF HandleHeartbeatResponse
  <2>4. m \in Confirmations /\ SeqOf(m) = m.body.readSeq
    BY <1>6 DEF HandleHeartbeatResponse, Confirmations, SeqOf
  <2>5. \/ a.readSeq = old[p].readSeq
        \/ \E k \in Confirmations : k.from = p /\ k.term = t /\ a.readSeq = SeqOf(k)
    <3>1. PICK probe \in BOOLEAN, i \in Nat : probe = TRUE /\ i = m.body.readSeq
      BY <2>3
    <3>2. PICK send : send = MaybeSendAppend(l, old[p], probe)
      OBVIOUS
    <3>3. a.readSeq \in {old[p].readSeq, i}
      BY <1>2, <2>1, <3>1, <3>2, ReadSeqKept
    <3> QED BY <1>1, <2>4, <3>1, <3>3
  <2>6. read \in [Peers(n) -> Progress] /\ Learned(n, read)
    BY <1>5, <2>2, <2>3, <2>5
  <2>7. PICK probe \in BOOLEAN : probe = TRUE
    OBVIOUS
  <2>8. PICK back \in Progress : back = RegressNext(a, Len(l))
    BY <1>2, <2>3, ProgressType
  <2>9. PICK send : send = MaybeSendAppend(l, back, probe)
    OBVIOUS
  <2>10. PICK adv \in Progress : adv = Advance(a, m.body.matchIndex)
    BY <2>3, ProgressType
  <2>11. send.progress \in Progress
    BY <1>2, <2>9, MaybeSendAppendType
  <2>12. send.progress.readSeq = a.readSeq /\ adv.readSeq = a.readSeq
    <3>1. PICK other : other = MaybeSendAppend(l, a, probe)
      OBVIOUS
    <3>2. back.readSeq = a.readSeq /\ adv.readSeq = a.readSeq
      BY <2>3, <2>8, <2>10, <3>1, ReadSeqKept
    <3>3. send.progress.readSeq = back.readSeq
      BY <2>9, ReadSeqKept
    <3> QED BY <3>2, <3>3
  <2>13. PICK served, sent :
          /\ served = IF read # old THEN ReadyReads(n, read, commit[n]) ELSE {}
          /\ sent = {Env(n, p, t, b) : b \in send.bodies}
    OBVIOUS
  <2>14. PICK r1, r2 : r1 = [read EXCEPT ![p] = send.progress] /\ r2 = [read EXCEPT ![p] = adv]
    OBVIOUS
  <2>15. r1 = [old EXCEPT ![p] = send.progress] /\ r2 = [old EXCEPT ![p] = adv]
    BY <1>1, <1>2, <2>2, <2>14
  <2>16. /\ r1 \in [Peers(n) -> Progress] /\ Learned(n, r1)
         /\ r2 \in [Peers(n) -> Progress] /\ Learned(n, r2)
    BY <1>5, <2>5, <2>11, <2>12, <2>15
  <2>17. \A q \in Peers(n) : r1[q].readSeq = read[q].readSeq /\ r2[q].readSeq = read[q].readSeq
    BY <1>1, <2>3, <2>6, <2>12, <2>14
  <2>18. /\ ReadyReads(n, r1, commit[n]) = ReadyReads(n, read, commit[n])
         /\ ReadyReads(n, r2, commit[n]) = ReadyReads(n, read, commit[n])
    BY <2>6, <2>16, <2>17, ReadyReadsSame
  <2>19. Mute(sent)
    BY <1>0, <2>9, <2>13
  <2>20. \/ EndAsLeader(n, m, r1, served, sent)
         \/ EndAsLeader(n, m, read, served, none)
         \/ EndWithCommit(n, m, r2, served, none)
    BY <1>4, <1>6, <2>1, <2>2, <2>3, <2>7, <2>8, <2>9, <2>10, <2>13, <2>14
    DEF HandleHeartbeatResponse
  <2> QED BY <1>3, <1>4, <2>6, <2>13, <2>16, <2>18, <2>19, <2>20
<1>7. CASE HandleAppendResponse(n, m)
  <2>1. m.body.matchIndex \in Nat
    BY <1>1, <1>7, BodyFields DEF HandleAppendResponse
  <2>2. PICK adv \in Progress : adv = Advance(old[p], m.body.matchIndex)
    BY <1>2, <2>1, ProgressType
  <2>3. PICK probe \in BOOLEAN : probe = FALSE
    OBVIOUS
  <2>4. PICK send : send = MaybeSendAppend(l, adv, probe)
    OBVIOUS
  <2>5. send.progress \in Progress
    BY <1>2, <2>4, MaybeSendAppendType
  <2>6. send.progress.readSeq = old[p].readSeq
    <3>1. PICK other : other = MaybeSendAppend(l, old[p], probe)
      OBVIOUS
    <3>2. adv.readSeq = old[p].readSeq
      BY <1>2, <2>2, <3>1, ReadSeqKept
    <3>3. send.progress.readSeq = adv.readSeq
      BY <2>4, ReadSeqKept
    <3> QED BY <3>2, <3>3
  <2>7. PICK new, sent : /\ new = [old EXCEPT ![p] = send.progress]
                         /\ sent = {Env(n, p, t, b) : b \in send.bodies}
    OBVIOUS
  <2>8. new \in [Peers(n) -> Progress] /\ Learned(n, new)
    BY <1>5, <2>5, <2>6, <2>7
  <2>8a. Mute(sent)
    BY <1>0, <2>4, <2>7
  <2>9. EndWithCommit(n, m, new, none, sent) \/ EndAsLeader(n, m, new, none, sent)
    BY <1>4, <1>7, <2>2, <2>3, <2>4, <2>7 DEF HandleAppendResponse
  <2> QED BY <1>3, <1>4, <2>8, <2>8a, <2>9
<1>8. CASE HandleAppendReject(n, m)
  <2>1. m.body.rejectIndex \in Nat
    BY <1>1, <1>8, BodyFields DEF HandleAppendReject
  <2>2. PICK back \in Progress : back = RegressNext(old[p], m.body.rejectIndex)
    BY <1>2, <2>1, ProgressType
  <2>3. PICK probe \in BOOLEAN : probe = TRUE
    OBVIOUS
  <2>4. PICK send : send = MaybeSendAppend(l, back, probe)
    OBVIOUS
  <2>5. send.progress \in Progress
    BY <1>2, <2>4, MaybeSendAppendType
  <2>6. send.progress.readSeq = old[p].readSeq
    <3>1. PICK other : other = MaybeSendAppend(l, old[p], probe)
      OBVIOUS
    <3>2. back.readSeq = old[p].readSeq
      BY <1>2, <2>2, <3>1, ReadSeqKept
    <3>3. send.progress.readSeq = back.readSeq
      BY <2>4, ReadSeqKept
    <3> QED BY <3>2, <3>3
  <2>7. PICK new, sent : /\ new = [old EXCEPT ![p] = send.progress]
                         /\ sent = {Env(n, p, t, b) : b \in send.bodies}
    OBVIOUS
  <2>8. new \in [Peers(n) -> Progress] /\ Learned(n, new)
    BY <1>5, <2>5, <2>6, <2>7
  <2>8a. Mute(sent)
    BY <1>0, <2>4, <2>7
  <2>9. EndAsLeader(n, m, new, none, sent)
    BY <1>4, <1>8, <2>2, <2>3, <2>4, <2>7 DEF HandleAppendReject
  <2> QED BY <1>3, <1>4, <2>8, <2>8a, <2>9
<1>9. CASE HandleReadResponse(n, m)
  <2>1. PICK i \in Nat : i = m.body.seq
    BY <1>1, <1>9, BodyFields DEF HandleReadResponse
  <2>2. PICK a \in Progress : a = AdvanceRead(old[p], i)
    BY <1>2, ProgressType
  <2>3. PICK new : new = [old EXCEPT ![p] = a]
    OBVIOUS
  <2>4. PICK served : served = IF new # old THEN ReadyReads(n, new, commit[n]) ELSE {}
    OBVIOUS
  <2>5. m \in Confirmations /\ SeqOf(m) = i
    BY <1>9, <2>1 DEF HandleReadResponse, Confirmations, SeqOf
  <2>6. \/ a.readSeq = old[p].readSeq
        \/ \E k \in Confirmations : k.from = p /\ k.term = t /\ a.readSeq = SeqOf(k)
    <3>1. PICK probe \in BOOLEAN : probe = TRUE
      OBVIOUS
    <3>2. PICK send : send = MaybeSendAppend(l, old[p], probe)
      OBVIOUS
    <3>3. a.readSeq \in {old[p].readSeq, i}
      BY <1>2, <2>2, <3>1, <3>2, ReadSeqKept
    <3> QED BY <1>1, <2>5, <3>3
  <2>7. new \in [Peers(n) -> Progress] /\ Learned(n, new)
    BY <1>5, <2>3, <2>6
  <2>8. EndAsLeader(n, m, new, served, none)
    BY <1>4, <1>9, <2>1, <2>2, <2>3, <2>4 DEF HandleReadResponse
  <2> QED BY <1>3, <1>4, <2>4, <2>7, <2>8
<1> QED BY <1>6, <1>7, <1>8, <1>9

-----------------------------------------------------------------------------
(* Elections, requests and failures.                                       *)

\* A node that keeps its role and its log keeps what it has to answer.
LEMMA SameRequests ==
    ASSUME NEW n \in Node, UNCHANGED <<role, log>>
    PROVE  KeepsRequests(n)
BY DEF KeepsRequests, TakesWrite, TakesRead, LearnsRead, IsLeader

\* A step that tells clients nothing.
LEMMA QuietClientStep ==
    ASSUME NEW n \in Node, UNCHANGED client, KeepsRequests(n), AppliesCommits(n),
           NEW sent, Mute(sent), msgs' \subseteq msgs \cup sent
    PROVE  ClientStep(n)
<1>1. \A s \in sent : Says(n, s)
    BY DEF Mute, Says
<1>2. \A i \in Request : Changes(n, i)
    BY DEF Changes
<1> QED BY <1>1, <1>2 DEF ClientStep

\* A proposal tells nothing of reads.
LEMMA ProposeReadSeq ==
    ASSUME NEW n, NEW l, NEW progress \in [Peers(n) -> Progress], NEW p \in Peers(n)
    PROVE  Propose(l, progress)[p].progress.readSeq = progress[p].readSeq
<1>1. progress[p] \in Progress
    OBVIOUS
<1>2. PICK probe \in BOOLEAN : probe = FALSE
    OBVIOUS
<1>3. PICK send : send = MaybeSendAppend(l, progress[p], probe)
    OBVIOUS
<1>4. send.progress.readSeq = progress[p].readSeq
    BY <1>1, <1>3, ReadSeqKept
<1>5. \/ Propose(l, progress)[p] = send
      \/ Propose(l, progress)[p] = [progress |-> progress[p], bodies |-> {}]
    BY <1>2, <1>3 DEF Propose
<1> QED BY <1>4, <1>5

\* A node that campaigns.
LEMMA CampaignClient ==
    ASSUME TypeInv, NEW n \in Node, NEW R, Speaks(n, R),
           Campaign(n, R), AppliesCommits(n)
    PROVE  ClientStep(n)
<1>1. KeepsRequests(n)
  <2>1. role'[n] = Candidate({n})
    BY DEF Campaign, TypeInv, TypeOK
  <2> QED BY <2>1 DEF KeepsRequests, Candidate
<1>2. PICK body, sent : /\ sent = Broadcast(n, term[n] + 1, body) /\ Send(msgs, sent)
                        /\ body.type = "Campaign"
  <2> WITNESS [type |-> "Campaign", lastIndex |-> Len(log[n]), lastTerm |-> LastTerm(log[n])],
              Broadcast(n, term[n] + 1,
                  [type |-> "Campaign", lastIndex |-> Len(log[n]), lastTerm |-> LastTerm(log[n])])
  <2> QED BY DEF Campaign
<1>3. \A s \in sent : Says(n, s)
    BY <1>2 DEF Broadcast, Env, Says
<1>4. msgs' \subseteq msgs \cup sent
    BY <1>2, SendSubset
<1>5. \A i \in Request : Changes(n, i)
    BY SpeaksFacts DEF Campaign
<1> QED BY <1>1, <1>3, <1>4, <1>5 DEF ClientStep

\* Elections.
LEMMA ElectionClientSteps ==
    ASSUME TypeInv, ClientInv, NEW n \in Node,
           \/ FollowerTimeout(n) \/ CandidateTimeout(n) \/ HeartbeatTick(n)
           \/ \E m \in msgs : \/ RefuseVote(n, m) \/ RecordVote(n, m)
                              \/ BecomeLeader(n, m) \/ Ignore(n, m)
    PROVE  ClientStep(n)
<1>1. PICK none : none = {} /\ Mute(none) /\ Speaks(n, none)
  <2> WITNESS {}
  <2> QED BY DEF Mute, Speaks
<1>2. n \in DOMAIN role /\ n \in DOMAIN log /\ commit[n] \in Nat /\ applied[n] \in Nat /\ n \in DOMAIN applied
    BY DEF TypeInv, TypeOK
<1>3. UNCHANGED <<commit, applied>> => AppliesCommits(n)
    BY DEF AppliesCommits
<1>4. CASE FollowerTimeout(n)
  <2>1. commit'[n] = commit[n] /\ applied'[n] = Max2(applied[n], commit[n])
    BY <1>2, <1>4 DEF FollowerTimeout, Campaign
  <2>2. role'[n] = Candidate({n})
    BY <1>2, <1>4 DEF FollowerTimeout, Campaign
  <2>3. AppliesCommits(n)
    BY <1>2, <2>1, <2>2 DEF AppliesCommits, Candidate, Max2
  <2>4. PICK R : R = Aborted(n)
    OBVIOUS
  <2>5. Speaks(n, R) /\ Campaign(n, R)
    BY <1>4, <2>4, AbortsSpeak DEF FollowerTimeout
  <2> QED BY <2>3, <2>5, CampaignClient
<1>5. CASE CandidateTimeout(n)
  <2>1. Campaign(n, none) /\ UNCHANGED <<commit, applied>>
    BY <1>1, <1>5 DEF CandidateTimeout, Campaign
  <2> QED BY <1>1, <1>3, <2>1, CampaignClient
<1>6. CASE HeartbeatTick(n)
  <2>1. PICK body, sent : /\ sent = Broadcast(n, term[n], body) /\ Send(msgs, sent)
                          /\ body.type = "Heartbeat"
    <3> WITNESS HeartbeatBody(log[n], commit[n], role[n].readSeq),
                Broadcast(n, term[n], HeartbeatBody(log[n], commit[n], role[n].readSeq))
    <3> QED BY <1>6 DEF HeartbeatTick, HeartbeatBody
  <2>2. Mute(sent)
    BY <2>1 DEF Broadcast, Env, Mute
  <2>3. msgs' \subseteq msgs \cup sent
    BY <2>1, SendSubset
  <2> QED BY <1>3, <1>6, <2>2, <2>3, SameRequests, QuietClientStep DEF HeartbeatTick
<1>7. ASSUME NEW m \in msgs, RefuseVote(n, m) PROVE ClientStep(n)
  <2>1. PICK sent : /\ Send(msgs \ {m}, sent)
                    /\ sent = {Env(n, m.from, m.term, [type |-> "CampaignResponse",
                                                       vote |-> FALSE])}
    BY <1>7 DEF RefuseVote
  <2>2. Mute(sent)
    BY <2>1 DEF Env, Mute
  <2>3. msgs' \subseteq msgs \cup sent
    BY <2>1, SendSubset
  <2> QED BY <1>3, <1>7, <2>2, <2>3, SameRequests, QuietClientStep DEF RefuseVote
<1>8. ASSUME NEW m \in msgs, Ignore(n, m) PROVE ClientStep(n)
  <2>1. msgs' \subseteq msgs \cup none
    BY <1>1, <1>8, SendSubset DEF Ignore
  <2> QED BY <1>1, <1>3, <1>8, <2>1, SameRequests, QuietClientStep DEF Ignore
<1>9. ASSUME NEW m \in msgs, RecordVote(n, m) PROVE ClientStep(n)
  <2>1. msgs' \subseteq msgs \cup none
    BY <1>1, <1>9, SendSubset DEF RecordVote
  <2>2. KeepsRequests(n)
    BY <1>2, <1>9 DEF RecordVote, KeepsRequests, Candidate
  <2> QED BY <1>1, <1>3, <1>9, <2>1, <2>2, QuietClientStep DEF RecordVote
<1>10. ASSUME NEW m \in msgs, BecomeLeader(n, m) PROVE ClientStep(n)
  <2>1. PICK l, new, body :
          /\ l = Append(log[n], [term |-> term[n], command |-> Noop])
          /\ new = [p \in Peers(n) |-> [match |-> 0, next |-> Len(log[n]) + 1, readSeq |-> 0]]
          /\ body = HeartbeatBody(l, commit[n], 0)
    OBVIOUS
  <2>2. PICK proposals, beats : /\ proposals = ProposalMsgs(n, term[n], Propose(l, new))
                                /\ beats = Broadcast(n, term[n], body)
    OBVIOUS
  <2>3. /\ role' = [role EXCEPT ![n] =
                       Leader([p \in Peers(n) |-> Propose(l, new)[p].progress], {}, {}, 0)]
        /\ Send(msgs \ {m}, proposals \cup beats)
        /\ UNCHANGED <<commit, applied, client>>
    BY <1>10, <2>1, <2>2 DEF BecomeLeader
  <2>4. new \in [Peers(n) -> Progress] /\ \A p \in Peers(n) : new[p].readSeq = 0
    <3>1. Len(log[n]) \in Nat
      BY LenProperties DEF TypeInv, TypeOK, Log
    <3> QED BY <2>1, <3>1 DEF Progress
  <2>5. \A p \in Peers(n) : LearnsRead(n, p)
    <3>1. SUFFICES ASSUME NEW p \in Peers(n) PROVE LearnsRead(n, p)
      OBVIOUS
    <3>2. Propose(l, new)[p].progress.readSeq = 0
      BY <2>4, ProposeReadSeq
    <3> QED BY <1>2, <2>3, <3>2 DEF LearnsRead, Leader
  <2>6. KeepsRequests(n)
    BY <1>2, <2>3, <2>5 DEF KeepsRequests, Leader
  <2>7. Mute(proposals)
    BY <2>2, MuteMsgs
  <2>8. Mute(beats)
    BY <2>1, <2>2 DEF HeartbeatBody, Broadcast, Env, Mute
  <2>9. PICK sent : sent = proposals \cup beats
    OBVIOUS
  <2>10. Mute(sent) /\ msgs' \subseteq msgs \cup sent
    BY <2>3, <2>7, <2>8, <2>9, SendSubset DEF Mute
  <2> QED BY <1>3, <2>3, <2>6, <2>10, QuietClientStep
<1> QED BY <1>4, <1>5, <1>6, <1>7, <1>8, <1>9, <1>10

\* A request that is stepped: cl is what clients know then.
Asks(n, from, id, cl) ==
    /\ cl \in [Request -> ClientView] /\ cl[id].status # "idle"
    /\ \A i \in Request : i # id => cl[i] = client[i]
    /\ \/ cl[id] = client[id]
       \/ /\ client[id].status = "idle" /\ cl[id].status = "pending"
          /\ cl[id].seen = Known /\ cl[id].value = {}
    /\ from # n => Submitted(id)

LEMMA RequestClientStep ==
    ASSUME TypeInv, ClientInv, NEW n \in Node, NEW from \in Node, NEW id \in Request, NEW cl,
           Asks(n, from, id, cl), NEW rest \in SUBSET msgs, StepRequest(n, from, id, cl, rest)
    PROVE  ClientStep(n)
<1>1. AppliesCommits(n) /\ n \in DOMAIN role /\ n \in DOMAIN log /\ n \in DOMAIN term
    BY DEF StepRequest, AppliesCommits, TypeInv, TypeOK
<1>2. ASSUME client' = cl PROVE \A i \in Request : Changes(n, i)
    BY <1>2 DEF Asks, Changes
<1>3. ASSUME NEW status, status = "abort" \/ (status = "ok" /\ id \in Status),
             Send(rest, ReplyMsgs(n, term[n], {Reply(from, id, status, {})})),
             client' = Answer(cl, n, {Reply(from, id, status, {})}), UNCHANGED <<log, role>>
      PROVE  ClientStep(n)
  <2>1. PICK R : R = {Reply(from, id, status, {})}
    OBVIOUS
  <2>2. client' = Answer(cl, n, R) /\ Send(rest, ReplyMsgs(n, term[n], R))
    BY <1>3, <2>1
  <2>3. Outcome(n, id, status, {})
    BY <1>3 DEF Outcome
  <2>4. \A r \in R : r.to = from /\ r.id = id /\ r.status = status /\ r.value = {}
    BY <2>1 DEF Reply
  <2>5. \A i \in Request : Changes(n, i)
    <3>1. SUFFICES ASSUME NEW i \in Request PROVE Changes(n, i)
      OBVIOUS
    <3>2. cl \in [Request -> ClientView]
      BY DEF Asks
    <3>3. \/ client'[i] = cl[i]
          \/ /\ i = id /\ client'[i].status = status /\ client'[i].value = {}
             /\ client'[i].seen = cl[i].seen
      <4>1. \/ Answer(cl, n, R)[i] = cl[i]
            \/ \E r \in R : /\ r.to = n /\ r.id = i
                            /\ Answer(cl, n, R)[i].status = r.status
                            /\ Answer(cl, n, R)[i].value = r.value
                            /\ Answer(cl, n, R)[i].seen = cl[i].seen
        BY <3>2, AnswerCases
      <4> QED BY <2>2, <2>4, <4>1
    <3>4. CASE client'[i] = cl[i]
      BY <3>4 DEF Asks, Changes
    <3>5. CASE /\ i = id /\ client'[i].status = status /\ client'[i].value = {}
               /\ client'[i].seen = cl[i].seen
      BY <1>3, <2>3, <3>5 DEF Asks, Changes
    <3> QED BY <3>3, <3>4, <3>5
  <2>6. Speaks(n, R)
    BY <2>3, <2>4 DEF Speaks, Asks
  <2>7. PICK sent : sent = ReplyMsgs(n, term[n], R)
    OBVIOUS
  <2>8. \A s \in sent : Says(n, s)
    BY <2>6, <2>7, SpeaksFacts
  <2>9. msgs' \subseteq msgs \cup sent
    BY <2>2, <2>7, SendSubset
  <2>10. KeepsRequests(n)
    BY <1>3, SameRequests
  <2> QED BY <1>1, <2>5, <2>8, <2>9, <2>10 DEF ClientStep
<1>4. CASE AbortRequest(n, from, id, cl, rest)
  <2>1. PICK status : status = "abort"
    OBVIOUS
  <2> QED BY <1>3, <1>4, <2>1 DEF AbortRequest
<1>5. CASE ServeStatus(n, from, id, cl, rest)
  <2>1. PICK status : status = "ok"
    OBVIOUS
  <2> QED BY <1>3, <1>5, <2>1 DEF ServeStatus
<1>6. CASE ForwardRequest(n, from, id, cl, rest)
  <2>1. PICK sent : /\ Send(rest, sent)
                    /\ sent = {Env(n, role[n].leader, term[n],
                                   [type |-> "ClientRequest", id |-> id])}
    BY <1>6 DEF ForwardRequest
  <2>2. \A s \in sent : Says(n, s)
    BY <1>6, <2>1 DEF Env, Says, Asks, ForwardRequest
  <2>3. msgs' \subseteq msgs \cup sent
    BY <2>1, SendSubset
  <2>4. KeepsRequests(n)
    BY <1>1, <1>6 DEF ForwardRequest, KeepsRequests, Follower
  <2>5. \A i \in Request : Changes(n, i)
    BY <1>2, <1>6 DEF ForwardRequest
  <2> QED BY <1>1, <2>2, <2>3, <2>4, <2>5 DEF ClientStep
<1>7. CASE ProposeWrite(n, from, id, cl, rest)
  <2>1. PICK e, l, old : /\ e = [term |-> term[n], command |-> id]
                         /\ l = Append(log[n], e) /\ old = role[n].progress
    OBVIOUS
  <2>2. PICK sent, x : /\ sent = ProposalMsgs(n, term[n], Propose(l, old))
                       /\ x = [index |-> Len(l), from |-> from, id |-> id]
    OBVIOUS
  <2>3. /\ IsLeader(n) /\ log' = [log EXCEPT ![n] = l]
        /\ role' = [role EXCEPT ![n] = Leader([p \in Peers(n) |-> Propose(l, old)[p].progress],
                        role[n].writes \cup {x}, role[n].reads, role[n].readSeq)]
        /\ Send(rest, sent) /\ client' = cl
    BY <1>7, <2>1, <2>2 DEF ProposeWrite, IsLeader
  <2>4. old \in [Peers(n) -> Progress] /\ log[n] \in Log
    BY <2>1, <2>3, LeaderFields DEF IsLeader
  <2>5. Len(l) \in Nat /\ Len(l) \in 1..Len(l) /\ l[Len(l)] = e
    <3>1. log[n] \in Seq(Entry \cup {e}) /\ Len(log[n]) \in Nat
      BY <2>4 DEF Log
    <3>2. Len(l) = Len(log[n]) + 1 /\ l[Len(log[n]) + 1] = e
      BY <2>1, <3>1, AppendProperties
    <3> QED BY <3>1, <3>2
  <2>6. TakesWrite(n, x)
    BY <1>1, <2>1, <2>2, <2>3, <2>5 DEF TakesWrite, Asks
  <2>7. \A p \in Peers(n) : LearnsRead(n, p)
    <3>1. SUFFICES ASSUME NEW p \in Peers(n) PROVE LearnsRead(n, p)
      OBVIOUS
    <3>2. Propose(l, old)[p].progress.readSeq = old[p].readSeq
      BY <2>4, ProposeReadSeq
    <3> QED BY <1>1, <2>1, <2>3, <3>2 DEF LearnsRead, Leader
  <2>8. KeepsRequests(n)
    BY <1>1, <2>3, <2>6, <2>7 DEF KeepsRequests, Leader, TakesWrite, TakesRead
  <2>9. Mute(sent)
    BY <2>2, MuteMsgs
  <2>10. \A s \in sent : Says(n, s)
    BY <2>9 DEF Mute, Says
  <2>11. msgs' \subseteq msgs \cup sent
    BY <2>3, SendSubset
  <2> QED BY <1>1, <1>2, <2>3, <2>8, <2>10, <2>11 DEF ClientStep
<1>8. CASE QueueRead(n, from, id, cl, rest)
  <2>1. PICK seq, sent, x : /\ seq = role[n].readSeq + 1
                            /\ sent = Broadcast(n, term[n], [type |-> "Read", seq |-> seq])
                            /\ x = [seq |-> seq, from |-> from, id |-> id]
    OBVIOUS
  <2>2. /\ IsLeader(n) /\ client' = cl /\ Send(rest, sent)
        /\ role' = [role EXCEPT ![n] = Leader(role[n].progress, role[n].writes,
                                              role[n].reads \cup {x}, seq)]
    BY <1>8, <2>1 DEF QueueRead, IsLeader
  <2>3. role[n].readSeq \in Nat
    BY <2>2, LeaderFields DEF IsLeader
  <2>4. role'[n].readSeq = seq /\ TakesRead(n, x)
    BY <1>1, <2>1, <2>2 DEF TakesRead, Asks, Leader
  <2>5. \A p \in Peers(n) : LearnsRead(n, p)
    BY <1>1, <2>2 DEF LearnsRead, Leader
  <2>6. KeepsRequests(n)
    BY <1>1, <2>2, <2>4, <2>5 DEF KeepsRequests, Leader, TakesWrite, TakesRead
  <2>7. \A s \in sent : Says(n, s)
    BY <2>1, <2>3, <2>4 DEF Broadcast, Env, Says
  <2>8. msgs' \subseteq msgs \cup sent
    BY <2>2, SendSubset
  <2> QED BY <1>1, <1>2, <2>2, <2>6, <2>7, <2>8 DEF ClientStep
<1> QED BY <1>4, <1>5, <1>6, <1>7, <1>8 DEF StepRequest

\* Restarts, requests and failed assertions.
LEMMA OtherClientSteps ==
    ASSUME TypeInv, ClientInv, NEW n \in Node,
           \/ Restart(n) \/ \E id \in Request : SubmitRequest(n, id)
           \/ \E m \in msgs : HandleClientRequest(n, m) \/ Panic(n, m)
    PROVE  ClientStep(n)
<1>1. PICK none : none = {} /\ Mute(none)
  <2> WITNESS {}
  <2> QED BY DEF Mute
<1>2. n \in DOMAIN role /\ n \in DOMAIN commit /\ n \in DOMAIN applied
    BY DEF TypeInv, TypeOK
<1>3. CASE Restart(n)
  <2>1. PICK c \in 0..commit[n], a \in 0..applied[n] :
          commit' = [commit EXCEPT ![n] = c] /\ applied' = [applied EXCEPT ![n] = Max2(a, c)]
    BY <1>3 DEF Restart
  <2>2. /\ role'[n].kind = "follower" /\ commit'[n] = c /\ applied'[n] = Max2(a, c)
        /\ UNCHANGED <<client, msgs>>
    BY <1>2, <1>3, <2>1 DEF Restart, Follower
  <2>3. commit[n] \in Nat /\ applied[n] \in Nat
    BY DEF TypeInv, TypeOK
  <2>4. KeepsRequests(n) /\ AppliesCommits(n)
    BY <2>1, <2>2, <2>3 DEF KeepsRequests, AppliesCommits, Max2
  <2> QED BY <1>1, <2>2, <2>4, QuietClientStep
<1>4. ASSUME NEW id \in Request, SubmitRequest(n, id) PROVE ClientStep(n)
  <2>1. PICK new : new = [status |-> "pending", seen |-> Known, value |-> {}]
    OBVIOUS
  <2>2. PICK cl : cl = [client EXCEPT ![id] = new]
    OBVIOUS
  <2>3. client[id].status = "idle" /\ StepRequest(n, n, id, cl, msgs)
    BY <1>4, <2>1, <2>2 DEF SubmitRequest
  <2>4. client \in [Request -> ClientView]
    BY DEF TypeInv, TypeOK
  <2>5. new \in ClientView
    <3>1. Known \in SUBSET Write
      <4>1. \A r \in Read : client[r].value \in SUBSET Write
        BY <2>4 DEF ClientView, Request
      <4> QED BY <4>1 DEF Known
    <3> QED BY <2>1, <3>1 DEF ClientView
  <2>6. Asks(n, n, id, cl)
    <3>1. cl \in [Request -> ClientView]
      BY <2>2, <2>4, <2>5
    <3>2. cl[id] = new /\ \A i \in Request : i # id => cl[i] = client[i]
      BY <2>2, <2>4
    <3> QED BY <2>1, <2>3, <3>1, <3>2 DEF Asks
  <2>7. PICK rest \in SUBSET msgs : rest = msgs
    OBVIOUS
  <2> QED BY <2>3, <2>6, <2>7, RequestClientStep
<1>5. ASSUME NEW m \in msgs, HandleClientRequest(n, m) PROVE ClientStep(n)
  <2>1. m.from \in Node /\ m.body.id \in Request
    BY <1>5, ClientTypes DEF HandleClientRequest, TypeInv, TypeOK, Envelope
  <2>2. PICK from \in Node, id \in Request : from = m.from /\ id = m.body.id
    BY <2>1
  <2>3. PICK cl, rest : cl = client /\ rest \in SUBSET msgs /\ rest = msgs \ {m}
    OBVIOUS
  <2>4. StepRequest(n, from, id, cl, rest)
    BY <1>5, <2>2, <2>3 DEF HandleClientRequest
  <2>5. Submitted(id)
    BY <1>5, <2>2 DEF HandleClientRequest, ClientInv, RepliesAreTrue
  <2>6. Asks(n, from, id, cl)
    BY <2>3, <2>5 DEF Asks, Submitted, TypeInv, TypeOK
  <2>7. rest \in SUBSET msgs
    BY <2>3
  <2> QED BY <2>2, <2>4, <2>6, <2>7, RequestClientStep
<1>6. ASSUME NEW m \in msgs, Panic(n, m) PROVE ClientStep(n)
  <2>1. msgs' \subseteq msgs \cup none
    BY <1>1, <1>6, SendSubset DEF Panic
  <2>2. KeepsRequests(n) /\ AppliesCommits(n)
    BY <1>2, <1>6 DEF Panic, KeepsRequests, AppliesCommits, Down
  <2> QED BY <1>1, <1>6, <2>1, <2>2, QuietClientStep DEF Panic
<1> QED BY <1>3, <1>4, <1>5, <1>6

\* Every step of a node is one of the kind described above.
LEMMA StepIsClientStep ==
    ASSUME RaftInv, AssertInv, ClientInv, NEW n \in Node, StepOf(n)
    PROVE  ClientStep(n)
<1>1. TypeInv
    BY DEF RaftInv
<1> QED BY <1>1, FollowerClientSteps, LeaderClientSteps, ElectionClientSteps, OtherClientSteps
        DEF StepOf, Receive

-----------------------------------------------------------------------------
(* The invariant, and what it says of clients.                             *)

\* The invariant holds initially: nothing has been submitted.
LEMMA ClientInit ==
    ASSUME Init
    PROVE  ClientInv
<1>1. \A n \in Node : ~IsLeader(n) /\ commit[n] = 0 /\ applied[n] = 0
    BY DEF Init, IsLeader, Follower
<1>2. ClientsAreTold
    BY DEF Init, ClientsAreTold, Truthful
<1>3. RepliesAreTrue
    BY DEF Init, RepliesAreTrue
<1> QED BY <1>1, <1>2, <1>3
        DEF ClientInv, WritesAreLogged, ReadsAreFresh, SequencesAreGiven, AppliedIsCommitted

\* Every step keeps the invariant.
LEMMA ClientNext ==
    ASSUME RaftInv, CommitInv, AssertInv, ClientInv, [Next]_vars
    PROVE  ClientInv'
<1>1. RaftInv' /\ CommitInv'
    BY RaftInvNext, CommitNext
<1>2. CASE UNCHANGED vars
  <2>1. PICK n \in Node : NodeStep(n)
    <3>1. Node # {}
      BY NodeAssumption, FS_EmptySet
    <3> QED BY <1>2, <3>1, StutterIsNodeStep
  <2>2. PICK sent : sent = {} /\ Mute(sent)
    <3> WITNESS {}
    <3> QED BY DEF Mute
  <2>3. msgs' \subseteq msgs \cup sent
    BY <1>2 DEF vars
  <2>4. RoleStep(n)
    BY <1>2, <2>2, <2>3, SameRoleStep DEF vars, RaftInv
  <2>5. KeepsRequests(n) /\ AppliesCommits(n)
    BY <1>2, SameRequests DEF vars, AppliesCommits
  <2>6. ClientStep(n)
    BY <1>2, <2>2, <2>3, <2>5, QuietClientStep DEF vars
  <2> QED BY <1>1, <2>1, <2>4, <2>6, ClientInvStep
<1>3. CASE Next
  <2>1. PICK n \in Node : StepOf(n)
    BY <1>3, NextIsAStep
  <2>2. NodeStep(n) /\ RoleStep(n) /\ ClientStep(n)
    BY <1>1, <2>1, StepIsNodeStep, StepIsRoleStep, StepIsClientStep DEF RaftInv
  <2> QED BY <1>1, <2>2, ClientInvStep
<1> QED BY <1>2, <1>3

\* An acknowledged write is in the logs of the quorum that has the chosen entry.
LEMMA DoneIsDurable ==
    ASSUME RaftInv, NEW w \in Write, Done(w)
    PROVE  IsQuorum({n \in Node : \E i \in 1..Len(log[n]) : log[n][i].command = w})
<1>1. PICK j \in Nat, u \in Nat : Anchored(w, j, u)
    BY DEF Done, DoneBy
<1>2. PICK Q \in SUBSET Node : IsQuorum(Q) /\ Held(j, u, Q)
    BY <1>1 DEF Anchored, Chosen
<1>3. PICK H \in SUBSET Node :
        H = {n \in Node : \E i \in 1..Len(log[n]) : log[n][i].command = w}
    OBVIOUS
<1>4. Q \subseteq H
  <2>1. SUFFICES ASSUME NEW a \in Q PROVE \E i \in 1..Len(log[a]) : log[a][i].command = w
    BY <1>3
  <2>2. PICK l : l = log[a]
    OBVIOUS
  <2>3. l \in Buildable /\ Len(l) \in Nat
    BY <2>2, LogsAreBuildable, LenProperties DEF RaftInv, TypeInv, TypeOK, Log
  <2>4. Has(l, j, u)
    BY <1>2, <2>2 DEF Held
  <2>5. InLog(w, l, j) /\ j \in 1..Len(l)
    BY <1>1, <2>3, <2>4 DEF Anchored, Has
  <2>6. PICK i \in 1..j : l[i].command = w
    BY <2>5 DEF InLog
  <2>7. i \in 1..Len(l)
    BY <2>3, <2>5
  <2> QED BY <2>2, <2>6, <2>7
<1>5. IsQuorum(H)
  <2>1. IsFiniteSet(Node)
    BY NodeAssumption
  <2>2. IsFiniteSet(H) /\ IsFiniteSet(Q)
    BY <1>3, <2>1, FS_Subset
  <2>3. Cardinality(Q) <= Cardinality(H)
    BY <1>4, <2>2, FS_Subset
  <2>4. Cardinality(Q) \in Nat /\ Cardinality(H) \in Nat /\ Cardinality(Node) \in Nat
    BY <2>1, <2>2, FS_CardinalityType
  <2> QED BY <1>2, <2>3, <2>4 DEF IsQuorum
<1> QED BY <1>3, <1>5

\* The invariant holds in every reachable state.
LEMMA ClientInvHolds == Spec => [](RaftInv /\ ClientInv)
<1>1. Init => AssertInv /\ ClientInv
    BY AssertInit, ClientInit
<1>2. RaftInv /\ CommitInv /\ AssertInv /\ ClientInv /\ [Next]_vars => AssertInv' /\ ClientInv'
    BY AssertNext, ClientNext
<1> QED BY <1>1, <1>2, CommitInvHolds, PTL DEF Spec

\* In every behaviour, a write that was acknowledged to its client (by
\* Leader::maybe_commit_and_apply, through raft_route) is in the logs of a quorum,
\* whatever crashes, elections and lost messages follow.
THEOREM AckedWritesStay == Spec => []AckedWritesDurable
<1>1. RaftInv /\ ClientInv => AckedWritesDurable
  <2>1. SUFFICES ASSUME RaftInv, ClientInv, NEW w \in Write, client[w].status = "ok"
                 PROVE  IsQuorum({n \in Node :
                            \E i \in 1..Len(log[n]) : log[n][i].command = w})
    BY DEF AckedWritesDurable
  <2>2. Done(w)
    BY <2>1 DEF ClientInv, ClientsAreTold, Truthful, Request
  <2> QED BY <2>1, <2>2, DoneIsDurable
<1> QED BY <1>1, ClientInvHolds, PTL

\* In every behaviour, the state that a read returns (Leader::maybe_read) has every
\* write that was acknowledged, and every write that a read had returned, before the
\* read was submitted.
THEOREM ReadsLinearize == Spec => []ReadsAreLinearizable
<1>1. ClientInv => ReadsAreLinearizable
    BY DEF ClientInv, ClientsAreTold, Truthful, ReadsAreLinearizable, Request
<1> QED BY <1>1, ClientInvHolds, PTL
=============================================================================
