---------------------------- MODULE Raft_proofs ----------------------------
(***************************************************************************)
(* Type correctness, election safety and the log matching property of      *)
(* Raft, for every cluster and every bound.                                *)
(*                                                                         *)
(* The argument for log matching is about links.  A link is an entry       *)
(* together with its index and the term of the entry before it; the links  *)
(* of the system are those of all logs and of all appends in flight.       *)
(* Links with the same index and term are the same: a leader makes one     *)
(* link per index in its term, no other node ever makes links of that      *)
(* term, and splicing an append into a log makes no link at all, since the *)
(* base of the append must be in the log.  Two logs that agree on the term *)
(* of an index then agree on that entry and on the term of the one before  *)
(* it, and so on down to the first.                                        *)
(***************************************************************************)
EXTENDS Raft, Extrema_proofs, FiniteSetTheorems, SequenceTheorems

-----------------------------------------------------------------------------
(* Type lemmas.                                                            *)

ReplyType == [to : Node, id : Request, status : {"ok", "abort"}, value : SUBSET Write]

\* An envelope built by RawNode::send from typed parts is well typed.
LEMMA EnvType ==
    ASSUME NEW n \in Node, NEW p \in Peers(n), NEW t \in Nat, NEW b \in Body
    PROVE  Env(n, p, t, b) \in Envelope
BY DEF Env, Envelope, Peers

\* RawNode::broadcast sends well-typed envelopes.
LEMMA BroadcastType ==
    ASSUME NEW n \in Node, NEW t \in Nat, NEW b \in Body
    PROVE  Broadcast(n, t, b) \subseteq Envelope
BY EnvType DEF Broadcast, Peers

\* Client responses travel in well-typed envelopes.
LEMMA ReplyMsgsType ==
    ASSUME NEW n \in Node, NEW t \in Nat, NEW R \in SUBSET ReplyType
    PROVE  ReplyMsgs(n, t, R) \subseteq Envelope
<1> SUFFICES ASSUME NEW r \in R, r.to # n
             PROVE  Env(n, r.to, t, [type |-> "ClientResponse", id |-> r.id,
                                     status |-> r.status, value |-> r.value]) \in Envelope
    BY DEF ReplyMsgs
<1>1. r.to \in Peers(n) /\ r.id \in Request /\ r.status \in {"ok", "abort"}
        /\ r.value \in SUBSET Write
    BY DEF ReplyType, Peers
<1>2. [type |-> "ClientResponse", id |-> r.id, status |-> r.status, value |-> r.value] \in Body
    BY <1>1 DEF Body
<1> QED BY <1>1, <1>2, EnvType

\* Answering clients keeps what they know well typed.
LEMMA AnswerType ==
    ASSUME NEW cl \in [Request -> ClientView], NEW n \in Node, NEW R \in SUBSET ReplyType
    PROVE  Answer(cl, n, R) \in [Request -> ClientView]
<1> SUFFICES ASSUME NEW i \in Request
             PROVE  Answer(cl, n, R)[i] \in ClientView
    BY DEF Answer
<1> DEFINE mine == {r \in R : r.to = n /\ r.id = i}
<1>1. CASE mine = {}
    BY <1>1 DEF Answer
<1>2. CASE mine # {}
  <2> DEFINE r == CHOOSE r \in mine : TRUE
  <2>1. r \in ReplyType
    BY <1>2
  <2>2. Answer(cl, n, R)[i] = [cl[i] EXCEPT !.status = r.status, !.value = r.value]
    BY <1>2 DEF Answer
  <2> HIDE DEF r
  <2>3. r.status \in {"ok", "abort"} /\ r.value \in SUBSET Write
    BY <2>1 DEF ReplyType
  <2> QED BY <2>2, <2>3 DEF ClientView
<1> QED BY <1>1, <1>2

\* Sending loses envelopes but makes none up.
LEMMA SendSubset ==
    ASSUME NEW rest, NEW sent, Send(rest, sent)
    PROVE  msgs' \subseteq rest \cup sent
BY DEF Send

\* The entries of a scan are entries of the log.
LEMMA ScanType ==
    ASSUME NEW l \in Log, NEW from \in Nat \ {0}, NEW k \in Nat
    PROVE  Scan(l, from, k) \in Log /\ Len(Scan(l, from, k)) \in Nat
BY DEF Scan, Min2, Log

\* The term at any index of a log is a number.
LEMMA TermAtType ==
    ASSUME NEW l \in Log, NEW i
    PROVE  TermAt(l, i) \in Nat
<1>1. CASE i \in 1..Len(l)
  <2>1. l[i] \in Entry
    BY <1>1, ElementOfSeq DEF Log
  <2> QED BY <1>1, <2>1 DEF TermAt, Entry
<1>2. CASE i \notin 1..Len(l)
    BY <1>2 DEF TermAt
<1> QED BY <1>1, <1>2

\* maybe_send_append keeps the progress well typed and sends a well-typed append.
LEMMA MaybeSendAppendType ==
    ASSUME NEW l \in Log, NEW pr \in Progress, NEW probe \in BOOLEAN
    PROVE  /\ MaybeSendAppend(l, pr, probe).progress \in Progress
           /\ MaybeSendAppend(l, pr, probe).bodies \in SUBSET Body
<1> DEFINE probing == probe /\ pr.next > pr.match + 1
           entries == IF probing THEN <<>> ELSE Scan(l, pr.next, MaxAppendEntries)
<1>1. entries \in Log /\ Len(entries) \in Nat
    BY ScanType, BoundAssumption DEF Progress, Log
<1>2. pr.next \in Nat \ {0} /\ pr.next - 1 \in Nat
    BY DEF Progress
<1>3. TermAt(l, pr.next - 1) \in Nat
    BY TermAtType
<1>4. [pr EXCEPT !.next = @ + Len(entries)] \in Progress
    BY <1>1, <1>2 DEF Progress
<1>5. [type |-> "Append", baseIndex |-> pr.next - 1, baseTerm |-> TermAt(l, pr.next - 1),
       entries |-> entries] \in Body
    BY <1>1, <1>2, <1>3 DEF Body
<1> QED BY <1>4, <1>5 DEF MaybeSendAppend

\* propose keeps every peer's progress well typed and sends well-typed appends.
LEMMA ProposeType ==
    ASSUME NEW n \in Node, NEW l \in Log, NEW progress \in [Peers(n) -> Progress],
           NEW t \in Nat
    PROVE  /\ [p \in Peers(n) |-> Propose(l, progress)[p].progress]
                  \in [Peers(n) -> Progress]
           /\ ProposalMsgs(n, t, Propose(l, progress)) \subseteq Envelope
<1>1. DOMAIN Propose(l, progress) = Peers(n)
    BY DEF Propose
<1>2. ASSUME NEW p \in Peers(n)
      PROVE  /\ Propose(l, progress)[p].progress \in Progress
             /\ Propose(l, progress)[p].bodies \in SUBSET Body
  <2>1. progress[p] \in Progress
    OBVIOUS
  <2>2. CASE progress[p].next = Len(l)
    BY <2>1, <2>2, MaybeSendAppendType DEF Propose
  <2>3. CASE progress[p].next # Len(l)
    BY <2>1, <2>3 DEF Propose
  <2> QED BY <2>2, <2>3
<1>3. ASSUME NEW p \in Peers(n), NEW b \in Propose(l, progress)[p].bodies
      PROVE  Env(n, p, t, b) \in Envelope
    BY <1>2, EnvType DEF Peers
<1> QED BY <1>1, <1>2, <1>3 DEF ProposalMsgs

\* The updates of Progress keep it well typed.
LEMMA ProgressType ==
    ASSUME NEW pr \in Progress, NEW i \in Nat
    PROVE  Advance(pr, i) \in Progress /\ AdvanceRead(pr, i) \in Progress
              /\ RegressNext(pr, i) \in Progress
BY DEF Progress, Advance, AdvanceRead, RegressNext, Max2

\* The state read by a client is a set of writes.
LEMMA StateAtType ==
    ASSUME NEW l, NEW a PROVE StateAt(l, a) \in SUBSET Write
BY DEF StateAt

\* A splice of typed entries is a typed log.
LEMMA SpliceType ==
    ASSUME NEW l \in Log, NEW base \in Nat, NEW es \in Log, base <= Len(l)
    PROVE  Splice(l, base, es) \in Log
<1>1. SubSeq(l, 1, base) \in Log
    BY DEF Log
<1> QED BY <1>1, ConcatProperties DEF Splice, Log

\* The fields of each kind of message.
LEMMA BodyFields ==
    ASSUME NEW b \in Body
    PROVE  /\ b.type = "Campaign" => b.lastIndex \in Nat /\ b.lastTerm \in Nat
           /\ b.type = "CampaignResponse" => b.vote \in BOOLEAN
           /\ b.type = "Heartbeat" =>
                 b.lastIndex \in Nat /\ b.commitIndex \in Nat /\ b.readSeq \in Nat
           /\ b.type = "HeartbeatResponse" => b.matchIndex \in Nat /\ b.readSeq \in Nat
           /\ b.type = "Append" =>
                 b.baseIndex \in Nat /\ b.baseTerm \in Nat /\ b.entries \in Log
           /\ b.type = "AppendResponse" => b.matchIndex \in Nat /\ b.rejectIndex \in Nat
           /\ b.type = "Read" => b.seq \in Nat
           /\ b.type = "ReadResponse" => b.seq \in Nat
           /\ b.type = "ClientRequest" => b.id \in Request
           /\ b.type = "ClientResponse" =>
                 b.id \in Request /\ b.status \in {"ok", "abort"} /\ b.value \in SUBSET Write
BY DEF Body

FollowerRole(n) == [kind : {"follower"}, leader : Peers(n) \cup {NoNode},
                    forwarded : SUBSET Request]

LeaderRole(n) == [kind : {"leader"}, progress : [Peers(n) -> Progress],
                  writes : SUBSET [index : Nat, from : Node, id : Write],
                  reads : SUBSET [seq : Nat, from : Node, id : Read], readSeq : Nat]

\* The role of a node by its kind.
LEMMA RoleFields ==
    ASSUME NEW n \in Node, NEW r \in Role(n)
    PROVE  /\ r.kind = "follower" => r \in FollowerRole(n)
           /\ r.kind = "candidate" => r.votes \in SUBSET Node
           /\ r.kind = "leader" => r \in LeaderRole(n)
BY DEF Role, FollowerRole, LeaderRole, Down

\* The constructors of roles.
LEMMA RoleConstructors ==
    ASSUME NEW n \in Node
    PROVE  /\ \A l \in Peers(n) \cup {NoNode}, f \in SUBSET Request : Follower(l, f) \in Role(n)
           /\ \A v \in SUBSET Node : Candidate(v) \in Role(n)
           /\ Down \in Role(n)
           /\ \A p \in [Peers(n) -> Progress],
                 w \in SUBSET [index : Nat, from : Node, id : Write],
                 r \in SUBSET [seq : Nat, from : Node, id : Read], s \in Nat :
                    Leader(p, w, r, s) \in Role(n)
BY DEF Role, Follower, Candidate, Leader, Down

\* The requests that a node aborts are answered with well-typed responses.
LEMMA AbortedType ==
    ASSUME TypeOK, NEW n \in Node, NEW m
    PROVE  Aborted(n) \in SUBSET ReplyType /\ AbortedBy(n, m) \in SUBSET ReplyType
<1>1. Aborted(n) \in SUBSET ReplyType
  <2>1. CASE role[n].kind = "follower"
    <3>1. role[n].forwarded \in SUBSET Request
      BY <2>1, RoleFields DEF TypeOK, FollowerRole
    <3>2. Aborted(n) = {Reply(n, i, "abort", {}) : i \in role[n].forwarded}
      BY <2>1 DEF Aborted
    <3> QED BY <3>1, <3>2 DEF Reply, ReplyType
  <2>2. CASE role[n].kind = "leader"
    <3>1. /\ role[n].writes \in SUBSET [index : Nat, from : Node, id : Write]
          /\ role[n].reads \in SUBSET [seq : Nat, from : Node, id : Read]
      BY <2>2, RoleFields DEF TypeOK, LeaderRole
    <3>2. Aborted(n) = {Reply(r.from, r.id, "abort", {}) : r \in role[n].writes \cup role[n].reads}
      BY <2>2 DEF Aborted
    <3>3. \A r \in role[n].writes \cup role[n].reads : r.from \in Node /\ r.id \in Request
      BY <3>1 DEF Request
    <3> QED BY <3>2, <3>3 DEF Reply, ReplyType
  <2>3. CASE role[n].kind \notin {"follower", "leader"}
    BY <2>3 DEF Aborted
  <2> QED BY <2>1, <2>2, <2>3
<1> QED BY <1>1 DEF AbortedBy

\* The follower that steps a message is well typed, and so is its vote.
LEMMA FollowerInType ==
    ASSUME TypeOK, NEW n \in Node, NEW m
    PROVE  FollowerIn(n, m) \in FollowerRole(n) /\ VoteIn(n, m) \in Node \cup {NoNode}
<1>1. Follower(NoNode, {}) \in FollowerRole(n)
    BY DEF Follower, FollowerRole
<1>2. role[n].kind = "follower" => role[n] \in FollowerRole(n)
    BY RoleFields DEF TypeOK
<1> QED BY <1>1, <1>2 DEF FollowerIn, VoteIn, TypeOK

-----------------------------------------------------------------------------
(* The invariant: types, and the fact that only a follower can be in term  *)
(* 0, which the commit rule relies on (index 0 has term 0).                *)

ActiveTerm == \A n \in Node : role[n].kind \in {"candidate", "leader"} => term[n] > 0

TypeInv == TypeOK /\ ActiveTerm

\* The part of the type invariant that a step as a follower ends with.
LEMMA EndAsFollowerType ==
    ASSUME TypeInv, NEW n \in Node, NEW m \in msgs, NEW v \in Node \cup {NoNode},
           NEW r \in FollowerRole(n), NEW sent \in SUBSET Envelope,
           NEW replies \in SUBSET ReplyType,
           EndAsFollower(n, m, v, r, sent, replies),
           log' \in [Node -> Log], commit' \in [Node -> Nat], applied' \in [Node -> Nat]
    PROVE  TypeInv'
<1> USE DEF TypeInv
<1>1. m \in Envelope /\ m.term \in Nat
    BY DEF TypeOK, Envelope
<1>2. term' \in [Node -> Nat] /\ vote' \in [Node -> Node \cup {NoNode}]
    BY <1>1 DEF EndAsFollower, TypeOK
<1>3. r \in Role(n) /\ r.kind = "follower"
    BY DEF FollowerRole, Role
<1>4. DOMAIN role' = Node /\ \A k \in Node : role'[k] \in Role(k)
    BY <1>3 DEF EndAsFollower, TypeOK
<1>5. msgs' \subseteq Envelope
  <2>1. ReplyMsgs(n, term[n], AbortedBy(n, m)) \subseteq Envelope
    BY AbortedType, ReplyMsgsType DEF TypeOK
  <2> QED BY <2>1, SendSubset DEF EndAsFollower, TypeOK
<1>6. client' \in [Request -> ClientView]
  <2>1. AbortedBy(n, m) \cup replies \in SUBSET ReplyType
    BY AbortedType
  <2> QED BY <2>1, AnswerType DEF EndAsFollower, TypeOK
<1>7. panics' \subseteq Assertion /\ restarts' \in Nat
    BY DEF EndAsFollower, TypeOK
<1>8. ActiveTerm'
    BY <1>3 DEF ActiveTerm, EndAsFollower, TypeOK
<1> QED BY <1>2, <1>4, <1>5, <1>6, <1>7, <1>8 DEF TypeOK

\* Following a leader and responding keeps the types.
LEMMA FollowAndRespondType ==
    ASSUME TypeInv, NEW n \in Node, NEW m \in msgs, m.to = n, NEW b \in Body,
           FollowAndRespond(n, m, b),
           log' \in [Node -> Log], commit' \in [Node -> Nat], applied' \in [Node -> Nat]
    PROVE  TypeInv'
<1>1. m.from \in Peers(n) /\ m.term \in Nat
    BY DEF TypeInv, TypeOK, Envelope, Peers
<1>2. FollowerIn(n, m) \in FollowerRole(n) /\ VoteIn(n, m) \in Node \cup {NoNode}
    BY FollowerInType DEF TypeInv
<1>3. Follower(m.from, FollowerIn(n, m).forwarded) \in FollowerRole(n)
    BY <1>1, <1>2 DEF Follower, FollowerRole
<1>4. {Env(n, m.from, m.term, b)} \in SUBSET Envelope
    BY <1>1, EnvType
<1> QED BY <1>2, <1>3, <1>4, EndAsFollowerType DEF FollowAndRespond

\* Every message that a node steps as a follower keeps the types.
LEMMA FollowerActionsType ==
    ASSUME TypeInv, NEW n \in Node, NEW m \in msgs,
           \/ HandleHeartbeat(n, m) \/ HandleAppend(n, m) \/ HandleRead(n, m)
           \/ HandleCampaign(n, m) \/ HandleClientResponse(n, m) \/ IgnoreVote(n, m)
    PROVE  TypeInv'
<1>1. m.to = n /\ m.from \in Peers(n) /\ m.term \in Nat /\ m.body \in Body
    BY DEF TypeInv, TypeOK, Envelope, Peers, HandleHeartbeat, HandleAppend, HandleRead,
           HandleCampaign, HandleClientResponse, IgnoreVote, StepsAsFollower
<1>2. FollowerIn(n, m) \in FollowerRole(n) /\ VoteIn(n, m) \in Node \cup {NoNode}
    BY FollowerInType DEF TypeInv
<1>3. /\ log \in [Node -> Log] /\ commit \in [Node -> Nat] /\ applied \in [Node -> Nat]
      /\ log[n] \in Log /\ Len(log[n]) \in Nat
    BY DEF TypeInv, TypeOK, Log
<1>4. CASE HandleHeartbeat(n, m)
  <2>1. m.body.lastIndex \in Nat /\ m.body.commitIndex \in Nat /\ m.body.readSeq \in Nat
    BY <1>1, <1>4, BodyFields DEF HandleHeartbeat
  <2>2. HeartbeatMatch(n, m) \in Nat
    BY <2>1 DEF HeartbeatMatch
  <2>3. [type |-> "HeartbeatResponse", matchIndex |-> HeartbeatMatch(n, m),
         readSeq |-> m.body.readSeq] \in Body
    BY <2>1, <2>2 DEF Body
  <2>4. commit' \in [Node -> Nat] /\ applied' \in [Node -> Nat] /\ log' = log
    BY <1>3, <1>4, <2>1 DEF HandleHeartbeat, Max2
  <2> QED BY <1>1, <1>3, <1>4, <2>3, <2>4, FollowAndRespondType DEF HandleHeartbeat
<1>5. CASE HandleAppend(n, m)
  <2> DEFINE base == m.body.baseIndex
             es == m.body.entries
             accept == [type |-> "AppendResponse", matchIndex |-> base + Len(es),
                        rejectIndex |-> 0]
             reject == [type |-> "AppendResponse", matchIndex |-> 0,
                        rejectIndex |-> Min2(base, Len(log[n]) + 1)]
  <2>1. base \in Nat /\ es \in Log /\ Len(es) \in Nat
    BY <1>1, <1>5, BodyFields DEF HandleAppend, Log
  <2>2. accept \in Body /\ reject \in Body
    BY <1>3, <2>1 DEF Body, Min2
  <2>3. commit' = commit /\ applied' = applied
    BY <1>5 DEF HandleAppend
  <2>4. CASE HasBase(log[n], base, m.body.baseTerm)
    <3>1. base <= Len(log[n])
      BY <1>3, <2>1, <2>4 DEF HasBase, Has
    <3>2. Splice(log[n], base, es) \in Log
      BY <1>3, <2>1, <3>1, SpliceType
    <3>3. /\ log' = [log EXCEPT ![n] = Splice(@, base, es)]
          /\ FollowAndRespond(n, m, accept)
      BY <1>5, <2>4 DEF HandleAppend
    <3>4. log' \in [Node -> Log]
      BY <1>3, <3>2, <3>3
    <3> QED BY <1>1, <1>3, <2>2, <2>3, <3>3, <3>4, FollowAndRespondType
  <2>5. CASE ~HasBase(log[n], base, m.body.baseTerm)
    <3>1. log' = log /\ FollowAndRespond(n, m, reject)
      BY <1>5, <2>5 DEF HandleAppend
    <3> QED BY <1>1, <1>3, <2>2, <2>3, <3>1, FollowAndRespondType
  <2> QED BY <2>4, <2>5
<1>6. CASE HandleRead(n, m)
  <2>1. [type |-> "ReadResponse", seq |-> m.body.seq] \in Body
    BY <1>1, <1>6, BodyFields DEF HandleRead, Body
  <2> QED BY <1>1, <1>3, <1>6, <2>1, FollowAndRespondType DEF HandleRead
<1>7. CASE HandleCampaign(n, m)
  <2>1. [type |-> "CampaignResponse", vote |-> GrantsVote(n, m)] \in Body
    BY DEF Body, GrantsVote
  <2>2. {Env(n, m.from, m.term, [type |-> "CampaignResponse", vote |-> GrantsVote(n, m)])}
           \in SUBSET Envelope
    BY <1>1, <2>1, EnvType
  <2> DEFINE v == IF GrantsVote(n, m) THEN m.from ELSE VoteIn(n, m)
             sent == {Env(n, m.from, m.term, [type |-> "CampaignResponse",
                                              vote |-> GrantsVote(n, m)])}
  <2>3. v \in Node \cup {NoNode}
    BY <1>1, <1>2 DEF Peers
  <2>4. log' = log /\ commit' = commit /\ applied' = applied
    BY <1>7 DEF HandleCampaign
  <2>5. EndAsFollower(n, m, v, FollowerIn(n, m), sent, {})
    BY <1>7 DEF HandleCampaign
  <2>6. {} \in SUBSET ReplyType
    OBVIOUS
  <2> HIDE DEF v, sent
  <2> QED BY <1>2, <1>3, <2>2, <2>3, <2>4, <2>5, <2>6, EndAsFollowerType DEF sent
<1>8. CASE HandleClientResponse(n, m)
  <2> DEFINE waiting == FollowerIn(n, m).forwarded
             r == Follower(m.from, waiting \ {m.body.id})
             replies == IF m.body.id \in waiting
                        THEN {Reply(n, m.body.id, m.body.status, m.body.value)} ELSE {}
  <2>1. m.body.id \in Request /\ m.body.status \in {"ok", "abort"}
          /\ m.body.value \in SUBSET Write
    BY <1>1, <1>8, BodyFields DEF HandleClientResponse
  <2>2. replies \in SUBSET ReplyType
    BY <2>1 DEF Reply, ReplyType
  <2>3. r \in FollowerRole(n)
    BY <1>1, <1>2 DEF Follower, FollowerRole
  <2>4. EndAsFollower(n, m, VoteIn(n, m), r, {}, replies)
    BY <1>8 DEF HandleClientResponse
  <2>5. log' = log /\ commit' = commit /\ applied' = applied
    BY <1>8 DEF HandleClientResponse
  <2> HIDE DEF r, replies
  <2> QED BY <1>2, <1>3, <2>2, <2>3, <2>4, <2>5, EndAsFollowerType
<1>9. CASE IgnoreVote(n, m)
  <2>1. EndAsFollower(n, m, VoteIn(n, m), FollowerIn(n, m), {}, {})
    BY <1>9 DEF IgnoreVote
  <2>2. log' = log /\ commit' = commit /\ applied' = applied
    BY <1>9 DEF IgnoreVote
  <2>3. {} \in SUBSET Envelope /\ {} \in SUBSET ReplyType
    OBVIOUS
  <2> QED BY <1>2, <1>3, <2>1, <2>2, <2>3, EndAsFollowerType
<1> QED BY <1>4, <1>5, <1>6, <1>7, <1>8, <1>9

-----------------------------------------------------------------------------
(* Leaders.                                                                *)

\* The fields of a leader's role.
LEMMA LeaderFields ==
    ASSUME TypeInv, NEW n \in Node, role[n].kind = "leader"
    PROVE  /\ role[n].progress \in [Peers(n) -> Progress]
           /\ role[n].writes \in SUBSET [index : Nat, from : Node, id : Write]
           /\ role[n].reads \in SUBSET [seq : Nat, from : Node, id : Read]
           /\ role[n].readSeq \in Nat
           /\ term[n] \in Nat /\ term[n] > 0
           /\ log[n] \in Log /\ Len(log[n]) \in Nat
           /\ commit[n] \in Nat /\ applied[n] \in Nat
BY RoleFields DEF TypeInv, TypeOK, ActiveTerm, LeaderRole, Log

\* A step that changes only the role of a leader, messages and clients.
LEMMA LeaderStepType ==
    ASSUME TypeInv, NEW n \in Node, role[n].kind = "leader",
           NEW r \in LeaderRole(n), role' = [role EXCEPT ![n] = r],
           UNCHANGED <<term, vote, panics, restarts>>,
           log' \in [Node -> Log], commit' \in [Node -> Nat], applied' \in [Node -> Nat],
           msgs' \subseteq Envelope, client' \in [Request -> ClientView]
    PROVE  TypeInv'
<1>1. r \in Role(n)
    BY DEF LeaderRole, Role
<1>2. DOMAIN role' = Node /\ \A k \in Node : role'[k] \in Role(k)
    BY <1>1 DEF TypeInv, TypeOK
<1>3. ActiveTerm'
    BY DEF TypeInv, ActiveTerm, TypeOK
<1> QED BY <1>2, <1>3 DEF TypeInv, TypeOK

\* Answered writes and reads leave a well-typed leader and well-typed responses.
LEMMA LeaderAfterType ==
    ASSUME TypeInv, NEW n \in Node, role[n].kind = "leader",
           NEW progress \in [Peers(n) -> Progress], NEW acked, NEW served
    PROVE  LeaderAfter(n, progress, acked, served) \in LeaderRole(n)
BY LeaderFields DEF LeaderAfter, Leader, LeaderRole

\* Reads are answered with well-typed responses.
LEMMA ReadRepliesType ==
    ASSUME TypeInv, NEW n \in Node, role[n].kind = "leader",
           NEW reads \in SUBSET role[n].reads, NEW a
    PROVE  ReadReplies(n, reads, a) \in SUBSET ReplyType
<1>1. \A r \in reads : r.from \in Node /\ r.id \in Request
    BY LeaderFields DEF Request
<1> QED BY <1>1, StateAtType DEF ReadReplies, Reply, ReplyType

\* Only pending reads are served.
LEMMA ReadyReadsType ==
    ASSUME NEW n, NEW progress, NEW c
    PROVE  ReadyReads(n, progress, c) \in SUBSET role[n].reads
BY DEF ReadyReads

\* A step of a leader that commits nothing keeps the types.
LEMMA EndAsLeaderType ==
    ASSUME TypeInv, NEW n \in Node, role[n].kind = "leader", NEW m \in msgs,
           NEW progress \in [Peers(n) -> Progress], NEW served \in SUBSET role[n].reads,
           NEW sent \in SUBSET Envelope,
           EndAsLeader(n, m, progress, served, sent)
    PROVE  TypeInv'
<1> DEFINE replies == ReadReplies(n, served, applied[n])
<1>1. replies \in SUBSET ReplyType
    BY ReadRepliesType
<1>2. ReplyMsgs(n, term[n], replies) \subseteq Envelope
    BY <1>1, ReplyMsgsType, LeaderFields
<1>3. msgs' \subseteq Envelope
    BY <1>2, SendSubset DEF EndAsLeader, TypeInv, TypeOK
<1>4. client' \in [Request -> ClientView]
    BY <1>1, AnswerType DEF EndAsLeader, TypeInv, TypeOK
<1>5. LeaderAfter(n, progress, {}, served) \in LeaderRole(n)
    BY LeaderAfterType
<1>6. /\ role' = [role EXCEPT ![n] = LeaderAfter(n, progress, {}, served)]
      /\ UNCHANGED <<term, vote, panics, restarts>>
      /\ log' \in [Node -> Log] /\ commit' \in [Node -> Nat] /\ applied' \in [Node -> Nat]
    BY DEF EndAsLeader, TypeInv, TypeOK
<1> QED BY <1>3, <1>4, <1>5, <1>6, LeaderStepType

\* The commit index of a leader stays a number: only an index of its log can
\* have the leader's term.
LEMMA NextCommitType ==
    ASSUME TypeInv, NEW n \in Node, role[n].kind = "leader", NEW progress
    PROVE  NextCommit(n, progress) \in Nat
<1> DEFINE q == QuorumValue([p \in Node |-> IF p = n THEN Len(log[n]) ELSE progress[p].match])
<1>1. TermAt(log[n], q) = term[n] => q \in 1..Len(log[n])
    BY LeaderFields DEF TermAt
<1>2. NextCommit(n, progress) =
        IF q > commit[n] /\ TermAt(log[n], q) = term[n] THEN q ELSE commit[n]
    BY DEF NextCommit
<1> HIDE DEF q
<1> QED BY <1>1, <1>2, LeaderFields

\* A step of a leader that commits and applies keeps the types.
LEMMA EndWithCommitType ==
    ASSUME TypeInv, NEW n \in Node, role[n].kind = "leader", NEW m \in msgs,
           NEW progress \in [Peers(n) -> Progress], NEW served \in SUBSET role[n].reads,
           NEW sent \in SUBSET Envelope,
           EndWithCommit(n, m, progress, served, sent)
    PROVE  TypeInv'
<1> DEFINE c == NextCommit(n, progress)
           a == IF c > commit[n] THEN Max2(applied[n], c) ELSE applied[n]
           acked == {w \in role[n].writes : w.index \in applied[n] + 1..a}
           late == IF c > commit[n] /\ TermAt(log[n], commit[n]) # term[n]
                   THEN ReadyReads(n, progress, c) ELSE {}
           writeReplies == {Reply(w.from, w.id, "ok", {}) : w \in acked}
           replies == writeReplies
                      \cup ReadReplies(n, served, applied[n]) \cup ReadReplies(n, late, a)
<1>1. c \in Nat
    BY NextCommitType
<1> HIDE DEF c
<1>2. a \in Nat
    BY <1>1, LeaderFields DEF Max2
<1>3. late \in SUBSET role[n].reads
    BY ReadyReadsType
<1>4. writeReplies \in SUBSET ReplyType
  <2>1. \A w \in acked : w.from \in Node /\ w.id \in Request
    BY LeaderFields DEF Request
  <2> QED BY <2>1 DEF Reply, ReplyType
<1> HIDE DEF a, late, writeReplies
<1>5. replies \in SUBSET ReplyType
    BY <1>3, <1>4, ReadRepliesType
<1>6. ReplyMsgs(n, term[n], replies) \subseteq Envelope
    BY <1>5, ReplyMsgsType, LeaderFields
<1>7. LeaderAfter(n, progress, acked, served \cup late) \in LeaderRole(n)
    BY LeaderAfterType
<1>8. /\ commit' = [commit EXCEPT ![n] = c] /\ applied' = [applied EXCEPT ![n] = a]
      /\ role' = [role EXCEPT ![n] = LeaderAfter(n, progress, acked, served \cup late)]
      /\ Send(msgs \ {m}, sent \cup ReplyMsgs(n, term[n], replies))
      /\ client' = Answer(client, n, replies)
      /\ UNCHANGED <<term, vote, log, panics, restarts>>
    BY DEF EndWithCommit, c, a, late, writeReplies
<1> HIDE DEF replies, acked
<1>9. commit' \in [Node -> Nat] /\ applied' \in [Node -> Nat] /\ log' \in [Node -> Log]
    BY <1>1, <1>2, <1>8 DEF TypeInv, TypeOK
<1>10. msgs' \subseteq Envelope
    BY <1>6, <1>8, SendSubset DEF TypeInv, TypeOK
<1>11. client' \in [Request -> ClientView]
    BY <1>5, <1>8, AnswerType DEF TypeInv, TypeOK
<1> QED BY <1>7, <1>8, <1>9, <1>10, <1>11, LeaderStepType

\* What maybe_send_append sends to a peer is well typed.
LEMMA AppendMsgsType ==
    ASSUME TypeInv, NEW n \in Node, NEW p \in Peers(n), NEW pr \in Progress,
           NEW probe \in BOOLEAN
    PROVE  {Env(n, p, term[n], b) : b \in MaybeSendAppend(log[n], pr, probe).bodies}
              \in SUBSET Envelope
<1>1. log[n] \in Log /\ term[n] \in Nat
    BY DEF TypeInv, TypeOK
<1>2. MaybeSendAppend(log[n], pr, probe).bodies \in SUBSET Body
    BY <1>1, MaybeSendAppendType
<1> QED BY <1>1, <1>2, EnvType

\* Every message that a leader steps keeps the types.
LEMMA LeaderActionsType ==
    ASSUME TypeInv, NEW n \in Node, NEW m \in msgs,
           \/ HandleHeartbeatResponse(n, m) \/ HandleAppendResponse(n, m)
           \/ HandleAppendReject(n, m) \/ HandleReadResponse(n, m)
    PROVE  TypeInv'
<1>1. /\ m.from \in Peers(n) /\ m.body \in Body /\ role[n].kind = "leader"
      /\ m.body.type = "HeartbeatResponse" =>
            m.body.matchIndex \in Nat /\ m.body.readSeq \in Nat
      /\ m.body.type = "AppendResponse" =>
            m.body.matchIndex \in Nat /\ m.body.rejectIndex \in Nat
      /\ m.body.type = "ReadResponse" => m.body.seq \in Nat
  <2>1. m.from \in Peers(n) /\ m.body \in Body /\ role[n].kind = "leader"
    BY DEF TypeInv, TypeOK, Envelope, Peers, HandleHeartbeatResponse, HandleAppendResponse,
           HandleAppendReject, HandleReadResponse, StepsAsLeader
  <2> QED BY <2>1, BodyFields
<1> DEFINE p == m.from
           old == role[n].progress
<1>2. old \in [Peers(n) -> Progress] /\ old[p] \in Progress /\ Len(log[n]) \in Nat
        /\ log[n] \in Log
    BY <1>1, LeaderFields
<1>3. {} \in SUBSET role[n].reads /\ {} \in SUBSET Envelope
    OBVIOUS
<1>4. CASE HandleHeartbeatResponse(n, m)
  <2> DEFINE seq == m.body.readSeq
             match == m.body.matchIndex
             read == [old EXCEPT ![p] = AdvanceRead(@, seq)]
             served == IF read # old THEN ReadyReads(n, read, commit[n]) ELSE {}
             back == RegressNext(read[p], Len(log[n]))
             probe == MaybeSendAppend(log[n], back, TRUE)
             probed == [read EXCEPT ![p] = probe.progress]
             sent == {Env(n, p, term[n], b) : b \in probe.bodies}
             matched == [read EXCEPT ![p] = Advance(@, match)]
  <2>1. seq \in Nat /\ match \in Nat
    BY <1>1, <1>4 DEF HandleHeartbeatResponse
  <2>2. read \in [Peers(n) -> Progress] /\ read[p] \in Progress
    BY <1>1, <1>2, <2>1, ProgressType
  <2>3. served \in SUBSET role[n].reads
    BY ReadyReadsType
  <2>4. \/ EndAsLeader(n, m, probed, served, sent)
        \/ EndAsLeader(n, m, read, served, {})
        \/ EndWithCommit(n, m, matched, served, {})
    BY <1>4 DEF HandleHeartbeatResponse
  <2> HIDE DEF read, served
  <2>5. back \in Progress
    BY <1>2, <2>2, ProgressType
  <2> HIDE DEF back
  <2>6. probed \in [Peers(n) -> Progress]
    BY <1>1, <1>2, <2>2, <2>5, MaybeSendAppendType
  <2>7. sent \in SUBSET Envelope
    BY <1>1, <2>5, AppendMsgsType
  <2>8. matched \in [Peers(n) -> Progress]
    BY <1>1, <2>1, <2>2, ProgressType
  <2> HIDE DEF probed, sent, matched
  <2> QED BY <1>1, <1>3, <2>2, <2>3, <2>4, <2>6, <2>7, <2>8, EndAsLeaderType, EndWithCommitType
<1>5. CASE HandleAppendResponse(n, m)
  <2> DEFINE pr == Advance(old[p], m.body.matchIndex)
             out == MaybeSendAppend(log[n], pr, FALSE)
             next == [old EXCEPT ![p] = out.progress]
             sent == {Env(n, p, term[n], b) : b \in out.bodies}
  <2>1. pr \in Progress
    BY <1>1, <1>2, <1>5, ProgressType DEF HandleAppendResponse
  <2>2. EndWithCommit(n, m, next, {}, sent) \/ EndAsLeader(n, m, next, {}, sent)
    BY <1>5 DEF HandleAppendResponse
  <2> HIDE DEF pr
  <2>3. next \in [Peers(n) -> Progress]
    BY <1>1, <1>2, <2>1, MaybeSendAppendType
  <2>4. sent \in SUBSET Envelope
    BY <1>1, <2>1, AppendMsgsType
  <2> HIDE DEF next, sent
  <2> QED BY <1>1, <1>3, <2>2, <2>3, <2>4, EndAsLeaderType, EndWithCommitType
<1>6. CASE HandleAppendReject(n, m)
  <2> DEFINE pr == RegressNext(old[p], m.body.rejectIndex)
             out == MaybeSendAppend(log[n], pr, TRUE)
             next == [old EXCEPT ![p] = out.progress]
             sent == {Env(n, p, term[n], b) : b \in out.bodies}
  <2>1. pr \in Progress
    BY <1>1, <1>2, <1>6, ProgressType DEF HandleAppendReject
  <2>2. EndAsLeader(n, m, next, {}, sent)
    BY <1>6 DEF HandleAppendReject
  <2> HIDE DEF pr
  <2>3. next \in [Peers(n) -> Progress]
    BY <1>1, <1>2, <2>1, MaybeSendAppendType
  <2>4. sent \in SUBSET Envelope
    BY <1>1, <2>1, AppendMsgsType
  <2> HIDE DEF next, sent
  <2> QED BY <1>1, <1>3, <2>2, <2>3, <2>4, EndAsLeaderType
<1>7. CASE HandleReadResponse(n, m)
  <2> DEFINE new == [old EXCEPT ![p] = AdvanceRead(@, m.body.seq)]
             served == IF new # old THEN ReadyReads(n, new, commit[n]) ELSE {}
  <2>1. new \in [Peers(n) -> Progress]
    BY <1>1, <1>2, <1>7, ProgressType DEF HandleReadResponse
  <2>2. served \in SUBSET role[n].reads
    BY ReadyReadsType
  <2>3. EndAsLeader(n, m, new, served, {})
    BY <1>7 DEF HandleReadResponse
  <2> HIDE DEF new, served
  <2> QED BY <1>1, <1>3, <2>1, <2>2, <2>3, EndAsLeaderType
<1> QED BY <1>4, <1>5, <1>6, <1>7

-----------------------------------------------------------------------------
(* Elections, requests and failures.                                       *)

\* Steps that only send and answer keep the types.
LEMMA QuietStepType ==
    ASSUME TypeInv, UNCHANGED <<term, vote, log, commit, applied, role, panics, restarts>>,
           msgs' \subseteq Envelope, client' \in [Request -> ClientView]
    PROVE  TypeInv'
BY DEF TypeInv, TypeOK, ActiveTerm

\* A campaign keeps the types.
LEMMA CampaignType ==
    ASSUME TypeInv, NEW n \in Node, NEW replies \in SUBSET ReplyType, Campaign(n, replies),
           applied' \in [Node -> Nat]
    PROVE  TypeInv'
<1> DEFINE body == [type |-> "Campaign", lastIndex |-> Len(log[n]),
                    lastTerm |-> LastTerm(log[n])]
<1>1. term[n] \in Nat /\ term[n] + 1 \in Nat /\ log[n] \in Log /\ Len(log[n]) \in Nat
    BY DEF TypeInv, TypeOK, Log
<1>2. body \in Body
    BY <1>1, TermAtType DEF Body, LastTerm
<1> HIDE DEF body
<1>3. Broadcast(n, term[n] + 1, body) \subseteq Envelope
    BY <1>1, <1>2, BroadcastType
<1>4. msgs' \subseteq Envelope
    BY <1>3, SendSubset DEF Campaign, TypeInv, TypeOK, body
<1>5. client' \in [Request -> ClientView]
    BY AnswerType DEF Campaign, TypeInv, TypeOK
<1>6. term' \in [Node -> Nat] /\ term'[n] > 0
    BY <1>1 DEF Campaign, TypeInv, TypeOK
<1>7. vote' \in [Node -> Node \cup {NoNode}] /\ log' \in [Node -> Log]
        /\ commit' \in [Node -> Nat] /\ panics' \subseteq Assertion /\ restarts' \in Nat
    BY DEF Campaign, TypeInv, TypeOK
<1>8. Candidate({n}) \in Role(n)
    BY RoleConstructors
<1>9. DOMAIN role' = Node /\ \A k \in Node : role'[k] \in Role(k)
    BY <1>8 DEF Campaign, TypeInv, TypeOK
<1>10. ActiveTerm'
    BY <1>6 DEF Campaign, TypeInv, TypeOK, ActiveTerm
<1> QED BY <1>4, <1>5, <1>6, <1>7, <1>9, <1>10 DEF TypeInv, TypeOK

\* Elections and heartbeats keep the types.
LEMMA ElectionActionsType ==
    ASSUME TypeInv, NEW n \in Node,
           \/ FollowerTimeout(n) \/ CandidateTimeout(n) \/ HeartbeatTick(n)
           \/ \E m \in msgs : RefuseVote(n, m) \/ RecordVote(n, m) \/ BecomeLeader(n, m)
                                \/ Ignore(n, m)
    PROVE  TypeInv'
<1>1. term[n] \in Nat /\ log[n] \in Log /\ Len(log[n]) \in Nat /\ commit[n] \in Nat
        /\ client \in [Request -> ClientView] /\ msgs \subseteq Envelope
    BY DEF TypeInv, TypeOK, Log
<1>2. CASE FollowerTimeout(n)
  <2>1. Campaign(n, Aborted(n)) /\ applied' \in [Node -> Nat]
    BY <1>1, <1>2 DEF FollowerTimeout, TypeInv, TypeOK, Max2
  <2> QED BY <2>1, AbortedType, CampaignType DEF TypeInv
<1>3. CASE CandidateTimeout(n)
  <2>1. Campaign(n, {}) /\ applied' \in [Node -> Nat]
    BY <1>3 DEF CandidateTimeout, TypeInv, TypeOK
  <2>2. {} \in SUBSET ReplyType
    OBVIOUS
  <2> QED BY <2>1, <2>2, CampaignType
<1>4. CASE HeartbeatTick(n)
  <2>1. HeartbeatBody(log[n], commit[n], role[n].readSeq) \in Body
    BY <1>1, <1>4, LeaderFields DEF HeartbeatTick, HeartbeatBody, Body
  <2>2. Broadcast(n, term[n], HeartbeatBody(log[n], commit[n], role[n].readSeq))
          \subseteq Envelope
    BY <1>1, <2>1, BroadcastType
  <2>3. msgs' \subseteq Envelope
    BY <1>1, <1>4, <2>2, SendSubset DEF HeartbeatTick
  <2> QED BY <1>1, <1>4, <2>3, QuietStepType DEF HeartbeatTick
<1>5. ASSUME NEW m \in msgs, RefuseVote(n, m) PROVE TypeInv'
  <2>1. m.from \in Peers(n) /\ m.term \in Nat
    BY <1>5 DEF RefuseVote, TypeInv, TypeOK, Envelope, Peers
  <2>2. [type |-> "CampaignResponse", vote |-> FALSE] \in Body
    BY DEF Body
  <2>3. Env(n, m.from, m.term, [type |-> "CampaignResponse", vote |-> FALSE]) \in Envelope
    BY <2>1, <2>2, EnvType
  <2>4. msgs' \subseteq Envelope
    BY <1>1, <1>5, <2>3, SendSubset DEF RefuseVote
  <2> QED BY <1>1, <1>5, <2>4, QuietStepType DEF RefuseVote
<1>6. ASSUME NEW m \in msgs, RecordVote(n, m) PROVE TypeInv'
  <2>1. role[n].votes \cup {m.from} \in SUBSET Node
    BY <1>6, RoleFields DEF RecordVote, TypeInv, TypeOK, Envelope
  <2>2. Candidate(role[n].votes \cup {m.from}) \in Role(n)
    BY <2>1, RoleConstructors
  <2>3. msgs' \subseteq Envelope
    BY <1>1, <1>6, SendSubset DEF RecordVote
  <2>4. DOMAIN role' = Node /\ \A k \in Node : role'[k] \in Role(k)
    BY <1>6, <2>2 DEF RecordVote, TypeInv, TypeOK
  <2>5. ActiveTerm'
    BY <1>6 DEF RecordVote, TypeInv, TypeOK, ActiveTerm
  <2> QED BY <1>6, <2>3, <2>4, <2>5 DEF RecordVote, TypeInv, TypeOK
<1>7. ASSUME NEW m \in msgs, BecomeLeader(n, m) PROVE TypeInv'
  <2> DEFINE l == Append(log[n], [term |-> term[n], command |-> Noop])
             new == [p \in Peers(n) |-> [match |-> 0, next |-> Len(log[n]) + 1, readSeq |-> 0]]
             out == Propose(l, new)
             progress == [p \in Peers(n) |-> out[p].progress]
             heartbeats == Broadcast(n, term[n], HeartbeatBody(l, commit[n], 0))
  <2>1. [term |-> term[n], command |-> Noop] \in Entry
    BY <1>1 DEF Entry
  <2>2. l \in Log /\ Len(l) \in Nat
    BY <1>1, <2>1 DEF Log
  <2>3. new \in [Peers(n) -> Progress]
    BY <1>1 DEF Progress
  <2>4. /\ log' = [log EXCEPT ![n] = l]
        /\ role' = [role EXCEPT ![n] = Leader(progress, {}, {}, 0)]
        /\ Send(msgs \ {m}, ProposalMsgs(n, term[n], out) \cup heartbeats)
        /\ UNCHANGED <<term, vote, commit, applied, client, panics, restarts>>
        /\ role[n].kind = "candidate"
    BY <1>7 DEF BecomeLeader
  <2> HIDE DEF l, new
  <2>5. progress \in [Peers(n) -> Progress] /\ ProposalMsgs(n, term[n], out) \subseteq Envelope
    BY <1>1, <2>2, <2>3, ProposeType
  <2> HIDE DEF out, progress
  <2>6. HeartbeatBody(l, commit[n], 0) \in Body
    BY <1>1, <2>2 DEF HeartbeatBody, Body
  <2>7. heartbeats \subseteq Envelope
    BY <1>1, <2>6, BroadcastType
  <2> HIDE DEF heartbeats
  <2>8. msgs' \subseteq Envelope
    BY <1>1, <2>4, <2>5, <2>7, SendSubset
  <2>9. Leader(progress, {}, {}, 0) \in Role(n)
    BY <2>5, RoleConstructors
  <2>10. DOMAIN role' = Node /\ \A k \in Node : role'[k] \in Role(k)
    BY <2>4, <2>9 DEF TypeInv, TypeOK
  <2>11. log' \in [Node -> Log]
    BY <2>2, <2>4 DEF TypeInv, TypeOK
  <2>12. ActiveTerm'
    BY <2>4 DEF TypeInv, TypeOK, ActiveTerm
  <2> QED BY <2>4, <2>8, <2>10, <2>11, <2>12 DEF TypeInv, TypeOK
<1>8. ASSUME NEW m \in msgs, Ignore(n, m) PROVE TypeInv'
  <2>1. msgs' \subseteq Envelope
    BY <1>1, <1>8, SendSubset DEF Ignore
  <2> QED BY <1>1, <1>8, <2>1, QuietStepType DEF Ignore
<1> QED BY <1>2, <1>3, <1>4, <1>5, <1>6, <1>7, <1>8

\* A step that only changes the role of n to another well-typed role of the same
\* kind, its log, messages and clients.
LEMMA RequestStepType ==
    ASSUME TypeInv, NEW n \in Node, NEW r \in Role(n), r.kind = role[n].kind,
           role' = [role EXCEPT ![n] = r], log' \in [Node -> Log],
           UNCHANGED <<term, vote, commit, applied, panics, restarts>>,
           msgs' \subseteq Envelope, client' \in [Request -> ClientView]
    PROVE  TypeInv'
<1>1. DOMAIN role' = Node /\ \A k \in Node : role'[k] \in Role(k)
    BY DEF TypeInv, TypeOK
<1>2. ActiveTerm'
    BY DEF TypeInv, TypeOK, ActiveTerm
<1> QED BY <1>1, <1>2 DEF TypeInv, TypeOK

\* Stepping a client request keeps the types.
LEMMA StepRequestType ==
    ASSUME TypeInv, NEW n \in Node, NEW from \in Node, NEW id \in Request,
           NEW cl \in [Request -> ClientView], NEW rest \in SUBSET Envelope,
           StepRequest(n, from, id, cl, rest)
    PROVE  TypeInv'
<1>1. term[n] \in Nat /\ log[n] \in Log /\ Len(log[n]) \in Nat /\ log \in [Node -> Log]
        /\ role[n] \in Role(n)
    BY DEF TypeInv, TypeOK, Log
<1>2. UNCHANGED <<term, vote, commit, applied, panics, restarts>>
    BY DEF StepRequest
<1>3. \A status \in {"ok", "abort"} : {Reply(from, id, status, {})} \in SUBSET ReplyType
    BY DEF Reply, ReplyType
<1>4. \A status \in {"ok", "abort"} :
         /\ ReplyMsgs(n, term[n], {Reply(from, id, status, {})}) \subseteq Envelope
         /\ Answer(cl, n, {Reply(from, id, status, {})}) \in [Request -> ClientView]
    BY <1>1, <1>3, ReplyMsgsType, AnswerType
<1>5. CASE AbortRequest(n, from, id, cl, rest) \/ ServeStatus(n, from, id, cl, rest)
  <2>1. PICK status \in {"ok", "abort"} :
            /\ Send(rest, ReplyMsgs(n, term[n], {Reply(from, id, status, {})}))
            /\ client' = Answer(cl, n, {Reply(from, id, status, {})})
            /\ UNCHANGED <<log, role>>
    BY <1>5 DEF AbortRequest, ServeStatus
  <2>2. msgs' \subseteq Envelope
    BY <1>4, <2>1, SendSubset
  <2> QED BY <1>2, <1>4, <2>1, <2>2, QuietStepType
<1>6. CASE ForwardRequest(n, from, id, cl, rest)
  <2> DEFINE r == Follower(role[n].leader, role[n].forwarded \cup {id})
  <2>1. role[n].leader \in Peers(n) /\ role[n].forwarded \in SUBSET Request
    BY <1>1, <1>6, RoleFields DEF ForwardRequest, FollowerRole
  <2>2. r \in Role(n)
    BY <2>1, RoleConstructors
  <2>3. r.kind = role[n].kind /\ role' = [role EXCEPT ![n] = r] /\ log' = log /\ client' = cl
    BY <1>6 DEF ForwardRequest, Follower
  <2>4. [type |-> "ClientRequest", id |-> id] \in Body
    BY DEF Body
  <2>5. Env(n, role[n].leader, term[n], [type |-> "ClientRequest", id |-> id]) \in Envelope
    BY <1>1, <2>1, <2>4, EnvType
  <2>6. msgs' \subseteq Envelope
    BY <1>6, <2>5, SendSubset DEF ForwardRequest
  <2> HIDE DEF r
  <2> QED BY <1>1, <1>2, <2>2, <2>3, <2>6, RequestStepType
<1>7. CASE ProposeWrite(n, from, id, cl, rest)
  <2> DEFINE l == Append(log[n], [term |-> term[n], command |-> id])
             out == Propose(l, role[n].progress)
             progress == [p \in Peers(n) |-> out[p].progress]
             writes == role[n].writes \cup {[index |-> Len(l), from |-> from, id |-> id]}
             r == Leader(progress, writes, role[n].reads, role[n].readSeq)
  <2>1. id \in Write /\ role[n].kind = "leader"
    BY <1>7 DEF ProposeWrite
  <2>2. [term |-> term[n], command |-> id] \in Entry
    BY <1>1, <2>1 DEF Entry
  <2>3. l \in Log /\ Len(l) \in Nat
    BY <1>1, <2>2 DEF Log
  <2>4. log' = [log EXCEPT ![n] = l] /\ role' = [role EXCEPT ![n] = r]
          /\ Send(rest, ProposalMsgs(n, term[n], out)) /\ client' = cl
    BY <1>7 DEF ProposeWrite
  <2> HIDE DEF l
  <2>5. progress \in [Peers(n) -> Progress] /\ ProposalMsgs(n, term[n], out) \subseteq Envelope
    BY <1>1, <2>1, <2>3, ProposeType, LeaderFields
  <2> HIDE DEF out, progress
  <2>6. writes \in SUBSET [index : Nat, from : Node, id : Write]
    BY <2>1, <2>3, LeaderFields
  <2> HIDE DEF writes
  <2>7. r \in Role(n)
    BY <2>1, <2>5, <2>6, LeaderFields, RoleConstructors
  <2>8. r.kind = role[n].kind
    BY <2>1 DEF Leader
  <2> HIDE DEF r
  <2>9. msgs' \subseteq Envelope /\ log' \in [Node -> Log]
    BY <1>1, <2>3, <2>4, <2>5, SendSubset
  <2> QED BY <1>2, <2>4, <2>7, <2>8, <2>9, RequestStepType
<1>8. CASE QueueRead(n, from, id, cl, rest)
  <2> DEFINE seq == role[n].readSeq + 1
             reads == role[n].reads \cup {[seq |-> seq, from |-> from, id |-> id]}
             r == Leader(role[n].progress, role[n].writes, reads, seq)
  <2>1. id \in Read /\ role[n].kind = "leader"
    BY <1>8 DEF QueueRead
  <2>2. seq \in Nat
    BY <2>1, LeaderFields
  <2>3. role' = [role EXCEPT ![n] = r] /\ client' = cl /\ log' = log
          /\ Send(rest, Broadcast(n, term[n], [type |-> "Read", seq |-> seq]))
    BY <1>8 DEF QueueRead
  <2> HIDE DEF seq
  <2>4. reads \in SUBSET [seq : Nat, from : Node, id : Read]
    BY <2>1, <2>2, LeaderFields
  <2> HIDE DEF reads
  <2>5. r \in Role(n)
    BY <2>1, <2>2, <2>4, LeaderFields, RoleConstructors
  <2>6. r.kind = role[n].kind
    BY <2>1 DEF Leader
  <2> HIDE DEF r
  <2>7. [type |-> "Read", seq |-> seq] \in Body
    BY <2>2 DEF Body
  <2>8. Broadcast(n, term[n], [type |-> "Read", seq |-> seq]) \subseteq Envelope
    BY <1>1, <2>7, BroadcastType
  <2>9. msgs' \subseteq Envelope
    BY <2>3, <2>8, SendSubset
  <2> QED BY <1>1, <1>2, <2>3, <2>5, <2>6, <2>9, RequestStepType
<1> QED BY <1>5, <1>6, <1>7, <1>8 DEF StepRequest

\* Submitted and forwarded requests, panics and restarts keep the types.
LEMMA OtherActionsType ==
    ASSUME TypeInv, NEW n \in Node,
           \/ Restart(n) \/ \E id \in Request : SubmitRequest(n, id)
           \/ \E m \in msgs : HandleClientRequest(n, m) \/ Panic(n, m)
    PROVE  TypeInv'
<1>1. ASSUME NEW id \in Request, SubmitRequest(n, id) PROVE TypeInv'
  <2> DEFINE cl == [client EXCEPT ![id] = [status |-> "pending", seen |-> Known,
                                           value |-> {}]]
  <2>1. Known \in SUBSET Write
    BY DEF Known, TypeInv, TypeOK, ClientView, Request
  <2>2. [status |-> "pending", seen |-> Known, value |-> {}] \in ClientView
    BY <2>1 DEF ClientView
  <2>3. cl \in [Request -> ClientView]
    BY <2>2 DEF TypeInv, TypeOK
  <2>4. msgs \in SUBSET Envelope /\ StepRequest(n, n, id, cl, msgs)
    BY <1>1 DEF SubmitRequest, TypeInv, TypeOK
  <2> HIDE DEF cl
  <2> QED BY <2>3, <2>4, StepRequestType
<1>2. ASSUME NEW m \in msgs, HandleClientRequest(n, m) PROVE TypeInv'
  <2>1. m.from \in Node /\ m.body \in Body /\ m.body.type = "ClientRequest"
    BY <1>2 DEF HandleClientRequest, TypeInv, TypeOK, Envelope
  <2>2. m.body.id \in Request
    BY <2>1, BodyFields
  <2>3. msgs \ {m} \in SUBSET Envelope /\ client \in [Request -> ClientView]
    BY DEF TypeInv, TypeOK
  <2>4. StepRequest(n, m.from, m.body.id, client, msgs \ {m})
    BY <1>2 DEF HandleClientRequest
  <2> QED BY <2>1, <2>2, <2>3, <2>4, StepRequestType
<1>3. ASSUME NEW m \in msgs, Panic(n, m) PROVE TypeInv'
  <2>1. m.term \in Nat
    BY DEF TypeInv, TypeOK, Envelope
  <2>2. term' \in [Node -> Nat] /\ vote' \in [Node -> Node \cup {NoNode}]
    BY <1>3, <2>1, FollowerInType DEF Panic, TypeInv, TypeOK
  <2>3. DOMAIN role' = Node /\ \A k \in Node : role'[k] \in Role(k)
    BY <1>3, RoleConstructors DEF Panic, TypeInv, TypeOK
  <2>4. msgs' \subseteq Envelope
    BY <1>3, SendSubset DEF Panic, TypeInv, TypeOK
  <2>5. Panics(n, m) \subseteq Assertion
    BY DEF Panics, Assertion
  <2>6. panics' \subseteq Assertion
    BY <1>3, <2>5 DEF Panic, TypeInv, TypeOK
  <2>7. ActiveTerm'
    BY <1>3 DEF Panic, TypeInv, TypeOK, ActiveTerm, Down
  <2> QED BY <1>3, <2>2, <2>3, <2>4, <2>6, <2>7 DEF Panic, TypeInv, TypeOK
<1>4. CASE Restart(n)
  <2>1. NoNode \in Peers(n) \cup {NoNode} /\ {} \in SUBSET Request
    OBVIOUS
  <2>2. Follower(NoNode, {}) \in Role(n)
    BY <2>1, RoleConstructors
  <2>3. DOMAIN role' = Node /\ \A k \in Node : role'[k] \in Role(k)
    BY <1>4, <2>2 DEF Restart, TypeInv, TypeOK
  <2>4. commit' \in [Node -> Nat] /\ applied' \in [Node -> Nat] /\ restarts' \in Nat
    BY <1>4 DEF Restart, TypeInv, TypeOK, Max2
  <2>5. ActiveTerm'
    BY <1>4 DEF Restart, TypeInv, TypeOK, ActiveTerm, Follower
  <2> QED BY <1>4, <2>3, <2>4, <2>5 DEF Restart, TypeInv, TypeOK
<1> QED BY <1>1, <1>2, <1>3, <1>4

-----------------------------------------------------------------------------
\* Every step of Next keeps the types.
LEMMA TypeInvStep ==
    ASSUME TypeInv, [Next]_vars
    PROVE  TypeInv'
<1>1. CASE UNCHANGED vars
    BY <1>1 DEF vars, TypeInv, TypeOK, ActiveTerm
<1>2. ASSUME NEW n \in Node, NEW m \in msgs, Receive(n, m) PROVE TypeInv'
    BY <1>2, FollowerActionsType, LeaderActionsType, ElectionActionsType, OtherActionsType
       DEF Receive
<1>3. ASSUME NEW n \in Node,
             \/ FollowerTimeout(n) \/ CandidateTimeout(n) \/ HeartbeatTick(n)
             \/ Restart(n) \/ \E id \in Request : SubmitRequest(n, id)
      PROVE  TypeInv'
    BY <1>3, ElectionActionsType, OtherActionsType
<1> QED BY <1>1, <1>2, <1>3 DEF Next

\* Node::new starts every node in a well-typed state.
LEMMA TypeInvInit == Init => TypeInv
<1> SUFFICES ASSUME Init PROVE TypeInv
    OBVIOUS
<1>1. \A n \in Node : Follower(NoNode, {}) \in Role(n)
    BY DEF Role, Follower
<1>2. <<>> \in Log
    BY DEF Log
<1>3. [status |-> "idle", seen |-> {}, value |-> {}] \in ClientView
    BY DEF ClientView
<1>4. ActiveTerm
    BY DEF Init, ActiveTerm, Follower
<1> QED BY <1>1, <1>2, <1>3, <1>4 DEF Init, TypeInv, TypeOK

\* In every behaviour of the Raft nodes all of their state keeps the shape that
\* the Rust types give it: no step of Node::step, Node::tick or Node::new builds
\* an ill-formed role, envelope, log or client response.
THEOREM TypeCorrect == Spec => []TypeOK
<1>1. Init => TypeInv
    BY TypeInvInit
<1>2. TypeInv /\ [Next]_vars => TypeInv'
    BY TypeInvStep
<1>3. TypeInv => TypeOK
    BY DEF TypeInv
<1> QED BY <1>1, <1>2, <1>3, PTL DEF Spec

-----------------------------------------------------------------------------
(* Election safety.                                                        *)
(*                                                                         *)
(* A node supports another in a term when it has granted it its vote: the  *)
(* response is in flight, or the candidate has counted it.  The support of *)
(* a node in a term is for one candidate only, because the vote is kept    *)
(* with the term.  When a leader is elected its votes are forgotten, and   *)
(* so may be theirs by the voters that move to a later term: what remains  *)
(* true is that a quorum can no longer support anyone else in that term.   *)

IsGrant(m) == m.body.type = "CampaignResponse" /\ m.body.vote

Granted(a, n, t) == \E m \in msgs : IsGrant(m) /\ m.from = a /\ m.to = n /\ m.term = t

Counted(a, n, t) == role[n].kind = "candidate" /\ term[n] = t /\ a \in role[n].votes

Supports(a, n, t) == Granted(a, n, t) \/ Counted(a, n, t)

\* Node a has voted for n in term t, or can no longer vote in it.
VotedFor(a, n, t) == term[a] > t \/ (term[a] = t /\ vote[a] = n)

\* Node a has voted for n in term t, and for nobody else.
Backs(a, n, t) == VotedFor(a, n, t) /\ \A p \in Node : Supports(a, p, t) => p = n

\* Support comes from votes, and is for one candidate per term.
SupportInv ==
    \A a, n \in Node, t \in Nat : Supports(a, n, t) => Backs(a, n, t)

\* Every leader was elected by a quorum that backs it in its term.
QuorumInv ==
    \A n \in Node : IsLeader(n) =>
        \E Q \in SUBSET Node : IsQuorum(Q) /\ \A a \in Q : Backs(a, n, term[n])

ElectionInv == SupportInv /\ QuorumInv /\ ElectionSafety

-----------------------------------------------------------------------------
(* What a step of node n does to votes, support and leadership.            *)

\* Node n votes for itself, or for a node whose campaign it has received and whose
\* log is at least as complete as its own.
Hears(n, p) ==
    \/ p = n
    \/ \E m \in msgs :
          /\ m.body.type = "Campaign" /\ m.from = p /\ m.term = term'[n]
          /\ \/ LastTerm(log[n]) < m.body.lastTerm
             \/ LastTerm(log[n]) = m.body.lastTerm /\ Len(log[n]) <= m.body.lastIndex

ElectionStep(n) ==
    /\ \A a \in Node \ {n} : term'[a] = term[a] /\ vote'[a] = vote[a] /\ role'[a] = role[a]
    /\ term'[n] >= term[n]
    /\ term'[n] = term[n] /\ vote[n] # NoNode => vote'[n] = vote[n]
    /\ \A a, p \in Node, t \in Nat : Supports(a, p, t)' =>
          Supports(a, p, t) \/ (a = n /\ t = term'[n] /\ vote'[n] = p /\ Hears(n, p))
    /\ role'[n].kind = "leader" =>
          /\ term'[n] = term[n]
          /\ \/ role[n].kind = "leader"
             \/ \E Q \in SUBSET Node : IsQuorum(Q) /\ \A a \in Q : Supports(a, n, term[n])

\* Two quorums of a cluster share a node.
LEMMA QuorumsIntersect ==
    ASSUME NEW Q1 \in SUBSET Node, NEW Q2 \in SUBSET Node, IsQuorum(Q1), IsQuorum(Q2)
    PROVE  \E a \in Node : a \in Q1 /\ a \in Q2
<1>1. /\ Cardinality(Q1) \in Nat /\ Cardinality(Q2) \in Nat /\ Cardinality(Node) \in Nat
      /\ IsFiniteSet(Node)
    BY NodeAssumption, FS_Subset, FS_CardinalityType
<1>2. Cardinality(Q1) + Cardinality(Q2) > Cardinality(Node)
    BY <1>1 DEF IsQuorum
<1>3. Q1 \cap Q2 # {}
    BY <1>1, <1>2, FS_MajoritiesIntersect
<1> QED BY <1>3

\* A step of this kind keeps backers: no new support contradicts a vote.
LEMMA BacksStep ==
    ASSUME TypeInv, TypeInv', NEW n \in Node, ElectionStep(n),
           NEW a \in Node, NEW p \in Node, NEW t \in Nat, Backs(a, p, t)
    PROVE  Backs(a, p, t)'
<1>1. term[a] \in Nat /\ term'[a] \in Nat /\ p # NoNode
    BY NodeAssumption DEF TypeInv, TypeOK
<1>2. VotedFor(a, p, t)'
    BY <1>1 DEF ElectionStep, Backs, VotedFor
<1>3. ASSUME NEW q \in Node, Supports(a, q, t)' PROVE q = p
  <2>1. CASE Supports(a, q, t)
    BY <2>1 DEF Backs
  <2>2. CASE a = n /\ t = term'[n] /\ vote'[n] = q
    BY <1>1, <2>2 DEF ElectionStep, Backs, VotedFor
  <2> QED BY <1>3, <2>1, <2>2 DEF ElectionStep
<1> QED BY <1>2, <1>3 DEF Backs

\* A step of this kind keeps the election invariant.
LEMMA ElectionInvStep ==
    ASSUME TypeInv, TypeInv', ElectionInv, NEW n \in Node, ElectionStep(n)
    PROVE  ElectionInv'
<1>1. ASSUME NEW a \in Node, NEW p \in Node, NEW t \in Nat, Supports(a, p, t)'
      PROVE  Backs(a, p, t)'
  <2>1. CASE Supports(a, p, t)
    BY <2>1, BacksStep DEF ElectionInv, SupportInv
  <2>2. CASE a = n /\ t = term'[n] /\ vote'[n] = p
    <3>1. term[n] \in Nat /\ term'[n] \in Nat /\ p # NoNode
      BY NodeAssumption DEF TypeInv, TypeOK
    <3>2. VotedFor(a, p, t)'
      BY <2>2, <3>1 DEF VotedFor
    <3>3. ASSUME NEW q \in Node, Supports(a, q, t)' PROVE q = p
      <4>1. CASE Supports(a, q, t)
        <5>1. Backs(a, q, t)
          BY <4>1 DEF ElectionInv, SupportInv
        <5>2. Backs(a, q, t)'
          BY <5>1, BacksStep
        <5> QED BY <1>1, <5>2 DEF Backs
      <4>2. CASE vote'[n] = q
        BY <2>2, <4>2
      <4> QED BY <3>3, <4>1, <4>2 DEF ElectionStep
    <3> QED BY <3>2, <3>3 DEF Backs
  <2> QED BY <1>1, <2>1, <2>2 DEF ElectionStep
<1>2. SupportInv'
    BY <1>1 DEF SupportInv
<1>3. ASSUME NEW l \in Node, IsLeader(l)'
      PROVE  /\ term'[l] = term[l]
             /\ \E Q \in SUBSET Node : IsQuorum(Q) /\ \A a \in Q : Backs(a, l, term[l])
             /\ l # n => IsLeader(l)
  <2>1. CASE l # n
    BY <1>3, <2>1 DEF ElectionStep, IsLeader, ElectionInv, QuorumInv
  <2>2. CASE l = n /\ role[n].kind = "leader"
    BY <1>3, <2>2 DEF ElectionStep, IsLeader, ElectionInv, QuorumInv
  <2>3. CASE l = n /\ \E Q \in SUBSET Node :
                         IsQuorum(Q) /\ \A a \in Q : Supports(a, n, term[n])
    <3>1. PICK Q \in SUBSET Node : IsQuorum(Q) /\ \A a \in Q : Supports(a, n, term[n])
      BY <2>3
    <3>2. term[n] \in Nat
      BY DEF TypeInv, TypeOK
    <3>3. \A a \in Q : Backs(a, n, term[n])
      BY <3>1, <3>2 DEF ElectionInv, SupportInv
    <3> QED BY <1>3, <2>3, <3>1, <3>3 DEF ElectionStep, IsLeader
  <2> QED BY <1>3, <2>1, <2>2, <2>3 DEF ElectionStep, IsLeader
<1>4. QuorumInv'
  <2> SUFFICES ASSUME NEW l \in Node, IsLeader(l)'
               PROVE  (\E Q \in SUBSET Node :
                          IsQuorum(Q) /\ \A a \in Q : Backs(a, l, term[l]))'
    BY DEF QuorumInv
  <2>1. PICK t \in Nat : t = term[l] /\ t = term'[l]
    BY <1>3 DEF TypeInv, TypeOK
  <2>2. PICK Q \in SUBSET Node : IsQuorum(Q) /\ \A a \in Q : Backs(a, l, t)
    BY <1>3, <2>1
  <2>3. \A a \in Q : Backs(a, l, t)'
    BY <2>2, BacksStep
  <2>4. IsQuorum(Q)'
    BY <2>2 DEF IsQuorum
  <2> QED BY <2>1, <2>3, <2>4
<1>5. ElectionSafety'
  <2> SUFFICES ASSUME NEW k \in Node, NEW l \in Node, IsLeader(k)', IsLeader(l)',
                      term'[k] = term'[l]
               PROVE  k = l
    BY DEF ElectionSafety
  <2>1. term[k] = term[l]
    BY <1>3
  <2>2. CASE IsLeader(k) /\ IsLeader(l)
    BY <2>1, <2>2 DEF ElectionInv, ElectionSafety
  <2>3. ASSUME NEW x \in Node, NEW y \in Node, IsLeader(x)', IsLeader(y)',
               term[x] = term[y], x = n, ~IsLeader(x), y # x
        PROVE  FALSE
    <3>1. PICK Q \in SUBSET Node : IsQuorum(Q) /\ \A a \in Q : Supports(a, x, term[x])
      BY <2>3 DEF ElectionStep, IsLeader
    <3>2. PICK R \in SUBSET Node : IsQuorum(R) /\ \A a \in R : Backs(a, y, term[y])
      BY <1>3, <2>3
    <3>3. PICK a \in Node : a \in Q /\ a \in R
      BY <3>1, <3>2, QuorumsIntersect
    <3> QED BY <2>3, <3>1, <3>2, <3>3 DEF Backs
  <2> QED BY <1>3, <2>1, <2>2, <2>3
<1> QED BY <1>2, <1>4, <1>5 DEF ElectionInv

-----------------------------------------------------------------------------
(* Every action is such a step.  Messages first: only a response to a      *)
(* campaign can carry a vote.                                              *)

NoGrants(S) == \A m \in S : ~IsGrant(m)

\* Client responses, heartbeats, appends and reads carry no votes.
LEMMA OtherMessages ==
    ASSUME NEW n, NEW t
    PROVE  /\ \A R : NoGrants(ReplyMsgs(n, t, R))
           /\ \A b : b.type # "CampaignResponse" => NoGrants(Broadcast(n, t, b))
           /\ \A l, progress : NoGrants(ProposalMsgs(n, t, Propose(l, progress)))
<1>1. \A R : NoGrants(ReplyMsgs(n, t, R))
    BY DEF NoGrants, IsGrant, ReplyMsgs, Env
<1>2. \A b : b.type # "CampaignResponse" => NoGrants(Broadcast(n, t, b))
    BY DEF NoGrants, IsGrant, Broadcast, Env
<1>3. \A l, pr, probe : \A b \in MaybeSendAppend(l, pr, probe).bodies : b.type = "Append"
    BY DEF MaybeSendAppend
<1>4. \A l, progress : \A p \in DOMAIN progress :
         \A b \in Propose(l, progress)[p].bodies : b.type = "Append"
    BY <1>3 DEF Propose
<1>5. \A l, progress : NoGrants(ProposalMsgs(n, t, Propose(l, progress)))
  <2> TAKE l, progress
  <2>1. DOMAIN Propose(l, progress) = DOMAIN progress
    BY DEF Propose
  <2> QED BY <1>4, <2>1 DEF NoGrants, IsGrant, ProposalMsgs, Env
<1> QED BY <1>1, <1>2, <1>5

\* Without a vote among the messages sent, nobody is granted one.
LEMMA NoNewGrants ==
    ASSUME NEW sent, msgs' \subseteq msgs \cup sent, NoGrants(sent),
           NEW a, NEW p, NEW t, Granted(a, p, t)'
    PROVE  Granted(a, p, t)
BY DEF Granted, NoGrants, IsGrant

OthersKept(n) ==
    \A a \in Node \ {n} : term'[a] = term[a] /\ vote'[a] = vote[a] /\ role'[a] = role[a]

\* Steps of node n that send no vote and in which n does not become a leader or
\* a candidate with more votes: at most they adopt a later term, without a vote.
LEMMA PlainStep ==
    ASSUME NEW n \in Node, OthersKept(n),
           NEW sent, msgs' \subseteq msgs \cup sent, NoGrants(sent),
           term'[n] >= term[n], term'[n] = term[n] => vote'[n] = vote[n],
           role'[n].kind = "candidate" => role'[n] = role[n] /\ term'[n] = term[n],
           role'[n].kind = "leader" => role[n].kind = "leader" /\ term'[n] = term[n]
    PROVE  ElectionStep(n)
<1>1. ASSUME NEW a \in Node, NEW p \in Node, NEW u \in Nat, Supports(a, p, u)'
      PROVE  Supports(a, p, u)
  <2>1. CASE Granted(a, p, u)'
    BY <2>1, NoNewGrants DEF Supports
  <2>2. CASE Counted(a, p, u)'
    BY <2>2 DEF Supports, Counted, OthersKept
  <2> QED BY <1>1, <2>1, <2>2 DEF Supports
<1> QED BY <1>1 DEF ElectionStep, OthersKept

\* A step as a follower that sends no vote.
LEMMA EndAsFollowerStep ==
    ASSUME TypeInv, NEW n \in Node, NEW m \in msgs, m.term >= term[n], NEW r,
           r.kind = "follower", NEW sent, NoGrants(sent), NEW replies,
           EndAsFollower(n, m, VoteIn(n, m), r, sent, replies)
    PROVE  ElectionStep(n)
<1>1. n \in DOMAIN term /\ n \in DOMAIN vote /\ n \in DOMAIN role
    BY DEF TypeInv, TypeOK
<1>2. OthersKept(n)
    BY DEF OthersKept, EndAsFollower, TypeInv, TypeOK
<1>3. term'[n] = m.term /\ vote'[n] = VoteIn(n, m) /\ role'[n] = r
    BY <1>1 DEF EndAsFollower
<1> DEFINE all == sent \cup ReplyMsgs(n, term[n], AbortedBy(n, m))
<1>4. NoGrants(all)
    BY OtherMessages DEF NoGrants
<1>5. msgs' \subseteq msgs \cup all
    BY SendSubset DEF EndAsFollower
<1>6. m.term \in Nat /\ term[n] \in Nat
    BY DEF TypeInv, TypeOK, Envelope
<1>7. term'[n] = term[n] => vote'[n] = vote[n]
    BY <1>3, <1>6 DEF VoteIn
<1> HIDE DEF all
<1> QED BY <1>2, <1>3, <1>4, <1>5, <1>7, PlainStep

\* Followers of a leader, and followers that ignore a message, send no vote.
LEMMA FollowerSteps ==
    ASSUME TypeInv, NEW n \in Node, NEW m \in msgs,
           \/ HandleHeartbeat(n, m) \/ HandleAppend(n, m) \/ HandleRead(n, m)
           \/ HandleClientResponse(n, m) \/ IgnoreVote(n, m)
    PROVE  ElectionStep(n)
<1>1. m.term \in Nat /\ term[n] \in Nat /\ m.term >= term[n]
    BY DEF TypeInv, TypeOK, Envelope, HandleHeartbeat, HandleAppend, HandleRead,
           HandleClientResponse, IgnoreVote, StepsAsFollower
<1>2. ASSUME NEW b, b.type # "CampaignResponse", FollowAndRespond(n, m, b)
      PROVE  ElectionStep(n)
  <2>1. NoGrants({Env(n, m.from, m.term, b)})
    BY <1>2 DEF NoGrants, IsGrant, Env
  <2>2. \A f : Follower(m.from, f).kind = "follower"
    BY DEF Follower
  <2> QED BY <1>1, <1>2, <2>1, <2>2, EndAsFollowerStep DEF FollowAndRespond
<1>3. CASE HandleHeartbeat(n, m)
    BY <1>2, <1>3 DEF HandleHeartbeat
<1>4. CASE HandleAppend(n, m)
    BY <1>2, <1>4 DEF HandleAppend
<1>5. CASE HandleRead(n, m)
    BY <1>2, <1>5 DEF HandleRead
<1>6. NoGrants({})
    BY DEF NoGrants
<1>7. CASE HandleClientResponse(n, m)
  <2>1. PICK f, replies :
          EndAsFollower(n, m, VoteIn(n, m), Follower(m.from, f), {}, replies)
    BY <1>7 DEF HandleClientResponse
  <2>2. Follower(m.from, f).kind = "follower"
    BY DEF Follower
  <2> QED BY <1>1, <1>6, <2>1, <2>2, EndAsFollowerStep
<1>8. CASE IgnoreVote(n, m)
  <2>1. FollowerIn(n, m).kind = "follower"
    BY DEF FollowerIn, Follower
  <2> QED BY <1>1, <1>6, <1>8, <2>1, EndAsFollowerStep DEF IgnoreVote
<1> QED BY <1>3, <1>4, <1>5, <1>7, <1>8

\* A granted vote is the vote that the node keeps.
LEMMA HandleCampaignStep ==
    ASSUME TypeInv, NEW n \in Node, NEW m \in msgs, HandleCampaign(n, m)
    PROVE  ElectionStep(n)
<1>1. m.term \in Nat /\ term[n] \in Nat /\ m.term >= term[n] /\ m.from \in Node
    BY DEF TypeInv, TypeOK, Envelope, HandleCampaign, StepsAsFollower
<1> DEFINE grant == GrantsVote(n, m)
           response == Env(n, m.from, m.term, [type |-> "CampaignResponse", vote |-> grant])
           others == ReplyMsgs(n, term[n], AbortedBy(n, m))
<1>2. FollowerIn(n, m).kind = "follower"
    BY DEF FollowerIn, Follower
<1>3. n \in DOMAIN term /\ n \in DOMAIN vote /\ n \in DOMAIN role
    BY DEF TypeInv, TypeOK
<1>4. OthersKept(n)
    BY DEF OthersKept, HandleCampaign, EndAsFollower, TypeInv, TypeOK
<1>5. /\ term'[n] = m.term /\ role'[n].kind = "follower"
      /\ vote'[n] = IF grant THEN m.from ELSE VoteIn(n, m)
      /\ msgs' \subseteq msgs \cup {response} \cup others
  <2>1. Send(msgs \ {m}, {response} \cup others)
    BY DEF HandleCampaign, EndAsFollower
  <2>2. msgs' \subseteq msgs \cup {response} \cup others
    BY <2>1, SendSubset
  <2> QED BY <1>2, <1>3, <2>2 DEF HandleCampaign, EndAsFollower
<1>6. grant => VoteIn(n, m) \in {NoNode, m.from}
    BY DEF GrantsVote
<1>7. NoGrants(others)
    BY OtherMessages
<1>8. grant =>
         /\ m.body.type = "Campaign"
         /\ \/ LastTerm(log[n]) < m.body.lastTerm
            \/ LastTerm(log[n]) = m.body.lastTerm /\ Len(log[n]) <= m.body.lastIndex
    BY DEF GrantsVote, HandleCampaign
<1> HIDE DEF grant, others
<1>9. term'[n] = term[n] /\ vote[n] # NoNode => vote'[n] = vote[n]
    BY <1>1, <1>5, <1>6 DEF VoteIn
<1>10. ASSUME NEW a \in Node, NEW p \in Node, NEW u \in Nat, Supports(a, p, u)'
      PROVE  Supports(a, p, u) \/ (a = n /\ u = term'[n] /\ vote'[n] = p /\ Hears(n, p))
  <2>1. CASE Counted(a, p, u)'
    BY <1>4, <1>5, <2>1 DEF Supports, Counted, OthersKept
  <2>2. CASE Granted(a, p, u)'
    <3>1. PICK e \in msgs' : IsGrant(e) /\ e.from = a /\ e.to = p /\ e.term = u
      BY <2>2 DEF Granted, IsGrant
    <3>2. CASE e \in msgs
      BY <3>1, <3>2 DEF Supports, Granted
    <3>3. CASE e = response
      <4>1. grant /\ a = n /\ p = m.from /\ u = m.term
        BY <3>1, <3>3 DEF IsGrant, Env
      <4>2. Hears(n, m.from)
        BY <1>5, <1>8, <4>1 DEF Hears
      <4> QED BY <1>5, <4>1, <4>2
    <3> QED BY <1>5, <1>7, <3>1, <3>2, <3>3 DEF NoGrants
  <2> QED BY <1>10, <2>1, <2>2 DEF Supports
<1> QED BY <1>1, <1>4, <1>5, <1>9, <1>10 DEF ElectionStep, OthersKept

\* A step that keeps every term and vote and the kind of every role, and sends
\* no vote.
LEMMA SteadyStep ==
    ASSUME TypeInv, NEW n \in Node, UNCHANGED <<term, vote>>, NEW r,
           role' = [role EXCEPT ![n] = r], r.kind = role[n].kind,
           r.kind = "candidate" => r = role[n],
           NEW sent, msgs' \subseteq msgs \cup sent, NoGrants(sent)
    PROVE  ElectionStep(n)
<1>1. OthersKept(n) /\ role'[n] = r /\ term[n] \in Nat
    BY DEF OthersKept, TypeInv, TypeOK
<1> QED BY <1>1, PlainStep

\* Steps that change no role and send no vote.
LEMMA QuietElectionStep ==
    ASSUME TypeInv, NEW n \in Node, UNCHANGED <<term, vote, role>>,
           NEW sent, msgs' \subseteq msgs \cup sent, NoGrants(sent)
    PROVE  ElectionStep(n)
<1>1. OthersKept(n) /\ term[n] \in Nat
    BY DEF OthersKept, TypeInv, TypeOK
<1> QED BY <1>1, PlainStep

\* A leader that steps a message stays one and sends no vote.
LEMMA LeaderSteps ==
    ASSUME TypeInv, NEW n \in Node, NEW m \in msgs,
           \/ HandleHeartbeatResponse(n, m) \/ HandleAppendResponse(n, m)
           \/ HandleAppendReject(n, m) \/ HandleReadResponse(n, m)
    PROVE  ElectionStep(n)
<1>1. role[n].kind = "leader"
    BY DEF HandleHeartbeatResponse, HandleAppendResponse, HandleAppendReject,
           HandleReadResponse, StepsAsLeader
<1>2. \A progress, acked, served : LeaderAfter(n, progress, acked, served).kind = "leader"
    BY DEF LeaderAfter, Leader
<1>3. ASSUME NEW progress, NEW served, NEW sent, NoGrants(sent),
             EndAsLeader(n, m, progress, served, sent)
      PROVE  ElectionStep(n)
  <2> DEFINE all == sent \cup ReplyMsgs(n, term[n], ReadReplies(n, served, applied[n]))
  <2>1. NoGrants(all)
    BY <1>3, OtherMessages DEF NoGrants
  <2>2. msgs' \subseteq msgs \cup all
    BY <1>3, SendSubset DEF EndAsLeader
  <2>3. UNCHANGED <<term, vote>>
          /\ role' = [role EXCEPT ![n] = LeaderAfter(n, progress, {}, served)]
    BY <1>3 DEF EndAsLeader
  <2> HIDE DEF all
  <2> QED BY <1>1, <1>2, <2>1, <2>2, <2>3, SteadyStep
<1>4. ASSUME NEW progress, NEW served, NEW sent, NoGrants(sent),
             EndWithCommit(n, m, progress, served, sent)
      PROVE  ElectionStep(n)
  <2>1. PICK replies, acked, late :
          /\ Send(msgs \ {m}, sent \cup ReplyMsgs(n, term[n], replies))
          /\ role' = [role EXCEPT ![n] = LeaderAfter(n, progress, acked, served \cup late)]
          /\ UNCHANGED <<term, vote>>
    BY <1>4 DEF EndWithCommit
  <2> DEFINE all == sent \cup ReplyMsgs(n, term[n], replies)
  <2>2. NoGrants(all)
    BY <1>4, OtherMessages DEF NoGrants
  <2>3. msgs' \subseteq msgs \cup all
    BY <2>1, SendSubset
  <2> HIDE DEF all
  <2> QED BY <1>1, <1>2, <2>1, <2>2, <2>3, SteadyStep
<1>5. NoGrants({})
    BY DEF NoGrants
<1>6. \A l, pr, probe :
        NoGrants({Env(n, m.from, term[n], b) : b \in MaybeSendAppend(l, pr, probe).bodies})
  <2>1. \A l, pr, probe : \A b \in MaybeSendAppend(l, pr, probe).bodies : b.type = "Append"
    BY DEF MaybeSendAppend
  <2> QED BY <2>1 DEF NoGrants, IsGrant, Env
<1>7. CASE HandleHeartbeatResponse(n, m)
  <2> DEFINE p      == m.from
             old    == role[n].progress
             read   == [old EXCEPT ![p] = AdvanceRead(@, m.body.readSeq)]
             served == IF read # old THEN ReadyReads(n, read, commit[n]) ELSE {}
             back   == RegressNext(read[p], Len(log[n]))
             probe  == MaybeSendAppend(log[n], back, TRUE)
  <2>1. \/ EndAsLeader(n, m, [read EXCEPT ![p] = probe.progress], served,
                       {Env(n, p, term[n], b) : b \in probe.bodies})
        \/ EndAsLeader(n, m, read, served, {})
        \/ EndWithCommit(n, m, [read EXCEPT ![p] = Advance(@, m.body.matchIndex)], served, {})
    BY <1>7 DEF HandleHeartbeatResponse
  <2> HIDE DEF served, back, read
  <2>2. NoGrants({Env(n, p, term[n], b) : b \in probe.bodies})
    BY <1>6
  <2> HIDE DEF probe
  <2> QED BY <1>3, <1>4, <1>5, <2>1, <2>2
<1>8. CASE HandleAppendResponse(n, m)
    BY <1>3, <1>4, <1>6, <1>8 DEF HandleAppendResponse
<1>9. CASE HandleAppendReject(n, m)
    BY <1>3, <1>6, <1>9 DEF HandleAppendReject
<1>10. CASE HandleReadResponse(n, m)
    BY <1>3, <1>5, <1>10 DEF HandleReadResponse
<1> QED BY <1>7, <1>8, <1>9, <1>10

\* Client requests change no vote and no kind of role.
LEMMA RequestSteps ==
    ASSUME TypeInv, NEW n \in Node, NEW from, NEW id, NEW cl, NEW rest,
           rest \subseteq msgs, StepRequest(n, from, id, cl, rest)
    PROVE  ElectionStep(n)
<1>1. UNCHANGED <<term, vote>>
    BY DEF StepRequest
<1>2. CASE AbortRequest(n, from, id, cl, rest) \/ ServeStatus(n, from, id, cl, rest)
  <2>1. PICK R : Send(rest, ReplyMsgs(n, term[n], R)) /\ role' = role
    BY <1>2 DEF AbortRequest, ServeStatus
  <2>2. msgs' \subseteq msgs \cup ReplyMsgs(n, term[n], R)
    BY <2>1, SendSubset
  <2> QED BY <1>1, <2>1, <2>2, OtherMessages, QuietElectionStep
<1>3. CASE ForwardRequest(n, from, id, cl, rest)
  <2> DEFINE e == Env(n, role[n].leader, term[n], [type |-> "ClientRequest", id |-> id])
             r == Follower(role[n].leader, role[n].forwarded \cup {id})
  <2>1. role' = [role EXCEPT ![n] = r] /\ Send(rest, {e}) /\ role[n].kind = "follower"
    BY <1>3 DEF ForwardRequest
  <2>2. NoGrants({e})
    BY DEF NoGrants, IsGrant, Env
  <2>3. msgs' \subseteq msgs \cup {e}
    BY <2>1, SendSubset
  <2>4. r.kind = "follower"
    BY DEF Follower
  <2> HIDE DEF e, r
  <2> QED BY <1>1, <2>1, <2>2, <2>3, <2>4, SteadyStep
<1>4. CASE ProposeWrite(n, from, id, cl, rest)
  <2>1. PICK l, progress, writes :
          /\ Send(rest, ProposalMsgs(n, term[n], Propose(l, role[n].progress)))
          /\ role' = [role EXCEPT ![n] = Leader(progress, writes, role[n].reads,
                                                role[n].readSeq)]
    BY <1>4 DEF ProposeWrite
  <2> DEFINE sent == ProposalMsgs(n, term[n], Propose(l, role[n].progress))
             r == Leader(progress, writes, role[n].reads, role[n].readSeq)
  <2>2. NoGrants(sent)
    BY OtherMessages
  <2>3. msgs' \subseteq msgs \cup sent
    BY <2>1, SendSubset
  <2>4. r.kind = "leader" /\ role[n].kind = "leader"
    BY <1>4 DEF Leader, ProposeWrite
  <2> HIDE DEF sent, r
  <2> QED BY <1>1, <2>1, <2>2, <2>3, <2>4, SteadyStep DEF r
<1>5. CASE QueueRead(n, from, id, cl, rest)
  <2>1. PICK seq, reads :
          /\ Send(rest, Broadcast(n, term[n], [type |-> "Read", seq |-> seq]))
          /\ role' = [role EXCEPT ![n] = Leader(role[n].progress, role[n].writes, reads, seq)]
    BY <1>5 DEF QueueRead
  <2> DEFINE sent == Broadcast(n, term[n], [type |-> "Read", seq |-> seq])
             r == Leader(role[n].progress, role[n].writes, reads, seq)
  <2>2. NoGrants(sent)
    BY OtherMessages
  <2>3. msgs' \subseteq msgs \cup sent
    BY <2>1, SendSubset
  <2>4. r.kind = "leader" /\ role[n].kind = "leader"
    BY <1>5 DEF Leader, QueueRead
  <2> HIDE DEF sent, r
  <2> QED BY <1>1, <2>1, <2>2, <2>3, <2>4, SteadyStep DEF r
<1> QED BY <1>2, <1>3, <1>4, <1>5 DEF StepRequest

\* Timeouts, counted and refused votes, new leaders.
LEMMA ElectionSteps ==
    ASSUME TypeInv, NEW n \in Node,
           \/ FollowerTimeout(n) \/ CandidateTimeout(n) \/ HeartbeatTick(n)
           \/ \E m \in msgs : RefuseVote(n, m) \/ RecordVote(n, m) \/ BecomeLeader(n, m)
                                \/ Ignore(n, m)
    PROVE  ElectionStep(n)
<1>1. n \in DOMAIN term /\ n \in DOMAIN vote /\ n \in DOMAIN role /\ term[n] \in Nat
    BY DEF TypeInv, TypeOK
<1>2. NoGrants({})
    BY DEF NoGrants
<1>3. CASE FollowerTimeout(n) \/ CandidateTimeout(n)
  <2>1. PICK replies : Campaign(n, replies)
    BY <1>3 DEF FollowerTimeout, CandidateTimeout
  <2>2. OthersKept(n)
    BY <2>1 DEF OthersKept, Campaign, TypeInv, TypeOK
  <2>3. term'[n] = term[n] + 1 /\ vote'[n] = n /\ role'[n] = Candidate({n})
    BY <1>1, <2>1 DEF Campaign
  <2> DEFINE sent == Broadcast(n, term[n] + 1, [type |-> "Campaign",
                               lastIndex |-> Len(log[n]), lastTerm |-> LastTerm(log[n])])
  <2>4. msgs' \subseteq msgs \cup sent
    BY <2>1, SendSubset DEF Campaign
  <2>5. NoGrants(sent)
    BY OtherMessages
  <2> HIDE DEF sent
  <2>6. ASSUME NEW a \in Node, NEW p \in Node, NEW t \in Nat, Supports(a, p, t)'
        PROVE  Supports(a, p, t) \/ (a = n /\ t = term'[n] /\ vote'[n] = p /\ Hears(n, p))
    <3>1. CASE Granted(a, p, t)'
      BY <2>4, <2>5, <3>1, NoNewGrants DEF Supports
    <3>2. CASE Counted(a, p, t)'
      BY <2>2, <2>3, <3>2 DEF Supports, Counted, OthersKept, Candidate, Hears
    <3> QED BY <2>6, <3>1, <3>2 DEF Supports
  <2> QED BY <1>1, <2>2, <2>3, <2>6 DEF ElectionStep, OthersKept, Candidate
<1>4. CASE HeartbeatTick(n)
  <2> DEFINE sent == Broadcast(n, term[n],
                               HeartbeatBody(log[n], commit[n], role[n].readSeq))
  <2>1. HeartbeatBody(log[n], commit[n], role[n].readSeq).type # "CampaignResponse"
    BY DEF HeartbeatBody
  <2>2. NoGrants(sent)
    BY <2>1, OtherMessages
  <2>3. msgs' \subseteq msgs \cup sent /\ UNCHANGED <<term, vote, role>>
    BY <1>4, SendSubset DEF HeartbeatTick
  <2> HIDE DEF sent
  <2> QED BY <2>2, <2>3, QuietElectionStep
<1>5. ASSUME NEW m \in msgs, RefuseVote(n, m) PROVE ElectionStep(n)
  <2> DEFINE e == Env(n, m.from, m.term, [type |-> "CampaignResponse", vote |-> FALSE])
  <2>1. NoGrants({e})
    BY DEF NoGrants, IsGrant, Env
  <2>2. msgs' \subseteq msgs \cup {e} /\ UNCHANGED <<term, vote, role>>
    BY <1>5, SendSubset DEF RefuseVote
  <2> HIDE DEF e
  <2> QED BY <2>1, <2>2, QuietElectionStep
<1>6. ASSUME NEW m \in msgs, Ignore(n, m) PROVE ElectionStep(n)
  <2>1. msgs' \subseteq msgs \cup {} /\ UNCHANGED <<term, vote, role>>
    BY <1>6, SendSubset DEF Ignore
  <2> QED BY <1>2, <2>1, QuietElectionStep
<1>7. ASSUME NEW m \in msgs, m.body.type = "CampaignResponse", m.body.vote, m.to = n,
             m.term = term[n], role[n].kind = "candidate"
      PROVE  \A a \in role[n].votes \cup {m.from} : Supports(a, n, term[n])
    BY <1>7 DEF Supports, Granted, IsGrant, Counted
<1>8. ASSUME NEW m \in msgs, RecordVote(n, m) PROVE ElectionStep(n)
  <2>1. \A a \in role[n].votes \cup {m.from} : Supports(a, n, term[n])
    BY <1>7, <1>8 DEF RecordVote
  <2>2. OthersKept(n) /\ UNCHANGED <<term, vote>>
    BY <1>8 DEF OthersKept, RecordVote, TypeInv, TypeOK
  <2>3. role'[n] = Candidate(role[n].votes \cup {m.from})
    BY <1>1, <1>8 DEF RecordVote
  <2>4. msgs' \subseteq msgs \cup {}
    BY <1>8, SendSubset DEF RecordVote
  <2>5. ASSUME NEW a \in Node, NEW p \in Node, NEW t \in Nat, Supports(a, p, t)'
        PROVE  Supports(a, p, t)
    <3>1. CASE Granted(a, p, t)'
      BY <1>2, <2>4, <3>1, NoNewGrants DEF Supports
    <3>2. CASE Counted(a, p, t)' /\ p # n
      BY <2>2, <3>2 DEF Supports, Counted, OthersKept
    <3>3. CASE Counted(a, p, t)' /\ p = n
      <4>1. a \in role[n].votes \cup {m.from} /\ t = term[n]
        BY <2>2, <2>3, <3>3 DEF Counted, Candidate
      <4> QED BY <2>1, <3>3, <4>1
    <3> QED BY <2>5, <3>1, <3>2, <3>3 DEF Supports
  <2> QED BY <1>1, <2>2, <2>3, <2>5 DEF ElectionStep, OthersKept, Candidate
<1>9. ASSUME NEW m \in msgs, BecomeLeader(n, m) PROVE ElectionStep(n)
  <2>1. \A a \in role[n].votes \cup {m.from} : Supports(a, n, term[n])
    BY <1>7, <1>9 DEF BecomeLeader
  <2>2. role[n].votes \cup {m.from} \in SUBSET Node
    BY <1>9, RoleFields DEF BecomeLeader, TypeInv, TypeOK, Envelope
  <2>3. IsQuorum(role[n].votes \cup {m.from})
    BY <1>9 DEF BecomeLeader
  <2>4. OthersKept(n) /\ UNCHANGED <<term, vote>>
    BY <1>9 DEF OthersKept, BecomeLeader, TypeInv, TypeOK
  <2>5. role'[n].kind = "leader"
    BY <1>1, <1>9 DEF BecomeLeader, Leader
  <2>6. PICK l, new :
          Send(msgs \ {m}, ProposalMsgs(n, term[n], Propose(l, new))
                              \cup Broadcast(n, term[n], HeartbeatBody(l, commit[n], 0)))
    BY <1>9 DEF BecomeLeader
  <2> DEFINE sent == ProposalMsgs(n, term[n], Propose(l, new))
                        \cup Broadcast(n, term[n], HeartbeatBody(l, commit[n], 0))
  <2>7. NoGrants(sent)
    <3>1. HeartbeatBody(l, commit[n], 0).type # "CampaignResponse"
      BY DEF HeartbeatBody
    <3> QED BY <3>1, OtherMessages DEF NoGrants
  <2>8. msgs' \subseteq msgs \cup sent
    BY <2>6, SendSubset
  <2> HIDE DEF sent
  <2>9. ASSUME NEW a \in Node, NEW p \in Node, NEW t \in Nat, Supports(a, p, t)'
        PROVE  Supports(a, p, t)
    <3>1. CASE Granted(a, p, t)'
      BY <2>7, <2>8, <3>1, NoNewGrants DEF Supports
    <3>2. CASE Counted(a, p, t)'
      BY <2>4, <2>5, <3>2 DEF Supports, Counted, OthersKept
    <3> QED BY <2>9, <3>1, <3>2 DEF Supports
  <2> QED BY <1>1, <2>1, <2>2, <2>3, <2>4, <2>9 DEF ElectionStep, OthersKept
<1> QED BY <1>3, <1>4, <1>5, <1>6, <1>8, <1>9

\* Requests, panics and restarts.
LEMMA OtherSteps ==
    ASSUME TypeInv, NEW n \in Node,
           \/ Restart(n) \/ \E id \in Request : SubmitRequest(n, id)
           \/ \E m \in msgs : HandleClientRequest(n, m) \/ Panic(n, m)
    PROVE  ElectionStep(n)
<1>1. n \in DOMAIN term /\ n \in DOMAIN vote /\ n \in DOMAIN role /\ term[n] \in Nat
    BY DEF TypeInv, TypeOK
<1>2. NoGrants({})
    BY DEF NoGrants
<1>3. CASE Restart(n)
  <2>1. OthersKept(n) /\ UNCHANGED <<term, vote, msgs>> /\ role'[n].kind = "follower"
    BY <1>1, <1>3 DEF Restart, OthersKept, Follower, TypeInv, TypeOK
  <2>2. msgs' \subseteq msgs \cup {}
    BY <2>1
  <2> QED BY <1>1, <1>2, <2>1, <2>2, PlainStep
<1>4. ASSUME NEW id \in Request, SubmitRequest(n, id) PROVE ElectionStep(n)
    BY <1>4, RequestSteps DEF SubmitRequest
<1>5. ASSUME NEW m \in msgs, HandleClientRequest(n, m) PROVE ElectionStep(n)
  <2>1. msgs \ {m} \subseteq msgs
    OBVIOUS
  <2> QED BY <1>5, <2>1, RequestSteps DEF HandleClientRequest
<1>6. ASSUME NEW m \in msgs, Panic(n, m) PROVE ElectionStep(n)
  <2>1. m.term \in Nat /\ m.term >= term[n]
    BY <1>6 DEF Panic, TypeInv, TypeOK, Envelope
  <2>2. /\ term'[n] = m.term /\ vote'[n] = VoteIn(n, m) /\ role'[n].kind = "down"
        /\ OthersKept(n)
    BY <1>1, <1>6 DEF Panic, OthersKept, Down, TypeInv, TypeOK
  <2>3. term'[n] = term[n] => vote'[n] = vote[n]
    BY <1>1, <2>1, <2>2 DEF VoteIn
  <2>4. msgs' \subseteq msgs \cup {}
    BY <1>6, SendSubset DEF Panic
  <2> QED BY <1>1, <1>2, <2>1, <2>2, <2>3, <2>4, PlainStep
<1> QED BY <1>3, <1>4, <1>5, <1>6

-----------------------------------------------------------------------------
\* A step of node n.
StepOf(n) ==
    \/ FollowerTimeout(n) \/ CandidateTimeout(n) \/ HeartbeatTick(n) \/ Restart(n)
    \/ \E id \in Request : SubmitRequest(n, id)
    \/ \E m \in msgs : Receive(n, m)

\* Every step is a step of some node (Node::step and Node::tick of one RawNode).
LEMMA NextIsAStep ==
    ASSUME Next
    PROVE  \E n \in Node : StepOf(n)
BY DEF Next, StepOf

\* Every step of a node is one of the kind described above.
LEMMA StepIsElectionStep ==
    ASSUME TypeInv, NEW n \in Node, StepOf(n)
    PROVE  ElectionStep(n)
BY FollowerSteps, HandleCampaignStep, LeaderSteps, ElectionSteps, OtherSteps
   DEF StepOf, Receive

\* The election invariant holds initially.
LEMMA ElectionInvInit ==
    ASSUME Init
    PROVE  ElectionInv
<1>1. SupportInv /\ QuorumInv /\ ElectionSafety
    BY DEF Init, SupportInv, Supports, Granted, Counted, QuorumInv, ElectionSafety, IsLeader,
           Follower
<1> QED BY <1>1 DEF ElectionInv

\* Every step keeps the election invariant.
LEMMA ElectionInvNext ==
    ASSUME TypeInv, ElectionInv, [Next]_vars
    PROVE  ElectionInv'
<1>1. TypeInv'
    BY TypeInvStep
<1>2. CASE UNCHANGED vars
    BY <1>2 DEF vars, ElectionInv, SupportInv, QuorumInv, ElectionSafety, IsLeader,
       Backs, VotedFor, Supports, Granted, Counted, IsGrant
<1>3. CASE Next
    BY <1>1, <1>3, NextIsAStep, StepIsElectionStep, ElectionInvStep
<1> QED BY <1>2, <1>3

\* In every behaviour, with any number of nodes, terms, requests and crashes and
\* under any loss, delay and reordering of messages, at most one node leads in a
\* term: votes are flushed with their term (Log::set_term_vote) and a leader
\* needs a quorum of them.
THEOREM ElectionIsSafe == Spec => []ElectionSafety
<1>1. Init => TypeInv /\ ElectionInv
    BY TypeInvInit, ElectionInvInit
<1>2. TypeInv /\ ElectionInv /\ [Next]_vars => (TypeInv /\ ElectionInv)'
    BY TypeInvStep, ElectionInvNext
<1>3. ElectionInv => ElectionSafety
    BY DEF ElectionInv
<1> QED BY <1>1, <1>2, <1>3, PTL DEF Spec

-----------------------------------------------------------------------------
(* Links.                                                                  *)

\* The link to es[k] in a run of entries that follows index base of term baseTerm.
LinkAt(base, baseTerm, es, k) ==
    [index |-> base + k, entry |-> es[k],
     prev |-> IF k = 1 THEN baseTerm ELSE es[k - 1].term]

LinksIn(base, baseTerm, es) == {LinkAt(base, baseTerm, es, k) : k \in 1..Len(es)}

LogLinks(l) == LinksIn(0, 0, l)

AppendLinks(b) == LinksIn(b.baseIndex, b.baseTerm, b.entries)

Appends == {m \in msgs : m.body.type = "Append"}

Links ==
    (UNION {LogLinks(log[a]) : a \in Node}) \cup (UNION {AppendLinks(m.body) : m \in Appends})

\* An append that carries entries of log l, and their predecessor in it.
IsSlice(b, l) ==
    /\ b.baseIndex + Len(b.entries) <= Len(l)
    /\ b.baseTerm = TermAt(l, b.baseIndex)
    /\ \A k \in 1..Len(b.entries) : b.entries[k] = l[b.baseIndex + k]

\* Some node has been elected in term t: nobody will be elected in it again.
Owned(t) ==
    \E n \in Node :
        /\ \E Q \in SUBSET Node : IsQuorum(Q) /\ \A a \in Q : Backs(a, n, t)
        /\ term[n] > t \/ (term[n] = t /\ role[n].kind # "candidate")

-----------------------------------------------------------------------------
(* The inductive invariant.                                                *)

\* A leader's last entry is of its term, and the next index of every peer is at
\* most one past it.
LeaderState ==
    \A n \in Node : IsLeader(n) =>
        /\ LastTerm(log[n]) = term[n]
        /\ \A p \in Peers(n) :
              role[n].progress[p].next \in role[n].progress[p].match + 1..Len(log[n]) + 1

\* Links with the same index and term are the same.
LinksAgree ==
    \A x, y \in Links : x.index = y.index /\ x.entry.term = y.entry.term => x = y

\* Terms start at 1 and never decrease along a log.
LinksAreSorted ==
    \A x \in Links : 1 <= x.entry.term /\ x.prev <= x.entry.term

\* The entries of a term start at the same index wherever they are.
TermsStartOnce ==
    \A x, y \in Links :
        /\ x.entry.term = y.entry.term
        /\ x.prev < x.entry.term /\ y.prev < y.entry.term
        => x.index = y.index

\* Terms of entries, of the messages of leaders and of the responses to them
\* are terms in which somebody has been elected.
TermsAreOwned ==
    /\ \A x \in Links : Owned(x.entry.term) /\ (x.prev # 0 => Owned(x.prev))
    /\ \A m \in msgs : m.body.type \in LeaderTypes \cup LeaderResponseTypes => Owned(m.term)

\* A leader's log has all entries of its term, and they are followed by none but
\* its own.
LeaderHasLinks ==
    \A n \in Node : IsLeader(n) =>
        \A x \in Links :
            /\ x.entry.term = term[n] => x \in LogLinks(log[n])
            /\ x.prev = term[n] => x.index <= Len(log[n]) + 1

\* An append starts at the empty log or at an entry, and as long as its sender
\* leads the term, it carries a part of its log.
AppendsAreSlices ==
    \A m \in Appends :
        /\ m.body.baseIndex = 0 => m.body.baseTerm = 0
        /\ \A n \in Node : IsLeader(n) /\ term[n] = m.term => IsSlice(m.body, log[n])

\* No log has entries of a later term than its node, and no append of a later
\* term than its own.
TermsAreBounded ==
    /\ \A a \in Node : \A x \in LogLinks(log[a]) : x.entry.term <= term[a]
    /\ \A m \in Appends : \A x \in AppendLinks(m.body) : x.entry.term <= m.term

MatchingInv ==
    /\ LeaderState
    /\ LinksAgree
    /\ LinksAreSorted
    /\ TermsStartOnce
    /\ TermsAreOwned
    /\ LeaderHasLinks
    /\ AppendsAreSlices
    /\ TermsAreBounded

-----------------------------------------------------------------------------
(* Facts about links.                                                      *)

\* The links of a log, by index.
LEMMA LogLinkFields ==
    ASSUME NEW l \in Log, NEW k \in 1..Len(l)
    PROVE  /\ LinkAt(0, 0, l, k) \in LogLinks(l)
           /\ LinkAt(0, 0, l, k).index = k
           /\ LinkAt(0, 0, l, k).entry = l[k] /\ l[k] \in Entry
           /\ LinkAt(0, 0, l, k).prev = TermAt(l, k - 1)
<1>1. l[k] \in Entry /\ Len(l) \in Nat
    BY ElementOfSeq DEF Log
<1>2. LinkAt(0, 0, l, k).prev = TermAt(l, k - 1)
    BY <1>1 DEF LinkAt, TermAt
<1> QED BY <1>1, <1>2 DEF LogLinks, LinksIn, LinkAt

\* Conversely, every link of a log is the link at its index.
LEMMA LogLinkIndex ==
    ASSUME NEW l \in Log, NEW x \in LogLinks(l)
    PROVE  /\ x.index \in 1..Len(l) /\ x = LinkAt(0, 0, l, x.index)
           /\ x.entry = l[x.index] /\ x.prev = TermAt(l, x.index - 1)
<1>1. PICK k \in 1..Len(l) : x = LinkAt(0, 0, l, k)
    BY DEF LogLinks, LinksIn
<1>2. x.index = k
    BY <1>1, LogLinkFields
<1> QED BY <1>1, <1>2, LogLinkFields

\* What a link is made of.
LEMMA LinkFields ==
    ASSUME NEW base \in Nat, NEW bt \in Nat, NEW es \in Log, NEW x \in LinksIn(base, bt, es)
    PROVE  /\ x.index \in Nat \ {0} /\ x.entry \in Entry /\ x.entry.term \in Nat /\ x.prev \in Nat
           /\ x = [index |-> x.index, entry |-> x.entry, prev |-> x.prev]
<1>1. PICK k \in 1..Len(es) : x = LinkAt(base, bt, es, k)
    BY DEF LinksIn
<1>2. es[k] \in Entry /\ (k # 1 => es[k - 1] \in Entry) /\ Len(es) \in Nat
    BY ElementOfSeq DEF Log
<1> QED BY <1>1, <1>2 DEF LinkAt, Entry

\* The fields of every link of the system.
LEMMA LinkTypes ==
    ASSUME TypeInv, NEW x \in Links
    PROVE  /\ x.index \in Nat \ {0} /\ x.entry \in Entry /\ x.entry.term \in Nat /\ x.prev \in Nat
           /\ x = [index |-> x.index, entry |-> x.entry, prev |-> x.prev]
<1>1. CASE \E a \in Node : x \in LogLinks(log[a])
    BY <1>1, LinkFields DEF LogLinks, TypeInv, TypeOK
<1>2. CASE \E m \in Appends : x \in AppendLinks(m.body)
  <2>1. PICK m \in Appends : x \in AppendLinks(m.body)
    BY <1>2
  <2>2. m.body.baseIndex \in Nat /\ m.body.baseTerm \in Nat /\ m.body.entries \in Log
    BY BodyFields DEF Appends, TypeInv, TypeOK, Envelope
  <2> QED BY <2>1, <2>2, LinkFields DEF AppendLinks
<1> QED BY <1>1, <1>2 DEF Links

\* The links of logs and of appends are links of the system.
LEMMA LinksOfParts ==
    /\ \A a \in Node : LogLinks(log[a]) \subseteq Links
    /\ \A m \in Appends : AppendLinks(m.body) \subseteq Links
BY DEF Links

\* A leader that proposes an entry adds one link.
LEMMA GrownLinks ==
    ASSUME NEW l \in Log, NEW e \in Entry
    PROVE  /\ LogLinks(Append(l, e)) =
                 LogLinks(l) \cup {[index |-> Len(l) + 1, entry |-> e, prev |-> LastTerm(l)]}
           /\ Append(l, e) \in Log /\ Len(Append(l, e)) = Len(l) + 1
           /\ LastTerm(Append(l, e)) = e.term
           /\ \A k \in 1..Len(l) : Append(l, e)[k] = l[k]
<1> DEFINE n == Len(l)
           g == Append(l, e)
           z == [index |-> n + 1, entry |-> e, prev |-> LastTerm(l)]
<1>1. n \in Nat /\ g \in Log /\ Len(g) = n + 1 /\ g[n + 1] = e /\ \A k \in 1..n : g[k] = l[k]
    BY AppendProperties, LenProperties DEF Log
<1>2. \A k \in 1..n : LinkAt(0, 0, g, k) = LinkAt(0, 0, l, k)
    BY <1>1 DEF LinkAt
<1>3. LinkAt(0, 0, g, n + 1) = z
    BY <1>1 DEF LinkAt, LastTerm, TermAt
<1>4. LastTerm(g) = e.term
    BY <1>1 DEF LastTerm, TermAt
<1> HIDE DEF g, n, z
<1>5. LogLinks(g) = LogLinks(l) \cup {z}
    BY <1>1, <1>2, <1>3 DEF LogLinks, LinksIn, n
<1> QED BY <1>1, <1>4, <1>5 DEF g, n, z

\* An append that carries a part of a log has links of the log only.
LEMMA SliceLinks ==
    ASSUME NEW l \in Log, NEW b, b.baseIndex \in Nat, b.entries \in Log, IsSlice(b, l)
    PROVE  AppendLinks(b) \subseteq LogLinks(l)
<1> SUFFICES ASSUME NEW k \in 1..Len(b.entries)
             PROVE  LinkAt(b.baseIndex, b.baseTerm, b.entries, k) \in LogLinks(l)
    BY DEF AppendLinks, LinksIn
<1>1. Len(l) \in Nat /\ Len(b.entries) \in Nat /\ b.baseIndex + k \in 1..Len(l)
    BY LenProperties DEF Log, IsSlice
<1>2. b.entries[k] = l[b.baseIndex + k]
    BY DEF IsSlice
<1>3. k # 1 => k - 1 \in 1..Len(b.entries) /\ b.baseIndex + (k - 1) = (b.baseIndex + k) - 1
    BY <1>1
<1>4. k # 1 => b.entries[k - 1] = l[(b.baseIndex + k) - 1]
    BY <1>3 DEF IsSlice
<1>5. k = 1 => b.baseTerm = IF b.baseIndex + k = 1 THEN 0 ELSE l[(b.baseIndex + k) - 1].term
    BY <1>1 DEF IsSlice, TermAt
<1>6. LinkAt(b.baseIndex, b.baseTerm, b.entries, k) = LinkAt(0, 0, l, b.baseIndex + k)
  <2>1. b.baseIndex \in Nat /\ k \in Nat \ {0}
    BY <1>1
  <2>2. PICK i \in Nat : i = b.baseIndex + k
    BY <2>1
  <2>3. k # 1 => i # 1
    BY <2>1, <2>2
  <2>4. (IF k = 1 THEN b.baseTerm ELSE b.entries[k - 1].term)
          = IF i = 1 THEN 0 ELSE l[i - 1].term
    BY <1>4, <1>5, <2>2, <2>3
  <2>5. b.entries[k] = l[i] /\ 0 + i = i
    BY <1>2, <2>2
  <2> QED BY <2>2, <2>4, <2>5 DEF LinkAt
<1> QED BY <1>1, <1>6, LogLinkFields

\* The log that a splice leaves when it replaces the entries after the base.
LEMMA ReplacedTail ==
    ASSUME NEW l \in Log, NEW base \in 0..Len(l), NEW es \in Log
    PROVE  LET s == SubSeq(l, 1, base) \o es
           IN  /\ s \in Log /\ Len(s) = base + Len(es)
               /\ \A k \in 1..base : s[k] = l[k]
               /\ \A k \in 1..Len(es) : s[base + k] = es[k]
<1>1. Len(l) \in Nat /\ Len(es) \in Nat
    BY LenProperties DEF Log
<1>2. PICK h : h = SubSeq(l, 1, base)
    OBVIOUS
<1>3. h \in Log /\ Len(h) = base /\ \A k \in 1..base : h[k] = l[k]
    BY <1>1, <1>2, SubSeqProperties DEF Log
<1>4. /\ h \o es \in Log /\ Len(h \o es) = base + Len(es)
      /\ \A k \in 1..base + Len(es) :
            (h \o es)[k] = IF k <= base THEN h[k] ELSE es[k - base]
    BY <1>3, ConcatProperties DEF Log
<1>5. PICK s : s = h \o es
    OBVIOUS
<1>6. \A k \in 1..base : s[k] = l[k]
    BY <1>1, <1>3, <1>4, <1>5
<1>7. ASSUME NEW k \in 1..Len(es) PROVE s[base + k] = es[k]
  <2>1. base + k \in 1..base + Len(es) /\ ~(base + k <= base) /\ (base + k) - base = k
    BY <1>1
  <2> QED BY <1>4, <1>5, <2>1
<1> QED BY <1>2, <1>4, <1>5, <1>6, <1>7

\* Splicing an append whose base the log has makes no new link.
LEMMA SplicedLinks ==
    ASSUME NEW l \in Log, NEW base \in Nat, NEW bt \in Nat, NEW es \in Log,
           HasBase(l, base, bt), base = 0 => bt = 0
    PROVE  LogLinks(Splice(l, base, es)) \subseteq LogLinks(l) \cup LinksIn(base, bt, es)
<1>1. CASE NewEntries(l, base, es) = {}
    BY <1>1 DEF Splice
<1>2. CASE NewEntries(l, base, es) # {}
  <2> DEFINE s == SubSeq(l, 1, base) \o es
  <2>1. base \in 0..Len(l) /\ Len(l) \in Nat /\ Len(es) \in Nat
    BY LenProperties DEF Log, HasBase, Has
  <2>2. /\ s \in Log /\ Len(s) = base + Len(es)
        /\ \A k \in 1..base : s[k] = l[k]
        /\ \A k \in 1..Len(es) : s[base + k] = es[k]
    BY <2>1, ReplacedTail
  <2>3. ASSUME NEW k \in 1..Len(s)
        PROVE  LinkAt(0, 0, s, k) \in LogLinks(l) \cup LinksIn(base, bt, es)
    <3>1. CASE k <= base
      <4>1. LinkAt(0, 0, s, k) = LinkAt(0, 0, l, k)
        BY <2>1, <2>2, <3>1 DEF LinkAt
      <4> QED BY <2>1, <3>1, <4>1, LogLinkFields
    <3>2. CASE k > base
      <4>1. k - base \in 1..Len(es) /\ k = base + (k - base)
        BY <2>1, <2>2, <3>2
      <4>2. s[k] = es[k - base]
        BY <2>2, <4>1
      <4>3. k - base # 1 => s[k - 1] = es[k - base - 1]
        <5>1. k - base # 1 => k - base - 1 \in 1..Len(es) /\ k - 1 = base + (k - base - 1)
          BY <4>1, <2>1
        <5> QED BY <2>2, <5>1
      <4>4. k - base = 1 /\ k # 1 => s[k - 1].term = bt
        BY <2>1, <2>2 DEF HasBase, Has
      <4>5. LinkAt(0, 0, s, k) = LinkAt(base, bt, es, k - base)
        BY <2>1, <4>1, <4>2, <4>3, <4>4 DEF LinkAt
      <4> QED BY <4>1, <4>5 DEF LinksIn
    <3> QED BY <2>1, <2>2, <3>1, <3>2
  <2>4. Splice(l, base, es) = s
    BY <1>2 DEF Splice
  <2> HIDE DEF s
  <2> QED BY <2>3, <2>4 DEF LogLinks, LinksIn
<1> QED BY <1>1, <1>2

-----------------------------------------------------------------------------
(* What a step of node n does to logs and appends.                         *)

\* Leader n has proposed the entry e.
Proposes(n, e) ==
    /\ e \in Entry /\ e.term = term[n]
    /\ log'[n] = Append(log[n], e)
    /\ role'[n].kind = "leader" /\ term'[n] = term[n]

\* Node n, now a follower, has spliced an append of its term into its log.
Splices(n, m) ==
    /\ m \in Appends /\ m.term = term'[n] /\ role'[n].kind = "follower"
    /\ HasBase(log[n], m.body.baseIndex, m.body.baseTerm)
    /\ log'[n] = Splice(log[n], m.body.baseIndex, m.body.entries)

LogStep(n) ==
    /\ \A a \in Node \ {n} : log'[a] = log[a]
    /\ log'[n] = log[n] \/ (\E e : Proposes(n, e)) \/ (\E m \in msgs : Splices(n, m))
    /\ role'[n].kind = "leader" =>
          /\ role[n].kind = "leader" \/ (role[n].kind = "candidate" /\ \E e : Proposes(n, e))
          /\ \A p \in Peers(n) :
                role'[n].progress[p].next \in role'[n].progress[p].match + 1..Len(log'[n]) + 1
    /\ role'[n].kind = "candidate" => term'[n] > term[n] \/ role[n].kind = "candidate"
    /\ \A m \in msgs' \ msgs :
          /\ m.body.type \in LeaderTypes => role'[n].kind = "leader" /\ m.term = term'[n]
          /\ m.body.type = "Append" => IsSlice(m.body, log'[n])
          /\ m.body.type \in LeaderResponseTypes =>
                \E r \in msgs : r.body.type \in LeaderTypes /\ m.term = r.term

\* A term that somebody has been elected in stays so.
LEMMA OwnedStep ==
    ASSUME TypeInv, TypeInv', NEW n \in Node, ElectionStep(n), LogStep(n), NEW t \in Nat, Owned(t)
    PROVE  Owned(t)'
<1>1. PICK p \in Node :
        /\ \E Q \in SUBSET Node : IsQuorum(Q) /\ \A a \in Q : Backs(a, p, t)
        /\ term[p] > t \/ (term[p] = t /\ role[p].kind # "candidate")
    BY DEF Owned
<1>2. PICK Q \in SUBSET Node : IsQuorum(Q) /\ \A a \in Q : Backs(a, p, t)
    BY <1>1
<1>3. \A a \in Q : Backs(a, p, t)'
    BY <1>2, BacksStep
<1>4. term'[p] > t \/ (term'[p] = t /\ role'[p].kind # "candidate")
  <2>1. term[p] \in Nat /\ term'[p] \in Nat
    BY DEF TypeInv, TypeOK
  <2> QED BY <1>1, <2>1 DEF ElectionStep, LogStep
<1>5. IsQuorum(Q)'
    BY <1>2 DEF IsQuorum
<1> QED BY <1>3, <1>4, <1>5 DEF Owned

\* Nobody has been elected in the term of a candidate that a quorum supports.
LEMMA NotYetOwned ==
    ASSUME TypeInv, ElectionInv, NEW n \in Node, role[n].kind = "candidate",
           NEW Q \in SUBSET Node, IsQuorum(Q), \A a \in Q : Supports(a, n, term[n])
    PROVE  ~Owned(term[n])
<1> SUFFICES ASSUME Owned(term[n]) PROVE FALSE
    OBVIOUS
<1>1. term[n] \in Nat
    BY DEF TypeInv, TypeOK
<1>2. PICK p \in Node :
        /\ \E R \in SUBSET Node : IsQuorum(R) /\ \A a \in R : Backs(a, p, term[n])
        /\ term[p] > term[n] \/ (term[p] = term[n] /\ role[p].kind # "candidate")
    BY DEF Owned
<1>3. PICK R \in SUBSET Node : IsQuorum(R) /\ \A a \in R : Backs(a, p, term[n])
    BY <1>2
<1>4. PICK a \in Node : a \in Q /\ a \in R
    BY <1>3, QuorumsIntersect
<1>5. n = p
    BY <1>3, <1>4 DEF Backs
<1> QED BY <1>1, <1>2, <1>5

\* The term of a leader is one that it has been elected in.
LEMMA LeaderOwns ==
    ASSUME TypeInv, ElectionInv, NEW n \in Node, IsLeader(n)
    PROVE  Owned(term[n])
BY DEF Owned, ElectionInv, QuorumInv, IsLeader

\* A step of this kind makes no link, except the one that a leader proposes.
LEMMA LinksStep ==
    ASSUME TypeInv, TypeInv', AppendsAreSlices, NEW n \in Node, LogStep(n)
    PROVE  /\ Links' \subseteq Links \cup LogLinks(log'[n])
           /\ \A m \in Appends' \ msgs : AppendLinks(m.body) \subseteq LogLinks(log'[n])
           /\ \A m \in msgs : Splices(n, m) =>
                 LogLinks(log'[n]) \subseteq LogLinks(log[n]) \cup AppendLinks(m.body)
           /\ LogLinks(log'[n]) \subseteq Links \/ \E e : Proposes(n, e)
<1>1. log[n] \in Log /\ log'[n] \in Log
    BY DEF TypeInv, TypeOK
<1>2. ASSUME NEW m \in Appends' \ msgs PROVE AppendLinks(m.body) \subseteq LogLinks(log'[n])
  <2>1. m \in msgs' /\ m.body.type = "Append" /\ m.body \in Body
    BY DEF Appends, TypeInv, TypeOK, Envelope
  <2>2. m.body.baseIndex \in Nat /\ m.body.entries \in Log
    BY <2>1, BodyFields
  <2>3. IsSlice(m.body, log'[n])
    BY <2>1 DEF LogStep
  <2> QED BY <1>1, <2>2, <2>3, SliceLinks
<1>3. ASSUME NEW m \in msgs, Splices(n, m)
      PROVE  /\ LogLinks(log'[n]) \subseteq LogLinks(log[n]) \cup AppendLinks(m.body)
             /\ m \in Appends
  <2>1. m \in Appends /\ m.body \in Body /\ m.body.type = "Append"
    BY <1>3 DEF Splices, Appends, TypeInv, TypeOK, Envelope
  <2>2. m.body.baseIndex \in Nat /\ m.body.baseTerm \in Nat /\ m.body.entries \in Log
    BY <2>1, BodyFields
  <2>3. m.body.baseIndex = 0 => m.body.baseTerm = 0
    BY <2>1 DEF AppendsAreSlices
  <2> QED BY <1>1, <1>3, <2>1, <2>2, <2>3, SplicedLinks DEF Splices, AppendLinks
<1>4. LogLinks(log'[n]) \subseteq Links \/ \E e : Proposes(n, e)
  <2>1. CASE log'[n] = log[n]
    BY <2>1, LinksOfParts
  <2>2. CASE \E m \in msgs : Splices(n, m)
    BY <1>3, <2>2, LinksOfParts
  <2> QED BY <2>1, <2>2 DEF LogStep
<1>5. Links' \subseteq Links \cup LogLinks(log'[n])
  <2> SUFFICES ASSUME NEW x \in Links' PROVE x \in Links \cup LogLinks(log'[n])
    OBVIOUS
  <2>1. CASE \E a \in Node : x \in LogLinks(log'[a])
    BY <2>1, LinksOfParts DEF LogStep
  <2>2. CASE \E m \in Appends' : x \in AppendLinks(m.body)
    <3>1. PICK m \in Appends' : x \in AppendLinks(m.body)
      BY <2>2
    <3>2. CASE m \in msgs
      <4>1. m \in Appends
        BY <3>1, <3>2 DEF Appends
      <4> QED BY <3>1, <4>1, LinksOfParts
    <3> QED BY <1>2, <3>1, <3>2
  <2> QED BY <2>1, <2>2 DEF Links, LogLinks, LinksIn, LinkAt, AppendLinks
<1> QED BY <1>2, <1>3, <1>4, <1>5

-----------------------------------------------------------------------------
(* Such a step keeps the invariant.                                        *)

\* Leaders before and after a step: no log of a leader is cut, and a node that
\* becomes a leader proposes.
LEMMA LeadersStep ==
    ASSUME TypeInv, TypeInv', NEW n \in Node, ElectionStep(n), LogStep(n),
           NEW l \in Node, IsLeader(l)'
    PROVE  /\ term'[l] = term[l]
           /\ l # n => IsLeader(l) /\ log'[l] = log[l] /\ role'[l] = role[l]
           /\ l = n => (IsLeader(l) /\ log'[l] = log[l]) \/ \E e : Proposes(n, e)
BY DEF ElectionStep, LogStep, IsLeader, Splices

\* A step in which no entry is proposed.
LEMMA MatchingKept ==
    ASSUME TypeInv, TypeInv', ElectionInv', MatchingInv, NEW n \in Node, ElectionStep(n),
           LogStep(n), ~(\E e : Proposes(n, e))
    PROVE  MatchingInv'
<1>1. AppendsAreSlices
    BY DEF MatchingInv
<1>2. /\ Links' \subseteq Links
      /\ \A m \in Appends' \ msgs : AppendLinks(m.body) \subseteq LogLinks(log'[n])
      /\ \A m \in msgs : Splices(n, m) =>
            LogLinks(log'[n]) \subseteq LogLinks(log[n]) \cup AppendLinks(m.body)
    BY <1>1, LinksStep
<1>3. ASSUME NEW l \in Node, IsLeader(l)'
      PROVE  IsLeader(l) /\ term'[l] = term[l] /\ log'[l] = log[l]
    BY <1>3, LeadersStep
<1>4. LeaderState'
  <2> SUFFICES ASSUME NEW l \in Node, IsLeader(l)'
               PROVE  /\ LastTerm(log'[l]) = term'[l]
                      /\ \A p \in Peers(l) : role'[l].progress[p].next
                            \in role'[l].progress[p].match + 1..Len(log'[l]) + 1
    BY DEF LeaderState
  <2>1. LastTerm(log'[l]) = term'[l]
    BY <1>3 DEF MatchingInv, LeaderState
  <2>2. CASE l = n
    BY <2>1, <2>2 DEF LogStep, IsLeader
  <2>3. CASE l # n
    BY <1>3, <2>1, <2>3, LeadersStep DEF MatchingInv, LeaderState
  <2> QED BY <2>2, <2>3
<1>5. LinksAgree' /\ LinksAreSorted' /\ TermsStartOnce'
    BY <1>2 DEF MatchingInv, LinksAgree, LinksAreSorted, TermsStartOnce
<1>6. TermsAreOwned'
  <2>1. ASSUME NEW x \in Links' PROVE Owned(x.entry.term)' /\ (x.prev # 0 => Owned(x.prev)')
    <3>1. x \in Links /\ x.entry.term \in Nat /\ x.prev \in Nat
      BY <1>2, LinkTypes
    <3> QED BY <3>1, OwnedStep DEF MatchingInv, TermsAreOwned
  <2>2. ASSUME NEW m \in msgs, m.body.type \in LeaderTypes \cup LeaderResponseTypes
        PROVE  Owned(m.term)'
    <3>1. m.term \in Nat
      BY DEF TypeInv, TypeOK, Envelope
    <3> QED BY <2>2, <3>1, OwnedStep DEF MatchingInv, TermsAreOwned
  <2>3. ASSUME NEW m \in msgs' \ msgs, m.body.type \in LeaderTypes
        PROVE  Owned(m.term)'
    <3>1. IsLeader(n)' /\ m.term = term'[n]
      BY <2>3 DEF LogStep, IsLeader
    <3>2. (TypeInv /\ ElectionInv /\ IsLeader(n) => Owned(term[n]))'
      BY LeaderOwns, PTL
    <3> QED BY <3>1, <3>2
  <2>4. ASSUME NEW m \in msgs' \ msgs, m.body.type \in LeaderResponseTypes
        PROVE  Owned(m.term)'
    BY <2>2, <2>4 DEF LogStep
  <2> QED BY <2>1, <2>2, <2>3, <2>4 DEF TermsAreOwned
<1>7. LeaderHasLinks'
    BY <1>2, <1>3 DEF MatchingInv, LeaderHasLinks
<1>8. AppendsAreSlices'
  <2> SUFFICES ASSUME NEW m \in Appends'
               PROVE  /\ m.body.baseIndex = 0 => m.body.baseTerm = 0
                      /\ \A l \in Node : IsLeader(l)' /\ term'[l] = m.term =>
                            IsSlice(m.body, log'[l])
    BY DEF AppendsAreSlices
  <2>1. CASE m \in msgs
    <3>1. m \in Appends
      BY <2>1 DEF Appends
    <3> QED BY <1>1, <1>3, <3>1 DEF AppendsAreSlices
  <2>2. CASE m \notin msgs
    <3>1. IsLeader(n)' /\ m.term = term'[n] /\ IsSlice(m.body, log'[n])
      BY <2>2 DEF LogStep, IsLeader, Appends, LeaderTypes
    <3>2. \A l \in Node : IsLeader(l)' /\ term'[l] = m.term => l = n
      BY <3>1 DEF ElectionInv, ElectionSafety
    <3> QED BY <3>1, <3>2 DEF IsSlice, TermAt
  <2> QED BY <2>1, <2>2
<1>9. TermsAreBounded'
  <2>1. term[n] \in Nat /\ term'[n] \in Nat /\ term'[n] >= term[n] /\ log[n] \in Log
    BY DEF ElectionStep, TypeInv, TypeOK
  <2>2. \A x \in LogLinks(log[n]) : x.entry.term \in Nat
    BY <2>1, LinkFields DEF LogLinks
  <2>3. \A x \in LogLinks(log'[n]) : x.entry.term <= term'[n]
    <3>1. CASE log'[n] = log[n]
      BY <2>1, <2>2, <3>1 DEF MatchingInv, TermsAreBounded
    <3>2. ASSUME NEW m \in msgs, Splices(n, m)
          PROVE  \A x \in LogLinks(log'[n]) : x.entry.term <= term'[n]
      <4>1. m \in Appends /\ m.term = term'[n]
        BY <3>2 DEF Splices
      <4> QED BY <1>2, <2>1, <2>2, <3>2, <4>1 DEF MatchingInv, TermsAreBounded
    <3> QED BY <3>1, <3>2 DEF LogStep
  <2>4. ASSUME NEW a \in Node \ {n} PROVE \A x \in LogLinks(log'[a]) : x.entry.term <= term'[a]
    BY DEF LogStep, ElectionStep, MatchingInv, TermsAreBounded
  <2>5. ASSUME NEW m \in Appends' PROVE \A x \in AppendLinks(m.body) : x.entry.term <= m.term
    <3>1. CASE m \in msgs
      BY <3>1 DEF Appends, MatchingInv, TermsAreBounded
    <3>2. CASE m \notin msgs
      <4>1. m.term = term'[n]
        BY <3>2 DEF LogStep, Appends, LeaderTypes
      <4> QED BY <1>2, <2>3, <3>2, <4>1
    <3> QED BY <3>1, <3>2
  <2> QED BY <2>3, <2>4, <2>5 DEF TermsAreBounded
<1> QED BY <1>4, <1>5, <1>6, <1>7, <1>8, <1>9 DEF MatchingInv

\* The last entry of a log is its last link.
LEMMA LastLink ==
    ASSUME NEW l \in Log, LastTerm(l) # 0
    PROVE  \E y \in LogLinks(l) : y.index = Len(l) /\ y.entry.term = LastTerm(l)
<1>1. Len(l) \in 1..Len(l)
    BY LenProperties DEF LastTerm, TermAt, Log
<1> QED BY <1>1, LogLinkFields DEF LastTerm, TermAt

\* A part of a log is a part of the log with another entry.
LEMMA SliceOfGrown ==
    ASSUME NEW l \in Log, NEW e \in Entry, NEW b, b.baseIndex \in Nat, b.entries \in Log,
           IsSlice(b, l)
    PROVE  IsSlice(b, Append(l, e))
<1>1. /\ Len(l) \in Nat /\ Len(b.entries) \in Nat /\ Len(Append(l, e)) = Len(l) + 1
      /\ \A k \in 1..Len(l) : Append(l, e)[k] = l[k]
    BY GrownLinks, LenProperties DEF Log
<1> HIDE DEF Log
<1>2. b.baseTerm = TermAt(Append(l, e), b.baseIndex)
    BY <1>1 DEF IsSlice, TermAt
<1>3. ASSUME NEW k \in 1..Len(b.entries) PROVE b.entries[k] = Append(l, e)[b.baseIndex + k]
  <2>1. b.baseIndex + k \in 1..Len(l)
    BY <1>1 DEF IsSlice
  <2> QED BY <1>1, <2>1 DEF IsSlice
<1> QED BY <1>1, <1>2, <1>3 DEF IsSlice

\* The entry that a leader, old or new, proposes is later than all others of its
\* term: a new leader's term has had no leader before.
LEMMA ProposalIsNew ==
    ASSUME TypeInv, ElectionInv, MatchingInv, NEW n \in Node, ElectionStep(n), LogStep(n),
           NEW e, Proposes(n, e)
    PROVE  /\ IsLeader(n) \/ ~Owned(term[n])
           /\ \A x \in Links : x.entry.term = term[n] =>
                 x \in LogLinks(log[n]) /\ x.index <= Len(log[n])
           /\ \A x \in Links : x.prev = term[n] => x.index <= Len(log[n]) + 1
<1>1. term[n] \in Nat /\ term[n] >= 1 /\ log[n] \in Log /\ IsLeader(n)'
    BY DEF Proposes, IsLeader, TypeInv, TypeOK, ActiveTerm, ElectionStep, LogStep
<1>2. IsLeader(n) \/ ~Owned(term[n])
  <2> SUFFICES ASSUME ~IsLeader(n) PROVE ~Owned(term[n])
    OBVIOUS
  <2>1. PICK Q \in SUBSET Node : IsQuorum(Q) /\ \A a \in Q : Supports(a, n, term[n])
    BY <1>1 DEF ElectionStep, IsLeader
  <2>2. role[n].kind = "candidate"
    BY <1>1 DEF LogStep, IsLeader
  <2> QED BY <2>1, <2>2, NotYetOwned
<1>3. \A x \in Links : x.entry.term = term[n] => x \in LogLinks(log[n])
  <2>1. CASE IsLeader(n)
    BY <2>1 DEF MatchingInv, LeaderHasLinks
  <2>2. CASE ~Owned(term[n])
    BY <2>2 DEF MatchingInv, TermsAreOwned
  <2> QED BY <1>2, <2>1, <2>2
<1>4. \A x \in Links : x.prev = term[n] => x.index <= Len(log[n]) + 1
  <2>1. CASE IsLeader(n)
    BY <2>1 DEF MatchingInv, LeaderHasLinks
  <2>2. CASE ~Owned(term[n])
    BY <1>1, <2>2 DEF MatchingInv, TermsAreOwned
  <2> QED BY <1>2, <2>1, <2>2
<1>5. \A x \in Links : x.entry.term = term[n] => x.index <= Len(log[n])
    BY <1>1, <1>3, LogLinkIndex
<1> QED BY <1>2, <1>3, <1>4, <1>5

\* A step in which a leader, old or new, proposes an entry.
LEMMA MatchingGrown ==
    ASSUME TypeInv, TypeInv', ElectionInv, ElectionInv', MatchingInv, NEW n \in Node,
           ElectionStep(n), LogStep(n), NEW e, Proposes(n, e)
    PROVE  MatchingInv'
<1>0. PICK T, z :
        /\ T = term[n]
        /\ z = [index |-> Len(log[n]) + 1, entry |-> e, prev |-> LastTerm(log[n])]
    OBVIOUS
<1>1. /\ T \in Nat /\ T >= 1 /\ term'[n] = T /\ e \in Entry /\ e.term = T /\ IsLeader(n)'
      /\ log[n] \in Log /\ Len(log[n]) \in Nat /\ log'[n] = Append(log[n], e)
    BY <1>0, LenProperties DEF Proposes, IsLeader, TypeInv, TypeOK, ActiveTerm, Log
<1>2. /\ LogLinks(log'[n]) = LogLinks(log[n]) \cup {z}
      /\ Len(log'[n]) = Len(log[n]) + 1 /\ LastTerm(log'[n]) = T
    BY <1>0, <1>1, GrownLinks
<1>3. z.index = Len(log[n]) + 1 /\ z.entry.term = T /\ z.prev = LastTerm(log[n])
    BY <1>0, <1>1
<1>4. LastTerm(log[n]) \in Nat
    BY <1>1, TermAtType DEF LastTerm
<1>5. AppendsAreSlices
    BY DEF MatchingInv
<1>6. /\ Links' \subseteq Links \cup {z}
      /\ \A m \in Appends' \ msgs : AppendLinks(m.body) \subseteq LogLinks(log'[n])
    BY <1>2, <1>5, LinksStep, LinksOfParts
<1>7. IsLeader(n) \/ ~Owned(T)
    BY <1>0, ProposalIsNew
<1>8. \A x \in Links : x.entry.term = T => x \in LogLinks(log[n])
    BY <1>0, ProposalIsNew
<1>9. \A x \in Links : x.prev = T => x.index <= Len(log[n]) + 1
    BY <1>0, ProposalIsNew
<1>10. \A x \in Links : x.entry.term = T => x.index <= Len(log[n])
    BY <1>0, ProposalIsNew
<1>11. LastTerm(log[n]) <= T /\ (IsLeader(n) => LastTerm(log[n]) = T)
  <2>1. IsLeader(n) => LastTerm(log[n]) = T
    BY <1>0 DEF MatchingInv, LeaderState
  <2>2. CASE LastTerm(log[n]) # 0
    BY <1>0, <1>1, <2>1, <2>2, LastLink DEF MatchingInv, TermsAreBounded
  <2> QED BY <1>1, <2>1, <2>2
<1>12. LastTerm(log[n]) # 0 =>
          \E y \in Links : y.index = Len(log[n]) /\ y.entry.term = LastTerm(log[n])
    BY <1>1, LastLink, LinksOfParts
<1>13. \A l \in Node : IsLeader(l)' /\ l # n =>
          IsLeader(l) /\ term'[l] = term[l] /\ log'[l] = log[l] /\ role'[l] = role[l]
             /\ term[l] # T
    BY <1>1, LeadersStep DEF ElectionInv, ElectionSafety
<1>14. \A x \in Links : x.index \in Nat /\ x.entry.term \in Nat /\ x.prev \in Nat
    BY LinkTypes
<1>15. LeaderState'
  <2>1. /\ LastTerm(log'[n]) = term'[n]
        /\ \A p \in Peers(n) : role'[n].progress[p].next
                \in role'[n].progress[p].match + 1..Len(log'[n]) + 1
    BY <1>1, <1>2 DEF LogStep, IsLeader
  <2>2. ASSUME NEW l \in Node, IsLeader(l)', l # n
        PROVE  /\ LastTerm(log'[l]) = term'[l]
               /\ \A p \in Peers(l) : role'[l].progress[p].next
                      \in role'[l].progress[p].match + 1..Len(log'[l]) + 1
    BY <1>13, <2>2 DEF MatchingInv, LeaderState
  <2> QED BY <2>1, <2>2 DEF LeaderState
<1>16. LinksAgree'
    BY <1>1, <1>3, <1>6, <1>10, <1>14 DEF MatchingInv, LinksAgree
<1>17. LinksAreSorted'
    BY <1>1, <1>3, <1>6, <1>11 DEF MatchingInv, LinksAreSorted
<1>18. TermsStartOnce'
  <2>1. CASE IsLeader(n)
    <3>1. ~(z.prev < z.entry.term)
      BY <1>1, <1>3, <1>11, <2>1
    <3> QED BY <1>6, <3>1 DEF MatchingInv, TermsStartOnce
  <2>2. CASE ~Owned(T)
    <3>1. \A x \in Links : x.entry.term # z.entry.term
      BY <1>3, <2>2 DEF MatchingInv, TermsAreOwned
    <3> QED BY <1>6, <3>1 DEF MatchingInv, TermsStartOnce
  <2> QED BY <1>7, <2>1, <2>2
<1>19. TermsAreOwned'
  <2>1. Owned(T)'
    <3>1. (TypeInv /\ ElectionInv /\ IsLeader(n) => Owned(term[n]))'
      BY LeaderOwns, PTL
    <3>2. Owned(term[n])'
      BY <1>1, <3>1
    <3> QED BY <1>1, <3>2 DEF Owned
  <2>2. ASSUME NEW x \in Links PROVE Owned(x.entry.term)' /\ (x.prev # 0 => Owned(x.prev)')
    BY <1>14, OwnedStep DEF MatchingInv, TermsAreOwned
  <2>3. z.prev # 0 => Owned(z.prev)'
    BY <1>3, <1>12, <2>2
  <2>4. ASSUME NEW m \in msgs, m.body.type \in LeaderTypes \cup LeaderResponseTypes
        PROVE  Owned(m.term)'
    <3>1. m.term \in Nat
      BY DEF TypeInv, TypeOK, Envelope
    <3> QED BY <2>4, <3>1, OwnedStep DEF MatchingInv, TermsAreOwned
  <2>5. ASSUME NEW m \in msgs' \ msgs, m.body.type \in LeaderTypes
        PROVE  Owned(m.term)'
    BY <1>1, <2>1, <2>5 DEF LogStep
  <2>6. ASSUME NEW m \in msgs' \ msgs, m.body.type \in LeaderResponseTypes
        PROVE  Owned(m.term)'
    BY <2>4, <2>6 DEF LogStep
  <2>7. Owned(z.entry.term)'
    BY <1>3, <2>1
  <2> QED BY <1>6, <2>2, <2>3, <2>4, <2>5, <2>6, <2>7 DEF TermsAreOwned
<1>20. LeaderHasLinks'
  <2>1. \A x \in Links' :
          /\ x.entry.term = term'[n] => x \in LogLinks(log'[n])
          /\ x.prev = term'[n] => x.index <= Len(log'[n]) + 1
    BY <1>1, <1>2, <1>3, <1>6, <1>8, <1>9, <1>14
  <2>2. ASSUME NEW l \in Node, IsLeader(l)', l # n, NEW x \in Links'
        PROVE  /\ x.entry.term = term'[l] => x \in LogLinks(log'[l])
               /\ x.prev = term'[l] => x.index <= Len(log'[l]) + 1
    <3>1. IsLeader(l) /\ term'[l] = term[l] /\ log'[l] = log[l] /\ term[l] # T
      BY <1>13, <2>2
    <3>2. CASE x \in Links
      BY <3>1, <3>2 DEF MatchingInv, LeaderHasLinks
    <3>3. CASE x = z /\ z.prev = term[l]
      <4>1. LastTerm(log[n]) # 0
        BY <1>3, <3>1, <3>3, LeaderFields DEF IsLeader
      <4>2. PICK y \in Links : y.index = Len(log[n]) /\ y.entry.term = LastTerm(log[n])
        BY <1>12, <4>1
      <4>3. y \in LogLinks(log[l])
        BY <1>3, <3>1, <3>3, <4>2 DEF MatchingInv, LeaderHasLinks
      <4>4. log[l] \in Log /\ Len(log[l]) \in Nat
        BY LenProperties DEF TypeInv, TypeOK, Log
      <4>5. Len(log[n]) <= Len(log[l])
        BY <1>1, <4>2, <4>3, <4>4, LogLinkIndex
      <4> QED BY <1>1, <1>3, <3>1, <3>3, <4>4, <4>5
    <3> QED BY <1>3, <1>6, <3>1, <3>2, <3>3
  <2> QED BY <2>1, <2>2 DEF LeaderHasLinks
<1>21. AppendsAreSlices'
  <2> SUFFICES ASSUME NEW m \in Appends'
               PROVE  /\ m.body.baseIndex = 0 => m.body.baseTerm = 0
                      /\ \A l \in Node : IsLeader(l)' /\ term'[l] = m.term =>
                            IsSlice(m.body, log'[l])
    BY DEF AppendsAreSlices
  <2>1. CASE m \in msgs
    <3>1. m \in Appends
      BY <2>1 DEF Appends
    <3>2. m.body.baseIndex \in Nat /\ m.body.entries \in Log
      BY <3>1, BodyFields DEF Appends, TypeInv, TypeOK, Envelope
    <3>3. ASSUME NEW l \in Node, IsLeader(l)', term'[l] = m.term, l # n
          PROVE  IsSlice(m.body, log'[l])
      BY <1>13, <3>1, <3>3, <1>5 DEF AppendsAreSlices
    <3>4. ASSUME m.term = term'[n] PROVE IsSlice(m.body, log'[n])
      <4>1. Owned(T)
        BY <1>1, <3>1, <3>4 DEF MatchingInv, TermsAreOwned, Appends, LeaderTypes
      <4>2. IsSlice(m.body, log[n])
        BY <1>0, <1>1, <1>5, <1>7, <3>1, <3>4, <4>1 DEF AppendsAreSlices
      <4> QED BY <1>1, <3>2, <4>2, SliceOfGrown
    <3> QED BY <1>5, <3>1, <3>3, <3>4 DEF AppendsAreSlices
  <2>2. CASE m \notin msgs
    <3>1. m.term = term'[n] /\ IsSlice(m.body, log'[n])
      BY <2>2 DEF LogStep, Appends, LeaderTypes
    <3>2. \A l \in Node : IsLeader(l)' /\ term'[l] = m.term => l = n
      BY <1>1, <3>1 DEF ElectionInv, ElectionSafety
    <3> QED BY <3>1, <3>2 DEF IsSlice, TermAt
  <2> QED BY <2>1, <2>2
<1>22. TermsAreBounded'
  <2>1. \A x \in LogLinks(log'[n]) : x.entry.term <= term'[n]
    BY <1>0, <1>1, <1>2, <1>3 DEF MatchingInv, TermsAreBounded
  <2>2. ASSUME NEW a \in Node \ {n} PROVE \A x \in LogLinks(log'[a]) : x.entry.term <= term'[a]
    BY DEF LogStep, ElectionStep, MatchingInv, TermsAreBounded
  <2>3. ASSUME NEW m \in Appends' PROVE \A x \in AppendLinks(m.body) : x.entry.term <= m.term
    <3>1. CASE m \in msgs
      BY <3>1 DEF Appends, MatchingInv, TermsAreBounded
    <3>2. CASE m \notin msgs
      <4>1. m.term = term'[n]
        BY <3>2 DEF LogStep, Appends, LeaderTypes
      <4> QED BY <1>6, <2>1, <3>2, <4>1
    <3> QED BY <3>1, <3>2
  <2> QED BY <2>1, <2>2, <2>3 DEF TermsAreBounded
<1> QED BY <1>15, <1>16, <1>17, <1>18, <1>19, <1>20, <1>21, <1>22 DEF MatchingInv

-----------------------------------------------------------------------------
(* Every action is such a step.  First the progress that a leader keeps for *)
(* its peers, and the appends that it sends from it.                       *)

InRange(l, pr) == pr.next \in pr.match + 1..Len(l) + 1

\* maybe_send_append stays in range and sends parts of the leader's log.
LEMMA MaybeSendAppendSlices ==
    ASSUME NEW l \in Log, NEW pr \in Progress, NEW probe \in BOOLEAN, InRange(l, pr)
    PROVE  /\ InRange(l, MaybeSendAppend(l, pr, probe).progress)
           /\ \A b \in MaybeSendAppend(l, pr, probe).bodies :
                 b.type = "Append" /\ IsSlice(b, l)
<1> DEFINE probing == probe /\ pr.next > pr.match + 1
           entries == IF probing THEN <<>> ELSE Scan(l, pr.next, MaxAppendEntries)
           body == [type |-> "Append", baseIndex |-> pr.next - 1,
                    baseTerm |-> TermAt(l, pr.next - 1), entries |-> entries]
           moved == [pr EXCEPT !.next = @ + Len(entries)]
<1>1. /\ Len(l) \in Nat /\ pr.match \in Nat /\ pr.next \in Nat \ {0}
      /\ pr.next \in pr.match + 1..Len(l) + 1
    BY LenProperties DEF Log, Progress, InRange
<1>2. /\ Len(entries) \in Nat /\ pr.next - 1 + Len(entries) <= Len(l)
      /\ \A k \in 1..Len(entries) : entries[k] = l[pr.next - 1 + k]
  <2>1. CASE probing
    <3>1. Len(entries) = 0
      BY <2>1
    <3> HIDE DEF entries
    <3> QED BY <1>1, <3>1
  <2>2. CASE ~probing
    <3> DEFINE last == Min2(Len(l), pr.next + MaxAppendEntries - 1)
    <3>1. last \in Nat /\ last <= Len(l)
      BY <1>1, BoundAssumption DEF Min2
    <3>2. entries = SubSeq(l, pr.next, last)
      BY <2>2 DEF Scan
    <3> HIDE DEF last, entries
    <3>3. CASE pr.next <= last
      <4>1. /\ Len(SubSeq(l, pr.next, last)) = last - pr.next + 1
            /\ \A k \in 1..last - pr.next + 1 :
                  SubSeq(l, pr.next, last)[k] = l[pr.next + k - 1]
        BY <1>1, <3>1, <3>3, SubSeqProperties DEF Log
      <4>2. Len(entries) = last - pr.next + 1
        BY <3>2, <4>1
      <4>3. ASSUME NEW k \in 1..Len(entries) PROVE entries[k] = l[pr.next - 1 + k]
        <5>1. pr.next + k - 1 = pr.next - 1 + k
          BY <1>1
        <5> QED BY <3>2, <4>1, <4>2, <5>1
      <4> QED BY <1>1, <3>1, <3>3, <4>2, <4>3
    <3>4. CASE pr.next > last
      <4>1. SubSeq(l, pr.next, last) = <<>>
        BY <1>1, <3>1, <3>4, SubSeqEmpty
      <4>2. Len(entries) = 0
        BY <3>2, <4>1
      <4> QED BY <1>1, <4>2
    <3> QED BY <1>1, <3>1, <3>3, <3>4
  <2> QED BY <2>1, <2>2
<1>3. IsSlice(body, l)
  <2> HIDE DEF entries
  <2> QED BY <1>2 DEF IsSlice
<1>4. moved.next = pr.next + Len(entries) /\ moved.match = pr.match
    BY <1>1 DEF Progress
<1>5. InRange(l, moved)
  <2> HIDE DEF entries, moved
  <2> QED BY <1>1, <1>2, <1>4 DEF InRange
<1>6. \/ MaybeSendAppend(l, pr, probe) = [progress |-> pr, bodies |-> {}]
      \/ MaybeSendAppend(l, pr, probe) = [progress |-> moved, bodies |-> {body}]
    BY DEF MaybeSendAppend
<1>7. body.type = "Append"
    OBVIOUS
<1> HIDE DEF body, moved
<1> QED BY <1>3, <1>5, <1>6, <1>7

\* The other updates of the progress stay in range.
LEMMA ProgressInRange ==
    ASSUME NEW l \in Log, NEW pr \in Progress, InRange(l, pr), NEW i \in Nat
    PROVE  /\ i <= Len(l) => InRange(l, Advance(pr, i))
           /\ InRange(l, AdvanceRead(pr, i))
           /\ InRange(l, RegressNext(pr, i))
<1>1. Len(l) \in Nat
    BY LenProperties DEF Log
<1> QED BY <1>1 DEF InRange, Progress, Advance, AdvanceRead, RegressNext, Max2

\* What a leader with log l sends: parts of it, in its term.
FromLeader(l, t, S) ==
    \A m \in S :
        /\ m.body.type \notin LeaderResponseTypes
        /\ m.body.type \in LeaderTypes => m.term = t
        /\ m.body.type = "Append" => IsSlice(m.body, l)

\* Client responses, heartbeats and reads are no appends.
LEMMA FromLeaderMsgs ==
    ASSUME NEW n, NEW t, NEW l
    PROVE  /\ \A R : FromLeader(l, t, ReplyMsgs(n, t, R))
           /\ \A b : b.type \in {"Heartbeat", "Read"} => FromLeader(l, t, Broadcast(n, t, b))
           /\ \A S, R : FromLeader(l, t, S) /\ FromLeader(l, t, R) => FromLeader(l, t, S \cup R)
           /\ FromLeader(l, t, {})
<1>1. \A R : FromLeader(l, t, ReplyMsgs(n, t, R))
    BY DEF FromLeader, ReplyMsgs, Env, LeaderResponseTypes, LeaderTypes
<1>2. \A b : b.type \in {"Heartbeat", "Read"} => FromLeader(l, t, Broadcast(n, t, b))
    BY DEF FromLeader, Broadcast, Env, LeaderResponseTypes
<1> QED BY <1>1, <1>2 DEF FromLeader

\* propose, when l has one entry more than the log that the progress is in range of.
LEMMA ProposeSlices ==
    ASSUME NEW n \in Node, NEW l0 \in Log, NEW l \in Log, Len(l) = Len(l0) + 1,
           NEW progress \in [Peers(n) -> Progress],
           \A p \in Peers(n) : InRange(l0, progress[p]), NEW t
    PROVE  /\ \A p \in Peers(n) : InRange(l, Propose(l, progress)[p].progress)
           /\ FromLeader(l, t, ProposalMsgs(n, t, Propose(l, progress)))
<1>1. Len(l0) \in Nat
    BY LenProperties DEF Log
<1>2. \A p \in Peers(n) : InRange(l, progress[p])
    BY <1>1 DEF InRange, Progress
<1>3. ASSUME NEW p \in Peers(n)
      PROVE  /\ InRange(l, Propose(l, progress)[p].progress)
             /\ \A b \in Propose(l, progress)[p].bodies : b.type = "Append" /\ IsSlice(b, l)
  <2>1. progress[p] \in Progress /\ InRange(l, progress[p])
    BY <1>2
  <2>2. \/ Propose(l, progress)[p] = MaybeSendAppend(l, progress[p], FALSE)
        \/ Propose(l, progress)[p] = [progress |-> progress[p], bodies |-> {}]
    BY DEF Propose
  <2>3. /\ InRange(l, MaybeSendAppend(l, progress[p], FALSE).progress)
        /\ \A b \in MaybeSendAppend(l, progress[p], FALSE).bodies :
              b.type = "Append" /\ IsSlice(b, l)
    BY <2>1, MaybeSendAppendSlices
  <2>4. CASE Propose(l, progress)[p] = [progress |-> progress[p], bodies |-> {}]
    BY <2>1, <2>4
  <2> QED BY <2>2, <2>3, <2>4
<1>4. DOMAIN Propose(l, progress) = Peers(n)
    BY DEF Propose
<1> QED BY <1>3, <1>4 DEF FromLeader, ProposalMsgs, Env, LeaderResponseTypes

-----------------------------------------------------------------------------
(* The actions.                                                            *)

\* A node that steps a message as a follower.
LEMMA EndAsFollowerLog ==
    ASSUME TypeInv, NEW n \in Node, NEW m \in msgs, NEW v, NEW r, r.kind = "follower",
           NEW sent, NEW replies, EndAsFollower(n, m, v, r, sent, replies),
           \A s \in sent : /\ s.body.type \notin LeaderTypes
                           /\ s.body.type \in LeaderResponseTypes =>
                                 s.term = m.term /\ m.body.type \in LeaderTypes,
           \A a \in Node \ {n} : log'[a] = log[a],
           log'[n] = log[n] \/ \E k \in msgs : Splices(n, k)
    PROVE  LogStep(n)
<1>1. role'[n].kind = "follower"
    BY DEF EndAsFollower, TypeInv, TypeOK
<1> DEFINE all == sent \cup ReplyMsgs(n, term[n], AbortedBy(n, m))
<1>2. msgs' \subseteq msgs \cup all
    BY SendSubset DEF EndAsFollower
<1>3. \A s \in all : /\ s.body.type \notin LeaderTypes
                     /\ s.body.type \in LeaderResponseTypes =>
                           s.term = m.term /\ m.body.type \in LeaderTypes
    BY DEF ReplyMsgs, Env, LeaderTypes, LeaderResponseTypes
<1> HIDE DEF all
<1> QED BY <1>1, <1>2, <1>3 DEF LogStep, LeaderTypes

\* Followers.
LEMMA FollowerLogSteps ==
    ASSUME TypeInv, NEW n \in Node, NEW m \in msgs,
           \/ HandleHeartbeat(n, m) \/ HandleAppend(n, m) \/ HandleRead(n, m)
           \/ HandleCampaign(n, m) \/ HandleClientResponse(n, m) \/ IgnoreVote(n, m)
    PROVE  LogStep(n)
<1>1. ASSUME NEW b, b.type \in LeaderResponseTypes, m.body.type \in LeaderTypes,
             FollowAndRespond(n, m, b), \A a \in Node \ {n} : log'[a] = log[a],
             log'[n] = log[n] \/ \E k \in msgs : Splices(n, k)
      PROVE  LogStep(n)
  <2> DEFINE e == Env(n, m.from, m.term, b)
  <2>1. e.body.type \notin LeaderTypes /\ e.term = m.term
    BY <1>1 DEF Env, LeaderTypes, LeaderResponseTypes
  <2>2. \A f : Follower(m.from, f).kind = "follower"
    BY DEF Follower
  <2> QED BY <1>1, <2>1, <2>2, EndAsFollowerLog DEF FollowAndRespond
<1>2. CASE HandleHeartbeat(n, m)
  <2>1. PICK b : b.type = "HeartbeatResponse" /\ FollowAndRespond(n, m, b)
    BY <1>2 DEF HandleHeartbeat
  <2>2. m.body.type \in LeaderTypes /\ b.type \in LeaderResponseTypes /\ log' = log
    BY <1>2, <2>1 DEF HandleHeartbeat, LeaderTypes, LeaderResponseTypes
  <2> QED BY <1>1, <2>1, <2>2
<1>3. CASE HandleAppend(n, m)
  <2>1. PICK b : b.type = "AppendResponse" /\ FollowAndRespond(n, m, b)
    BY <1>3 DEF HandleAppend
  <2>2. n \in DOMAIN term /\ n \in DOMAIN role /\ n \in DOMAIN log /\ DOMAIN log = Node
    BY DEF TypeInv, TypeOK
  <2>3. term'[n] = m.term /\ role'[n].kind = "follower"
    BY <2>1, <2>2 DEF FollowAndRespond, EndAsFollower, Follower
  <2>4. \A a \in Node \ {n} : log'[a] = log[a]
    BY <1>3, <2>2 DEF HandleAppend
  <2>5. log'[n] = log[n] \/ Splices(n, m)
    BY <1>3, <2>2, <2>3 DEF HandleAppend, Splices, Appends
  <2>6. m.body.type \in LeaderTypes /\ b.type \in LeaderResponseTypes
    BY <1>3, <2>1 DEF HandleAppend, LeaderTypes, LeaderResponseTypes
  <2> QED BY <1>1, <2>1, <2>4, <2>5, <2>6
<1>4. CASE HandleRead(n, m)
    BY <1>1, <1>4 DEF HandleRead, LeaderTypes, LeaderResponseTypes
<1>5. FollowerIn(n, m).kind = "follower"
    BY DEF FollowerIn, Follower
<1>6. CASE HandleCampaign(n, m)
  <2>1. PICK v, g : /\ EndAsFollower(n, m, v, FollowerIn(n, m), {Env(n, m.from, m.term,
                          [type |-> "CampaignResponse", vote |-> g])}, {})
                    /\ log' = log
    BY <1>6 DEF HandleCampaign
  <2> DEFINE e == Env(n, m.from, m.term, [type |-> "CampaignResponse", vote |-> g])
  <2>2. e.body.type \notin LeaderTypes /\ e.body.type \notin LeaderResponseTypes
    BY DEF Env, LeaderTypes, LeaderResponseTypes
  <2> HIDE DEF e
  <2> QED BY <1>5, <2>1, <2>2, EndAsFollowerLog DEF e
<1>7. CASE HandleClientResponse(n, m)
  <2>1. PICK f, replies :
          EndAsFollower(n, m, VoteIn(n, m), Follower(m.from, f), {}, replies) /\ log' = log
    BY <1>7 DEF HandleClientResponse
  <2>2. Follower(m.from, f).kind = "follower"
    BY DEF Follower
  <2> QED BY <2>1, <2>2, EndAsFollowerLog
<1>8. CASE IgnoreVote(n, m)
    BY <1>5, <1>8, EndAsFollowerLog DEF IgnoreVote
<1> QED BY <1>2, <1>3, <1>4, <1>6, <1>7, <1>8

\* The progress that a leader has recorded is in range of its log.
LEMMA LeaderInRange ==
    ASSUME TypeInv, LeaderState, NEW n \in Node, role[n].kind = "leader"
    PROVE  /\ log[n] \in Log /\ role[n].progress \in [Peers(n) -> Progress]
           /\ \A p \in Peers(n) :
                 role[n].progress[p] \in Progress /\ InRange(log[n], role[n].progress[p])
BY LeaderFields DEF LeaderState, IsLeader, InRange

\* A leader that keeps its log.
LEMMA LeaderLogStep ==
    ASSUME TypeInv, NEW n \in Node, role[n].kind = "leader", UNCHANGED <<term, log>>,
           NEW r, r.kind = "leader", role' = [role EXCEPT ![n] = r],
           \A p \in Peers(n) : InRange(log[n], r.progress[p]),
           NEW sent, msgs' \subseteq msgs \cup sent, FromLeader(log[n], term[n], sent)
    PROVE  LogStep(n)
<1>1. role'[n] = r
    BY DEF TypeInv, TypeOK
<1> QED BY <1>1 DEF LogStep, FromLeader, InRange

\* A step that keeps logs and roles and sends nothing that belongs to a log.
LEMMA QuietLogStep ==
    ASSUME TypeInv, LeaderState, NEW n \in Node, UNCHANGED <<term, log, role>>,
           NEW sent, msgs' \subseteq msgs \cup sent,
           \/ \A m \in sent : m.body.type \notin LeaderTypes \cup LeaderResponseTypes
           \/ role[n].kind = "leader" /\ FromLeader(log[n], term[n], sent)
    PROVE  LogStep(n)
<1>1. role[n].kind = "leader" => \A p \in Peers(n) :
        role[n].progress[p].next \in role[n].progress[p].match + 1..Len(log[n]) + 1
    BY DEF LeaderState, IsLeader
<1> QED BY <1>1 DEF LogStep, FromLeader, LeaderTypes

\* Leaders.
LEMMA LeaderLogSteps ==
    ASSUME TypeInv, LeaderState, NEW n \in Node, NEW m \in msgs,
           \/ HandleHeartbeatResponse(n, m) \/ HandleAppendResponse(n, m)
           \/ HandleAppendReject(n, m) \/ HandleReadResponse(n, m)
    PROVE  LogStep(n)
<1>1. role[n].kind = "leader" /\ m.from \in Peers(n) /\ m.body \in Body
    BY DEF HandleHeartbeatResponse, HandleAppendResponse, HandleAppendReject,
           HandleReadResponse, StepsAsLeader, TypeInv, TypeOK, Envelope, Peers
<1> DEFINE l == log[n]
           t == term[n]
           old == role[n].progress
<1>2. /\ l \in Log /\ Len(l) \in Nat /\ old \in [Peers(n) -> Progress]
      /\ \A p \in Peers(n) : old[p] \in Progress /\ InRange(l, old[p])
    BY <1>1, LeaderInRange, LenProperties DEF Log
<1>3. \A progress, acked, served :
        /\ LeaderAfter(n, progress, acked, served).kind = "leader"
        /\ LeaderAfter(n, progress, acked, served).progress = progress
    BY DEF LeaderAfter, Leader
<1>4. ASSUME NEW progress, NEW served, NEW sent, FromLeader(l, t, sent),
             \A p \in Peers(n) : InRange(l, progress[p]),
             EndAsLeader(n, m, progress, served, sent) \/ EndWithCommit(n, m, progress, served, sent)
      PROVE  LogStep(n)
  <2>1. PICK replies, acked, late :
          /\ Send(msgs \ {m}, sent \cup ReplyMsgs(n, t, replies))
          /\ role' = [role EXCEPT ![n] = LeaderAfter(n, progress, acked, late)]
          /\ UNCHANGED <<term, log>>
    BY <1>4 DEF EndAsLeader, EndWithCommit
  <2>2. FromLeader(l, t, sent \cup ReplyMsgs(n, t, replies))
    BY <1>4, FromLeaderMsgs
  <2>3. msgs' \subseteq msgs \cup (sent \cup ReplyMsgs(n, t, replies))
    BY <2>1, SendSubset
  <2>4. PICK r : r = LeaderAfter(n, progress, acked, late)
    OBVIOUS
  <2>5. r.kind = "leader" /\ role' = [role EXCEPT ![n] = r]
          /\ \A p \in Peers(n) : InRange(l, r.progress[p])
    BY <1>3, <1>4, <2>1, <2>4
  <2> QED BY <1>1, <2>1, <2>2, <2>3, <2>5, LeaderLogStep
<1>5. ASSUME NEW progress \in [Peers(n) -> Progress], NEW pr, InRange(l, pr),
             \A p \in Peers(n) : InRange(l, progress[p])
      PROVE  \A p \in Peers(n) : InRange(l, [progress EXCEPT ![m.from] = pr][p])
    BY <1>5
<1>6. FromLeader(l, t, {})
    BY FromLeaderMsgs
<1>7. CASE HandleHeartbeatResponse(n, m)
  <2> DEFINE read == [old EXCEPT ![m.from] = AdvanceRead(@, m.body.readSeq)]
             back == RegressNext(read[m.from], Len(l))
             probe == MaybeSendAppend(l, back, TRUE)
  <2>1. m.body.matchIndex \in Nat /\ m.body.readSeq \in Nat /\ m.body.matchIndex <= Len(l)
    BY <1>1, <1>7, BodyFields DEF HandleHeartbeatResponse
  <2>2. /\ AdvanceRead(old[m.from], m.body.readSeq) \in Progress
        /\ InRange(l, AdvanceRead(old[m.from], m.body.readSeq))
    BY <1>1, <1>2, <2>1, ProgressType, ProgressInRange
  <2>3. /\ read \in [Peers(n) -> Progress] /\ read[m.from] \in Progress
        /\ \A p \in Peers(n) : InRange(l, read[p])
    BY <1>1, <1>2, <1>5, <2>2
  <2> HIDE DEF read
  <2>4. back \in Progress /\ InRange(l, back)
    BY <1>1, <1>2, <2>3, ProgressType, ProgressInRange
  <2> HIDE DEF back
  <2>5. InRange(l, probe.progress)
          /\ FromLeader(l, t, {Env(n, m.from, t, b) : b \in probe.bodies})
    <3> HIDE DEF l, t
    <3>1. InRange(l, probe.progress)
      BY <1>2, <2>4, MaybeSendAppendSlices
    <3>2. FromLeader(l, t, {Env(n, m.from, t, b) : b \in probe.bodies})
      <4>1. back \in Progress /\ InRange(l, back) /\ l \in Log /\ TRUE \in BOOLEAN
        BY <1>2, <2>4
      <4>2. \A b \in probe.bodies : b.type = "Append" /\ IsSlice(b, l)
        BY <4>1, MaybeSendAppendSlices
      <4> HIDE DEF probe
      <4> QED BY <4>2 DEF FromLeader, Env, LeaderResponseTypes
    <3> QED BY <3>1, <3>2
  <2> HIDE DEF probe
  <2>6. \A p \in Peers(n) : InRange(l, [read EXCEPT ![m.from] = probe.progress][p])
    BY <1>5, <2>3, <2>5
  <2>7. InRange(l, Advance(read[m.from], m.body.matchIndex))
    BY <1>1, <1>2, <2>1, <2>3, ProgressInRange
  <2>8. \A p \in Peers(n) :
          InRange(l, [read EXCEPT ![m.from] = Advance(@, m.body.matchIndex)][p])
    BY <1>5, <2>3, <2>7
  <2>9. PICK served :
          \/ EndAsLeader(n, m, [read EXCEPT ![m.from] = probe.progress], served,
                         {Env(n, m.from, t, b) : b \in probe.bodies})
          \/ EndAsLeader(n, m, read, served, {})
          \/ EndWithCommit(n, m, [read EXCEPT ![m.from] = Advance(@, m.body.matchIndex)],
                           served, {})
    BY <1>7 DEF HandleHeartbeatResponse, read, back, probe
  <2> QED BY <1>4, <1>6, <2>3, <2>5, <2>6, <2>8, <2>9
<1>8. CASE HandleAppendResponse(n, m)
  <2> DEFINE adv == Advance(old[m.from], m.body.matchIndex)
             send == MaybeSendAppend(l, adv, FALSE)
             new == [old EXCEPT ![m.from] = send.progress]
             sent == {Env(n, m.from, t, b) : b \in send.bodies}
  <2>1. m.body.matchIndex \in Nat /\ m.body.matchIndex <= Len(l)
    BY <1>1, <1>8, BodyFields DEF HandleAppendResponse
  <2>2. adv \in Progress /\ InRange(l, adv)
    BY <1>1, <1>2, <2>1, ProgressType, ProgressInRange
  <2> HIDE DEF adv
  <2>3. InRange(l, send.progress) /\ FromLeader(l, t, sent)
    <3> HIDE DEF l, t
    <3>1. InRange(l, send.progress)
      BY <1>2, <2>2, MaybeSendAppendSlices
    <3>2. FromLeader(l, t, sent)
      <4>1. adv \in Progress /\ InRange(l, adv) /\ l \in Log /\ FALSE \in BOOLEAN
        BY <1>2, <2>2
      <4>2. \A b \in send.bodies : b.type = "Append" /\ IsSlice(b, l)
        BY <4>1, MaybeSendAppendSlices
      <4> HIDE DEF send
      <4> QED BY <4>2 DEF FromLeader, Env, LeaderResponseTypes
    <3> QED BY <3>1, <3>2
  <2>4. \A p \in Peers(n) : InRange(l, new[p])
    <3> HIDE DEF send
    <3> QED BY <1>2, <1>5, <2>3
  <2>5. EndWithCommit(n, m, new, {}, sent) \/ EndAsLeader(n, m, new, {}, sent)
    BY <1>8 DEF HandleAppendResponse, adv
  <2> HIDE DEF new, sent
  <2> QED BY <1>4, <2>3, <2>4, <2>5
<1>9. CASE HandleAppendReject(n, m)
  <2> DEFINE back == RegressNext(old[m.from], m.body.rejectIndex)
             send == MaybeSendAppend(l, back, TRUE)
             new == [old EXCEPT ![m.from] = send.progress]
             sent == {Env(n, m.from, t, b) : b \in send.bodies}
  <2>1. m.body.rejectIndex \in Nat
    BY <1>1, <1>9, BodyFields DEF HandleAppendReject
  <2>2. back \in Progress /\ InRange(l, back)
    BY <1>1, <1>2, <2>1, ProgressType, ProgressInRange
  <2> HIDE DEF back
  <2>3. InRange(l, send.progress) /\ FromLeader(l, t, sent)
    <3> HIDE DEF l, t
    <3>1. InRange(l, send.progress)
      BY <1>2, <2>2, MaybeSendAppendSlices
    <3>2. FromLeader(l, t, sent)
      <4>1. back \in Progress /\ InRange(l, back) /\ l \in Log /\ TRUE \in BOOLEAN
        BY <1>2, <2>2
      <4>2. \A b \in send.bodies : b.type = "Append" /\ IsSlice(b, l)
        BY <4>1, MaybeSendAppendSlices
      <4> HIDE DEF send
      <4> QED BY <4>2 DEF FromLeader, Env, LeaderResponseTypes
    <3> QED BY <3>1, <3>2
  <2>4. \A p \in Peers(n) : InRange(l, new[p])
    <3> HIDE DEF send
    <3> QED BY <1>2, <1>5, <2>3
  <2>5. EndAsLeader(n, m, new, {}, sent)
    BY <1>9 DEF HandleAppendReject, back
  <2> HIDE DEF new, sent
  <2> QED BY <1>4, <2>3, <2>4, <2>5
<1>10. CASE HandleReadResponse(n, m)
  <2> DEFINE new == [old EXCEPT ![m.from] = AdvanceRead(@, m.body.seq)]
  <2>1. m.body.seq \in Nat
    BY <1>1, <1>10, BodyFields DEF HandleReadResponse
  <2>2. InRange(l, AdvanceRead(old[m.from], m.body.seq))
    BY <1>1, <1>2, <2>1, ProgressInRange
  <2>3. \A p \in Peers(n) : InRange(l, new[p])
    BY <1>1, <1>2, <1>5, <2>2
  <2>4. \E served : EndAsLeader(n, m, new, served, {})
    BY <1>10 DEF HandleReadResponse
  <2> HIDE DEF new
  <2> QED BY <1>4, <1>6, <2>3, <2>4
<1> QED BY <1>7, <1>8, <1>9, <1>10

\* A leader, old or new, that proposes an entry.
LEMMA ProposalLogStep ==
    ASSUME TypeInv, NEW n \in Node, role[n].kind \in {"leader", "candidate"},
           UNCHANGED term, NEW e \in Entry, e.term = term[n],
           log' = [log EXCEPT ![n] = Append(log[n], e)],
           NEW r, r.kind = "leader", role' = [role EXCEPT ![n] = r],
           \A p \in Peers(n) : InRange(Append(log[n], e), r.progress[p]),
           NEW sent, msgs' \subseteq msgs \cup sent,
           FromLeader(Append(log[n], e), term[n], sent)
    PROVE  LogStep(n)
<1>1. /\ role'[n] = r /\ log'[n] = Append(log[n], e)
      /\ \A a \in Node \ {n} : log'[a] = log[a]
    BY DEF TypeInv, TypeOK
<1>2. Proposes(n, e)
    BY <1>1 DEF Proposes
<1> QED BY <1>1, <1>2 DEF LogStep, FromLeader, InRange

\* Timeouts, counted and refused votes, new leaders.
LEMMA ElectionLogSteps ==
    ASSUME TypeInv, LeaderState, NEW n \in Node,
           \/ FollowerTimeout(n) \/ CandidateTimeout(n) \/ HeartbeatTick(n)
           \/ \E m \in msgs : RefuseVote(n, m) \/ RecordVote(n, m) \/ BecomeLeader(n, m)
                                \/ Ignore(n, m)
    PROVE  LogStep(n)
<1>1. n \in DOMAIN term /\ n \in DOMAIN role /\ term[n] \in Nat /\ log[n] \in Log
    BY DEF TypeInv, TypeOK
<1>2. CASE FollowerTimeout(n) \/ CandidateTimeout(n)
  <2>1. PICK replies : Campaign(n, replies)
    BY <1>2 DEF FollowerTimeout, CandidateTimeout
  <2>2. term'[n] = term[n] + 1 /\ role'[n] = Candidate({n}) /\ log' = log
    BY <1>1, <2>1 DEF Campaign
  <2>3. PICK b : b.type = "Campaign" /\ Send(msgs, Broadcast(n, term[n] + 1, b))
    BY <2>1 DEF Campaign
  <2>4. \A m \in Broadcast(n, term[n] + 1, b) :
          m.body.type \notin LeaderTypes \cup LeaderResponseTypes
    BY <2>3 DEF Broadcast, Env, LeaderTypes, LeaderResponseTypes
  <2>5. msgs' \subseteq msgs \cup Broadcast(n, term[n] + 1, b)
    BY <2>3, SendSubset
  <2> QED BY <1>1, <2>2, <2>4, <2>5 DEF LogStep, Candidate, LeaderTypes
<1>3. CASE HeartbeatTick(n)
  <2>1. PICK b : b.type = "Heartbeat" /\ Send(msgs, Broadcast(n, term[n], b))
    BY <1>3 DEF HeartbeatTick, HeartbeatBody
  <2>2. FromLeader(log[n], term[n], Broadcast(n, term[n], b))
    BY <2>1, FromLeaderMsgs
  <2>3. msgs' \subseteq msgs \cup Broadcast(n, term[n], b)
    BY <2>1, SendSubset
  <2> QED BY <1>3, <2>2, <2>3, QuietLogStep DEF HeartbeatTick
<1>4. ASSUME NEW m \in msgs, RefuseVote(n, m) PROVE LogStep(n)
  <2> DEFINE e == Env(n, m.from, m.term, [type |-> "CampaignResponse", vote |-> FALSE])
  <2>1. e.body.type \notin LeaderTypes \cup LeaderResponseTypes
    BY DEF Env, LeaderTypes, LeaderResponseTypes
  <2>2. msgs' \subseteq msgs \cup {e} /\ UNCHANGED <<term, log, role>>
    BY <1>4, SendSubset DEF RefuseVote
  <2> HIDE DEF e
  <2> QED BY <2>1, <2>2, QuietLogStep
<1>5. ASSUME NEW m \in msgs, Ignore(n, m) PROVE LogStep(n)
  <2>1. PICK sent : sent = {} /\ Send(msgs \ {m}, sent) /\ UNCHANGED <<term, log, role>>
    BY <1>5 DEF Ignore
  <2>2. msgs' \subseteq msgs \cup sent
    BY <2>1, SendSubset
  <2> QED BY <2>1, <2>2, QuietLogStep
<1>6. ASSUME NEW m \in msgs, RecordVote(n, m) PROVE LogStep(n)
  <2>1. msgs' \subseteq msgs /\ log' = log
    BY <1>6, SendSubset DEF RecordVote
  <2>2. role[n].kind = "candidate" /\ role'[n].kind = "candidate"
    BY <1>1, <1>6 DEF RecordVote, Candidate
  <2> QED BY <2>1, <2>2 DEF LogStep
<1>7. ASSUME NEW m \in msgs, BecomeLeader(n, m) PROVE LogStep(n)
  <2> DEFINE e == [term |-> term[n], command |-> Noop]
             l == Append(log[n], e)
             new == [p \in Peers(n) |-> [match |-> 0, next |-> Len(log[n]) + 1,
                                         readSeq |-> 0]]
             out == Propose(l, new)
             r == Leader([p \in Peers(n) |-> out[p].progress], {}, {}, 0)
             hb == HeartbeatBody(l, commit[n], 0)
             sent == ProposalMsgs(n, term[n], out) \cup Broadcast(n, term[n], hb)
  <2>1. e \in Entry /\ e.term = term[n]
    BY <1>1 DEF Entry
  <2> HIDE DEF e
  <2>2. l \in Log /\ Len(l) = Len(log[n]) + 1 /\ Len(log[n]) \in Nat
    BY <1>1, <2>1, GrownLinks, LenProperties DEF Log
  <2>3. new \in [Peers(n) -> Progress] /\ \A p \in Peers(n) : InRange(log[n], new[p])
    BY <2>2 DEF Progress, InRange
  <2>4. /\ role' = [role EXCEPT ![n] = r] /\ log' = [log EXCEPT ![n] = l]
        /\ Send(msgs \ {m}, sent) /\ role[n].kind = "candidate" /\ UNCHANGED term
    BY <1>7 DEF BecomeLeader, e
  <2> HIDE DEF new
  <2>5. /\ \A p \in Peers(n) : InRange(l, out[p].progress)
        /\ FromLeader(l, term[n], ProposalMsgs(n, term[n], out))
    <3> HIDE DEF l
    <3> QED BY <1>1, <2>2, <2>3, ProposeSlices
  <2>6. FromLeader(l, term[n], Broadcast(n, term[n], hb))
    <3>1. hb.type = "Heartbeat"
      BY DEF HeartbeatBody
    <3> HIDE DEF hb
    <3> QED BY <3>1, FromLeaderMsgs
  <2> HIDE DEF out
  <2>7. r.kind = "leader" /\ \A p \in Peers(n) : InRange(l, r.progress[p])
    BY <2>5 DEF Leader
  <2>8. FromLeader(l, term[n], sent)
    BY <2>5, <2>6, FromLeaderMsgs
  <2>9. msgs' \subseteq msgs \cup sent
    BY <2>4, SendSubset
  <2> HIDE DEF r, sent
  <2> QED BY <2>1, <2>4, <2>7, <2>8, <2>9, ProposalLogStep
<1> QED BY <1>2, <1>3, <1>4, <1>5, <1>6, <1>7

\* Client requests.
LEMMA RequestLogSteps ==
    ASSUME TypeInv, LeaderState, NEW n \in Node, NEW from, NEW id \in Request, NEW cl, NEW rest,
           rest \subseteq msgs, StepRequest(n, from, id, cl, rest)
    PROVE  LogStep(n)
<1>1. UNCHANGED term /\ n \in DOMAIN role /\ term[n] \in Nat /\ log[n] \in Log
    BY DEF StepRequest, TypeInv, TypeOK
<1>2. CASE AbortRequest(n, from, id, cl, rest) \/ ServeStatus(n, from, id, cl, rest)
  <2>1. PICK R : Send(rest, ReplyMsgs(n, term[n], R)) /\ role' = role /\ log' = log
    BY <1>2 DEF AbortRequest, ServeStatus
  <2>2. msgs' \subseteq msgs \cup ReplyMsgs(n, term[n], R)
    BY <2>1, SendSubset
  <2>3. \A m \in ReplyMsgs(n, term[n], R) :
          m.body.type \notin LeaderTypes \cup LeaderResponseTypes
    BY DEF ReplyMsgs, Env, LeaderTypes, LeaderResponseTypes
  <2> QED BY <1>1, <2>1, <2>2, <2>3, QuietLogStep
<1>3. CASE ForwardRequest(n, from, id, cl, rest)
  <2> DEFINE e == Env(n, role[n].leader, term[n], [type |-> "ClientRequest", id |-> id])
  <2>1. role'[n].kind = "follower" /\ Send(rest, {e}) /\ log' = log
    BY <1>1, <1>3 DEF ForwardRequest, Follower
  <2>2. e.body.type \notin LeaderTypes \cup LeaderResponseTypes
    BY DEF Env, LeaderTypes, LeaderResponseTypes
  <2>3. msgs' \subseteq msgs \cup {e}
    BY <2>1, SendSubset
  <2> HIDE DEF e
  <2> QED BY <2>1, <2>2, <2>3 DEF LogStep, LeaderTypes
<1>4. CASE ProposeWrite(n, from, id, cl, rest)
  <2> DEFINE e == [term |-> term[n], command |-> id]
             l == Append(log[n], e)
             out == Propose(l, role[n].progress)
             r == Leader([p \in Peers(n) |-> out[p].progress],
                         role[n].writes \cup {[index |-> Len(l), from |-> from, id |-> id]},
                         role[n].reads, role[n].readSeq)
             sent == ProposalMsgs(n, term[n], out)
  <2>1. e \in Entry /\ e.term = term[n]
    BY <1>1, <1>4 DEF Entry, ProposeWrite
  <2>2. /\ role' = [role EXCEPT ![n] = r] /\ log' = [log EXCEPT ![n] = l]
        /\ Send(rest, sent) /\ role[n].kind = "leader"
    BY <1>4 DEF ProposeWrite
  <2> HIDE DEF e
  <2>3. l \in Log /\ Len(l) = Len(log[n]) + 1
    BY <1>1, <2>1, GrownLinks
  <2>4. /\ \A p \in Peers(n) : InRange(l, out[p].progress)
        /\ FromLeader(l, term[n], sent)
    <3> HIDE DEF l
    <3> QED BY <1>1, <2>2, <2>3, LeaderInRange, ProposeSlices
  <2>5. r.kind = "leader" /\ \A p \in Peers(n) : InRange(l, r.progress[p])
    BY <2>4 DEF Leader
  <2>6. msgs' \subseteq msgs \cup sent
    BY <2>2, SendSubset
  <2> HIDE DEF r, sent
  <2> QED BY <1>1, <2>1, <2>2, <2>4, <2>5, <2>6, ProposalLogStep
<1>5. CASE QueueRead(n, from, id, cl, rest)
  <2>1. PICK reads, seq :
          /\ Send(rest, Broadcast(n, term[n], [type |-> "Read", seq |-> seq]))
          /\ role' = [role EXCEPT ![n] = Leader(role[n].progress, role[n].writes, reads, seq)]
          /\ log' = log /\ role[n].kind = "leader"
    BY <1>5 DEF QueueRead
  <2> DEFINE b == [type |-> "Read", seq |-> seq]
  <2> DEFINE r == Leader(role[n].progress, role[n].writes, reads, seq)
  <2>2. FromLeader(log[n], term[n], Broadcast(n, term[n], b))
    BY <2>1, FromLeaderMsgs
  <2>3. msgs' \subseteq msgs \cup Broadcast(n, term[n], b)
    BY <2>1, SendSubset
  <2>4. r.kind = "leader" /\ \A p \in Peers(n) : InRange(log[n], r.progress[p])
    BY <2>1, LeaderInRange DEF Leader
  <2>5. role' = [role EXCEPT ![n] = r]
    BY <2>1
  <2> HIDE DEF r
  <2> QED BY <1>1, <2>1, <2>2, <2>3, <2>4, <2>5, LeaderLogStep
<1> QED BY <1>2, <1>3, <1>4, <1>5 DEF StepRequest

\* Requests, panics and restarts.
LEMMA OtherLogSteps ==
    ASSUME TypeInv, LeaderState, NEW n \in Node,
           \/ Restart(n) \/ \E id \in Request : SubmitRequest(n, id)
           \/ \E m \in msgs : HandleClientRequest(n, m) \/ Panic(n, m)
    PROVE  LogStep(n)
<1>1. n \in DOMAIN role
    BY DEF TypeInv, TypeOK
<1>2. CASE Restart(n)
    BY <1>1, <1>2 DEF Restart, LogStep, Follower
<1>3. ASSUME NEW id \in Request, SubmitRequest(n, id) PROVE LogStep(n)
    BY <1>3, RequestLogSteps DEF SubmitRequest
<1>4. ASSUME NEW m \in msgs, HandleClientRequest(n, m) PROVE LogStep(n)
  <2>1. msgs \ {m} \subseteq msgs /\ m.body.id \in Request
    BY <1>4, BodyFields DEF HandleClientRequest, TypeInv, TypeOK, Envelope
  <2> QED BY <1>4, <2>1, RequestLogSteps DEF HandleClientRequest
<1>5. ASSUME NEW m \in msgs, Panic(n, m) PROVE LogStep(n)
  <2>1. role'[n].kind = "down" /\ log' = log /\ msgs' \subseteq msgs
    BY <1>1, <1>5, SendSubset DEF Panic, Down
  <2> QED BY <2>1 DEF LogStep
<1> QED BY <1>2, <1>3, <1>4, <1>5

\* Every step of a node is one of the kind described above.
LEMMA StepIsLogStep ==
    ASSUME TypeInv, LeaderState, NEW n \in Node, StepOf(n)
    PROVE  LogStep(n)
BY FollowerLogSteps, LeaderLogSteps, ElectionLogSteps, OtherLogSteps DEF StepOf, Receive

-----------------------------------------------------------------------------
(* Log matching.                                                           *)

\* A log that could be put together from the links of the system: the logs of
\* all nodes, and whatever splicing appends into them can make of them.
Buildable == {l \in Log : LogLinks(l) \subseteq Links}

\* Every log of a node is one.
LEMMA LogsAreBuildable ==
    ASSUME TypeInv, NEW a \in Node
    PROVE  log[a] \in Buildable
BY LinksOfParts DEF Buildable, TypeInv, TypeOK

\* Two such logs that have the same term at an index are the same up to it.
LEMMA BuildableLogsMatch ==
    ASSUME TypeInv, LinksAgree, NEW l1 \in Buildable, NEW l2 \in Buildable,
           NEW i \in 1..Len(l1), i \in 1..Len(l2), l1[i].term = l2[i].term
    PROVE  \A k \in 1..i : l1[k] = l2[k]
<1>1. /\ l1 \in Log /\ l2 \in Log /\ Len(l1) \in Nat /\ Len(l2) \in Nat
      /\ LogLinks(l1) \subseteq Links /\ LogLinks(l2) \subseteq Links
    BY LenProperties DEF Buildable, Log
<1>2. ASSUME NEW k \in 1..i, l1[k].term = l2[k].term
      PROVE  l1[k] = l2[k] /\ TermAt(l1, k - 1) = TermAt(l2, k - 1)
  <2>1. k \in 1..Len(l1) /\ k \in 1..Len(l2)
    BY <1>1
  <2> DEFINE x == LinkAt(0, 0, l1, k)
             y == LinkAt(0, 0, l2, k)
  <2>2. /\ x \in Links /\ x.index = k /\ x.entry = l1[k] /\ x.prev = TermAt(l1, k - 1)
        /\ y \in Links /\ y.index = k /\ y.entry = l2[k] /\ y.prev = TermAt(l2, k - 1)
    BY <1>1, <2>1, LogLinkFields
  <2> HIDE DEF x, y
  <2>3. x = y
    BY <1>2, <2>2 DEF LinksAgree
  <2> QED BY <2>2, <2>3
<1> DEFINE S == {k \in 1..i : l1[k] # l2[k]}
<1> SUFFICES ASSUME S # {} PROVE FALSE
    OBVIOUS
<1>3. S \subseteq 0..i /\ i \in Nat
    BY <1>1
<1>4. PICK k \in S : \A j \in S : j <= k
  <2> HIDE DEF S
  <2> QED BY <1>3, HasMaximum
<1>5. k \in 1..i /\ l1[k] # l2[k] /\ k # i
    BY <1>2
<1>6. k + 1 \in 1..i /\ l1[k + 1] = l2[k + 1]
    BY <1>1, <1>4, <1>5
<1>7. TermAt(l1, k) = TermAt(l2, k)
  <2>1. (k + 1) - 1 = k
    BY <1>1, <1>5
  <2> QED BY <1>2, <1>6, <2>1
<1>8. l1[k].term = l2[k].term
    BY <1>1, <1>5, <1>7 DEF TermAt
<1> QED BY <1>2, <1>5, <1>8

\* The invariant says that logs match.
LEMMA MatchingImpliesLogMatching ==
    ASSUME TypeInv, MatchingInv
    PROVE  LogMatching
<1> SUFFICES ASSUME NEW m \in Node, NEW n \in Node,
                    NEW i \in 1..Min2(Len(log[m]), Len(log[n])),
                    log[m][i].term = log[n][i].term
             PROVE  SubSeq(log[m], 1, i) = SubSeq(log[n], 1, i)
    BY DEF LogMatching
<1>1. /\ log[m] \in Log /\ log[n] \in Log /\ Len(log[m]) \in Nat /\ Len(log[n]) \in Nat
    BY LenProperties DEF TypeInv, TypeOK, Log
<1>2. i \in 1..Len(log[m]) /\ i \in 1..Len(log[n])
    BY <1>1 DEF Min2
<1>3. log[m] \in Buildable /\ log[n] \in Buildable /\ LinksAgree
    BY LogsAreBuildable DEF MatchingInv
<1>4. \A k \in 1..i : log[m][k] = log[n][k]
    BY <1>2, <1>3, BuildableLogsMatch
<1> QED BY <1>1, <1>2, <1>4

\* The invariant holds initially: there are no entries and no messages.
LEMMA MatchingInit ==
    ASSUME Init
    PROVE  MatchingInv
<1>1. Links = {} /\ Appends = {} /\ \A a \in Node : LogLinks(log[a]) = {} /\ ~IsLeader(a)
    BY DEF Init, Links, Appends, LogLinks, LinksIn, IsLeader, Follower
<1>2. msgs = {}
    BY DEF Init
<1> QED BY <1>1, <1>2 DEF MatchingInv, LeaderState, LinksAgree, LinksAreSorted, TermsStartOnce,
           TermsAreOwned, LeaderHasLinks, AppendsAreSlices, TermsAreBounded

\* Every step keeps the invariant.
LEMMA MatchingNext ==
    ASSUME TypeInv, ElectionInv, MatchingInv, [Next]_vars
    PROVE  MatchingInv'
<1>1. TypeInv' /\ ElectionInv'
    BY TypeInvStep, ElectionInvNext
<1>2. CASE UNCHANGED vars
  <2>1. Links' = Links /\ Appends' = Appends
    BY <1>2 DEF vars, Links, Appends, LogLinks, AppendLinks, LinksIn, LinkAt
  <2>2. \A t : Owned(t)' <=> Owned(t)
    BY <1>2 DEF vars, Owned, IsQuorum, Backs, VotedFor, Supports, Granted, Counted, IsGrant
  <2> QED BY <1>2, <2>1, <2>2 DEF vars, MatchingInv, LeaderState, LinksAgree, LinksAreSorted,
             TermsStartOnce, TermsAreOwned, LeaderHasLinks, AppendsAreSlices, TermsAreBounded,
             IsLeader, IsSlice, LastTerm, TermAt, LogLinks, AppendLinks, LinksIn, LinkAt
<1>3. CASE Next
  <2>1. PICK n \in Node : StepOf(n)
    BY <1>3, NextIsAStep
  <2>2. ElectionStep(n) /\ LogStep(n)
    BY <2>1, StepIsElectionStep, StepIsLogStep DEF MatchingInv
  <2> QED BY <1>1, <2>2, MatchingKept, MatchingGrown
<1> QED BY <1>2, <1>3

\* In every behaviour, logs that have an entry of the same index and term are
\* the same up to it (Log::splice, and the base of every append).
THEOREM LogsMatch == Spec => []LogMatching
<1>1. Init => TypeInv /\ ElectionInv /\ MatchingInv
    BY TypeInvInit, ElectionInvInit, MatchingInit
<1>2. TypeInv /\ ElectionInv /\ MatchingInv /\ [Next]_vars => (TypeInv /\ ElectionInv /\ MatchingInv)'
    BY TypeInvStep, ElectionInvNext, MatchingNext
<1>3. TypeInv /\ ElectionInv /\ MatchingInv => LogMatching
    BY MatchingImpliesLogMatching
<1> QED BY <1>1, <1>2, <1>3, PTL DEF Spec
=============================================================================
