-------------------------------- MODULE Raft --------------------------------
(***************************************************************************)
(* The Raft node of src/raft/node.rs: leader election, log replication,    *)
(* commit and application, linearizable reads and client requests, for a   *)
(* cluster of two nodes or more.  Every action is one call of Node::step,  *)
(* Node::tick or Node::new, with everything that the call does: adopting a *)
(* later term, stepping the message again in the new role, the messages it *)
(* sends and the client responses it emits.                                *)
(*                                                                         *)
(* The network (src/server.rs) may lose, delay and reorder messages: each  *)
(* sending loses any part of what is sent, and messages in flight are      *)
(* received in any order, each once.                                       *)
(*                                                                         *)
(* Timers are abstracted: a tick that reaches the election timeout or the  *)
(* heartbeat interval may happen at any time; other ticks change nothing.  *)
(***************************************************************************)
EXTENDS RaftLog, FiniteSets, FiniteSetsExt

CONSTANTS
    Node,               \* the cluster
    NoNode,             \* Rust's None, for a vote or a leader
    Write, Read, Status,\* client requests by kind, each submitted at most once
    Noop,               \* the empty command that a new leader proposes
    MaxAppendEntries,   \* Options::max_append_entries
    MaxTerm,            \* bound: no election starts in a later term
    MaxRestarts,        \* bound: crashes of nodes, over the whole behaviour
    MaxInFlight         \* bound: messages in flight; more than these are lost

Request == Write \cup Read \cup Status

ASSUME NodeAssumption == IsFiniteSet(Node) /\ Cardinality(Node) > 1 /\ NoNode \notin Node
ASSUME RequestAssumption ==
    /\ Write \cap Read = {} /\ Write \cap Status = {} /\ Read \cap Status = {}
    /\ Noop \notin Request
ASSUME BoundAssumption ==
    /\ MaxAppendEntries \in Nat \ {0}
    /\ MaxTerm \in Nat /\ MaxRestarts \in Nat /\ MaxInFlight \in Nat

VARIABLES
    term, vote, log,    \* Log: durable, flushed by every update
    commit,             \* Log::commit_index: written, not flushed
    applied,            \* State::get_applied_index: written, not flushed
    role,               \* RawNode::role, with the state of the role
    msgs,               \* envelopes sent between nodes
    client,             \* what the submitter of each request knows of it
    panics,             \* the assertions that have failed so far
    restarts            \* the number of crashes so far

vars == <<term, vote, log, commit, applied, role, msgs, client, panics, restarts>>

-----------------------------------------------------------------------------
(* Roles, progress and quorums.                                            *)

Follower(leader, forwarded) ==
    [kind |-> "follower", leader |-> leader, forwarded |-> forwarded]

Candidate(votes) == [kind |-> "candidate", votes |-> votes]

Leader(progress, writes, reads, readSeq) ==
    [kind |-> "leader", progress |-> progress, writes |-> writes,
     reads |-> reads, readSeq |-> readSeq]

Down == [kind |-> "down"]

Peers(n) == Node \ {n}

IsQuorum(S) == 2 * Cardinality(S) > Cardinality(Node)

\* RawNode::quorum_value: the largest value that a quorum has reached.
QuorumValue(f) ==
    Max({v \in {f[p] : p \in Node} : IsQuorum({p \in Node : f[p] >= v})})

Advance(pr, match) ==
    IF match <= pr.match THEN pr
    ELSE [match |-> match, next |-> Max2(pr.next, match + 1), readSeq |-> pr.readSeq]

AdvanceRead(pr, seq) == [pr EXCEPT !.readSeq = Max2(pr.readSeq, seq)]

\* Mutant: one below the rejected index, with no lower limit.
RegressNextTooFar(pr, next) ==
    IF next >= pr.next THEN pr ELSE [pr EXCEPT !.next = next - 1]

RegressNext(pr, next) ==
    IF next >= pr.next \/ pr.next <= pr.match + 1 THEN pr
    ELSE [pr EXCEPT !.next = Max2(next, pr.match + 1)]

-----------------------------------------------------------------------------
(* Messages and client responses.                                          *)

Env(from, to, t, body) == [from |-> from, to |-> to, term |-> t, body |-> body]

Broadcast(n, t, body) == {Env(n, p, t, body) : p \in Peers(n)}

LeaderTypes == {"Heartbeat", "Append", "Read"}

LeaderResponseTypes == {"HeartbeatResponse", "AppendResponse", "ReadResponse"}

\* A response to a request that node `to` submitted.
Reply(to, id, status, value) ==
    [to |-> to, id |-> id, status |-> status, value |-> value]

\* Responses to other nodes travel as messages of term t.
ReplyMsgs(n, t, replies) ==
    {Env(n, r.to, t, [type |-> "ClientResponse", id |-> r.id,
                      status |-> r.status, value |-> r.value])
        : r \in {q \in replies : q.to # n}}

\* A response to the local node reaches the waiting client (raft_route).
Answer(cl, n, replies) ==
    [i \in Request |->
        LET mine == {r \in replies : r.to = n /\ r.id = i}
        IN  IF mine = {} THEN cl[i]
            ELSE LET r == CHOOSE r \in mine : TRUE
                 IN  [cl[i] EXCEPT !.status = r.status, !.value = r.value]]

\* Sending the envelopes in `sent` when those in `rest` are in flight: the
\* bounded channel to the peer and its TCP connection may lose any of them.
Send(rest, sent) ==
    \E kept \in SUBSET sent :
        /\ Cardinality(rest \cup kept) <= MaxInFlight
        /\ msgs' = rest \cup kept

\* Mutant: empty commands reach the state machine too.
StateAtWithNoops(l, a) == {l[i].command : i \in 1..a}

\* The state machine after applying the log up to index a: the set of writes.
StateAt(l, a) == {l[i].command : i \in 1..a} \cap Write

\* What a client that submits a request knows to have happened before it.
Known == {w \in Write : client[w].status = "ok"}
            \cup UNION {client[r].value : r \in Read}

-----------------------------------------------------------------------------
(* Stepping a message as a follower, which a node does in its own term when *)
(* it is one, in a later term from any role, and as a candidate when it     *)
(* hears from the winner of the election.                                   *)

StepsAsFollower(n, m) ==
    /\ m.to = n /\ role[n].kind # "down"
    /\ \/ m.term > term[n]
       \/ m.term = term[n] /\ role[n].kind = "follower"
       \/ m.term = term[n] /\ role[n].kind = "candidate" /\ m.body.type \in LeaderTypes

\* Mutant: the leader of the last term is not forgotten.
FollowerInAnyTerm(n, m) ==
    IF role[n].kind = "follower" THEN role[n] ELSE Follower(NoNode, {})

\* The follower that steps m: leaderless if the term or the role just changed.
FollowerIn(n, m) ==
    IF m.term = term[n] /\ role[n].kind = "follower" THEN role[n]
    ELSE Follower(NoNode, {})

\* Mutant: the vote is cleared by every message.
VoteInNoTerm(n, m) == NoNode

VoteIn(n, m) == IF m.term > term[n] THEN NoNode ELSE vote[n]

\* The requests in flight at n, aborted when it leaves its term.
Aborted(n) ==
    CASE role[n].kind = "follower" ->
            {Reply(n, i, "abort", {}) : i \in role[n].forwarded}
      [] role[n].kind = "leader" ->
            {Reply(r.from, r.id, "abort", {}) : r \in role[n].writes \cup role[n].reads}
      [] OTHER -> {}

AbortedBy(n, m) == IF m.term > term[n] THEN Aborted(n) ELSE {}

\* The rest of a step that leaves n a follower: it has m's term and vote v, the
\* role r, has sent `sent` and answered its own client with `replies`.
EndAsFollower(n, m, v, r, sent, replies) ==
    /\ term' = [term EXCEPT ![n] = m.term]
    /\ vote' = [vote EXCEPT ![n] = v]
    /\ role' = [role EXCEPT ![n] = r]
    /\ Send(msgs \ {m}, sent \cup ReplyMsgs(n, term[n], AbortedBy(n, m)))
    /\ client' = Answer(client, n, AbortedBy(n, m) \cup replies)
    /\ UNCHANGED <<panics, restarts>>

\* Following the leader that sent m, and responding to it.
FollowAndRespond(n, m, body) ==
    /\ FollowerIn(n, m).leader \in {NoNode, m.from}
    /\ EndAsFollower(n, m, VoteIn(n, m), Follower(m.from, FollowerIn(n, m).forwarded),
                     {Env(n, m.from, m.term, body)}, {})

\* Mutant: only the length of the log is compared with the leader's.
HeartbeatMatchByLength(n, m) ==
    IF m.body.lastIndex <= Len(log[n]) THEN m.body.lastIndex ELSE 0

\* The index up to which a follower knows that its log is the leader's: the
\* leader's last entry is always of its own term.
HeartbeatMatch(n, m) ==
    IF Has(log[n], m.body.lastIndex, m.term) THEN m.body.lastIndex ELSE 0

HandleHeartbeat(n, m) ==
    /\ m.body.type = "Heartbeat" /\ StepsAsFollower(n, m)
    /\ m.body.commitIndex <= m.body.lastIndex
    /\ LET match   == HeartbeatMatch(n, m)
           commits == match # 0 /\ m.body.commitIndex > commit[n]
       IN  /\ FollowAndRespond(n, m, [type |-> "HeartbeatResponse", matchIndex |-> match,
                                      readSeq |-> m.body.readSeq])
           /\ commit' = IF commits THEN [commit EXCEPT ![n] = m.body.commitIndex] ELSE commit
           /\ applied' = IF commits
                         THEN [applied EXCEPT ![n] = Max2(@, m.body.commitIndex)] ELSE applied
    /\ UNCHANGED log

HandleAppend(n, m) ==
    /\ m.body.type = "Append" /\ StepsAsFollower(n, m)
    /\ LET base == m.body.baseIndex
           es   == m.body.entries
       IN  \/ /\ HasBase(log[n], base, m.body.baseTerm)
              /\ ~SplicePanics(log[n], m.term, commit[n], base, es)
              /\ log' = [log EXCEPT ![n] = Splice(@, base, es)]
              /\ FollowAndRespond(n, m, [type |-> "AppendResponse",
                                         matchIndex |-> base + Len(es), rejectIndex |-> 0])
           \/ /\ ~HasBase(log[n], base, m.body.baseTerm)
              /\ FollowAndRespond(n, m, [type |-> "AppendResponse", matchIndex |-> 0,
                                         rejectIndex |-> Min2(base, Len(log[n]) + 1)])
              /\ UNCHANGED log
    /\ UNCHANGED <<commit, applied>>

HandleRead(n, m) ==
    /\ m.body.type = "Read" /\ StepsAsFollower(n, m)
    /\ FollowAndRespond(n, m, [type |-> "ReadResponse", seq |-> m.body.seq])
    /\ UNCHANGED <<log, commit, applied>>

\* A follower grants one vote per term, to a log at least as complete as its own.
GrantsVote(n, m) ==
    /\ VoteIn(n, m) \in {NoNode, m.from}
    /\ \/ LastTerm(log[n]) < m.body.lastTerm
       \/ LastTerm(log[n]) = m.body.lastTerm /\ Len(log[n]) <= m.body.lastIndex

HandleCampaign(n, m) ==
    /\ m.body.type = "Campaign" /\ StepsAsFollower(n, m)
    /\ EndAsFollower(n, m, IF GrantsVote(n, m) THEN m.from ELSE VoteIn(n, m), FollowerIn(n, m),
                     {Env(n, m.from, m.term, [type |-> "CampaignResponse",
                                              vote |-> GrantsVote(n, m)])}, {})
    /\ UNCHANGED <<log, commit, applied>>

\* Candidates and leaders have voted for themselves in this term.
RefuseVote(n, m) ==
    /\ m.body.type = "Campaign" /\ m.to = n /\ m.term = term[n]
    /\ role[n].kind \in {"candidate", "leader"}
    /\ Send(msgs \ {m}, {Env(n, m.from, m.term, [type |-> "CampaignResponse", vote |-> FALSE])})
    /\ UNCHANGED <<term, vote, log, commit, applied, role, client, panics, restarts>>

\* A follower passes the leader's response on to its client, if it still waits.
HandleClientResponse(n, m) ==
    /\ m.body.type = "ClientResponse" /\ StepsAsFollower(n, m)
    /\ FollowerIn(n, m).leader = m.from
    /\ LET waiting == FollowerIn(n, m).forwarded
       IN  EndAsFollower(n, m, VoteIn(n, m), Follower(m.from, waiting \ {m.body.id}), {},
                         IF m.body.id \in waiting
                         THEN {Reply(n, m.body.id, m.body.status, m.body.value)} ELSE {})
    /\ UNCHANGED <<log, commit, applied>>

-----------------------------------------------------------------------------
(* Leaders.                                                                *)

\* maybe_send_append to a peer with progress pr: the progress after it, and the
\* bodies of the messages it sends (none or one).
MaybeSendAppend(l, pr, probe) ==
    LET probing == probe /\ pr.next > pr.match + 1
        entries == IF probing THEN <<>> ELSE Scan(l, pr.next, MaxAppendEntries)
    IN  IF pr.match = Len(l) \/ (pr.next > Len(l) /\ ~probing)
        THEN [progress |-> pr, bodies |-> {}]
        ELSE [progress |-> [pr EXCEPT !.next = @ + Len(entries)],
              bodies |-> {[type |-> "Append", baseIndex |-> pr.next - 1,
                           baseTerm |-> TermAt(l, pr.next - 1), entries |-> entries]}]

\* propose: every peer that has been sent all earlier entries is sent the new
\* one, the last of l.
Propose(l, progress) ==
    [p \in DOMAIN progress |->
        IF progress[p].next = Len(l) THEN MaybeSendAppend(l, progress[p], FALSE)
        ELSE [progress |-> progress[p], bodies |-> {}]]

ProposalMsgs(n, t, proposed) ==
    UNION {{Env(n, p, t, b) : b \in proposed[p].bodies} : p \in DOMAIN proposed}

HeartbeatBody(l, c, seq) ==
    [type |-> "Heartbeat", lastIndex |-> Len(l), commitIndex |-> c, readSeq |-> seq]

\* Mutant: a leader that has not committed in its own term serves reads.
ReadyReadsInOldTerm(n, progress, c) ==
    {r \in role[n].reads :
        r.seq <= QuorumValue([p \in Node |-> IF p = n THEN role[n].readSeq
                                             ELSE progress[p].readSeq])}

\* The reads that maybe_read serves, given the progress and the commit index.
\* Only an entry of the leader's own term tells that it has applied all that
\* earlier leaders committed.
ReadyReads(n, progress, c) ==
    LET confirmed == QuorumValue([p \in Node |-> IF p = n THEN role[n].readSeq
                                                 ELSE progress[p].readSeq])
    IN  IF TermAt(log[n], c) < term[n] THEN {}
        ELSE {r \in role[n].reads : r.seq <= confirmed}

\* Mutant: entries of earlier terms are committed by counting replicas.
NextCommitAnyTerm(n, progress) ==
    Max2(commit[n], QuorumValue([p \in Node |-> IF p = n THEN Len(log[n])
                                                ELSE progress[p].match]))

\* The commit index after maybe_commit_and_apply: the quorum's match index, if
\* the entry there is of the leader's own term.
NextCommit(n, progress) ==
    LET quorum == QuorumValue([p \in Node |-> IF p = n THEN Len(log[n])
                                              ELSE progress[p].match])
    IN  IF quorum > commit[n] /\ TermAt(log[n], quorum) = term[n] THEN quorum ELSE commit[n]

ReadReplies(n, reads, a) == {Reply(r.from, r.id, "ok", StateAt(log[n], a)) : r \in reads}

\* Mutant: answered writes stay pending.
LeaderAfterKeepsWrites(n, progress, acked, served) ==
    Leader(progress, role[n].writes, role[n].reads \ served, role[n].readSeq)

\* The leader with new progress, when it has answered some writes and reads.
LeaderAfter(n, progress, acked, served) ==
    Leader(progress, role[n].writes \ acked, role[n].reads \ served, role[n].readSeq)

\* The rest of a step in which leader n received m: with the new progress it
\* has served the reads in `served` at the old applied index, and sent `sent`.
EndAsLeader(n, m, progress, served, sent) ==
    LET replies == ReadReplies(n, served, applied[n])
    IN  /\ role' = [role EXCEPT ![n] = LeaderAfter(n, progress, {}, served)]
        /\ Send(msgs \ {m}, sent \cup ReplyMsgs(n, term[n], replies))
        /\ client' = Answer(client, n, replies)
        /\ UNCHANGED <<term, vote, log, commit, applied, panics, restarts>>

\* The same for a step that also runs maybe_commit_and_apply: the newly applied
\* writes are answered, and the reads that waited for the leader to commit an
\* entry of its own term are served.
EndWithCommit(n, m, progress, served, sent) ==
    LET c       == NextCommit(n, progress)
        a       == IF c > commit[n] THEN Max2(applied[n], c) ELSE applied[n]
        acked   == {w \in role[n].writes : w.index \in applied[n] + 1..a}
        late    == IF c > commit[n] /\ TermAt(log[n], commit[n]) # term[n]
                   THEN ReadyReads(n, progress, c) ELSE {}
        replies == {Reply(w.from, w.id, "ok", {}) : w \in acked}
                      \cup ReadReplies(n, served, applied[n]) \cup ReadReplies(n, late, a)
    IN  /\ commit' = [commit EXCEPT ![n] = c]
        /\ applied' = [applied EXCEPT ![n] = a]
        /\ role' = [role EXCEPT ![n] = LeaderAfter(n, progress, acked, served \cup late)]
        /\ Send(msgs \ {m}, sent \cup ReplyMsgs(n, term[n], replies))
        /\ client' = Answer(client, n, replies)
        /\ UNCHANGED <<term, vote, log, panics, restarts>>

StepsAsLeader(n, m) == m.to = n /\ role[n].kind = "leader" /\ m.term = term[n]

HandleHeartbeatResponse(n, m) ==
    /\ m.body.type = "HeartbeatResponse" /\ StepsAsLeader(n, m)
    /\ m.body.matchIndex <= Len(log[n]) /\ m.body.readSeq <= role[n].readSeq
    /\ LET p      == m.from
           old    == role[n].progress
           read   == [old EXCEPT ![p] = AdvanceRead(@, m.body.readSeq)]
           served == IF read # old THEN ReadyReads(n, read, commit[n]) ELSE {}
           probe  == MaybeSendAppend(log[n], RegressNext(read[p], Len(log[n])), TRUE)
       IN  \/ /\ m.body.matchIndex = 0
              /\ EndAsLeader(n, m, [read EXCEPT ![p] = probe.progress], served,
                             {Env(n, p, term[n], b) : b \in probe.bodies})
           \/ /\ m.body.matchIndex \in 1..read[p].match
              /\ EndAsLeader(n, m, read, served, {})
           \/ /\ m.body.matchIndex > read[p].match
              /\ EndWithCommit(n, m, [read EXCEPT ![p] = Advance(@, m.body.matchIndex)],
                               served, {})

HandleAppendResponse(n, m) ==
    /\ m.body.type = "AppendResponse" /\ StepsAsLeader(n, m)
    /\ m.body.matchIndex > 0 /\ m.body.rejectIndex = 0 /\ m.body.matchIndex <= Len(log[n])
    /\ LET p    == m.from
           old  == role[n].progress
           send == MaybeSendAppend(log[n], Advance(old[p], m.body.matchIndex), FALSE)
           next == [old EXCEPT ![p] = send.progress]
           sent == {Env(n, p, term[n], b) : b \in send.bodies}
       IN  IF m.body.matchIndex > old[p].match
           THEN EndWithCommit(n, m, next, {}, sent)
           ELSE EndAsLeader(n, m, next, {}, sent)

HandleAppendReject(n, m) ==
    /\ m.body.type = "AppendResponse" /\ StepsAsLeader(n, m)
    /\ m.body.rejectIndex > 0 /\ m.body.matchIndex = 0 /\ m.body.rejectIndex <= Len(log[n])
    /\ LET p    == m.from
           old  == role[n].progress
           back == RegressNext(old[p], m.body.rejectIndex)
           send == MaybeSendAppend(log[n], back, TRUE)
       IN  /\ m.body.rejectIndex > old[p].match /\ back # old[p]
           /\ EndAsLeader(n, m, [old EXCEPT ![p] = send.progress], {},
                          {Env(n, p, term[n], b) : b \in send.bodies})

HandleReadResponse(n, m) ==
    /\ m.body.type = "ReadResponse" /\ StepsAsLeader(n, m)
    /\ LET old == role[n].progress
           new == [old EXCEPT ![m.from] = AdvanceRead(@, m.body.seq)]
       IN  EndAsLeader(n, m, new,
                       IF new # old THEN ReadyReads(n, new, commit[n]) ELSE {}, {})

HeartbeatTick(n) ==
    /\ role[n].kind = "leader" /\ LastTerm(log[n]) = term[n]
    /\ Send(msgs, Broadcast(n, term[n], HeartbeatBody(log[n], commit[n], role[n].readSeq)))
    /\ UNCHANGED <<term, vote, log, commit, applied, role, client, panics, restarts>>

-----------------------------------------------------------------------------
(* Elections.                                                              *)

\* RawNode<Candidate>::campaign, after aborting the requests in `replies`.
Campaign(n, replies) ==
    /\ term[n] < MaxTerm
    /\ term' = [term EXCEPT ![n] = @ + 1]
    /\ vote' = [vote EXCEPT ![n] = n]
    /\ role' = [role EXCEPT ![n] = Candidate({n})]
    /\ Send(msgs, Broadcast(n, term[n] + 1, [type |-> "Campaign", lastIndex |-> Len(log[n]),
                                             lastTerm |-> LastTerm(log[n])]))
    /\ client' = Answer(client, n, replies)
    /\ UNCHANGED <<log, commit, panics, restarts>>

FollowerTimeout(n) ==
    /\ role[n].kind = "follower"
    /\ Campaign(n, Aborted(n))
    /\ applied' = [applied EXCEPT ![n] = Max2(@, commit[n])]

CandidateTimeout(n) ==
    /\ role[n].kind = "candidate"
    /\ Campaign(n, {})
    /\ UNCHANGED applied

\* A vote that does not complete a quorum.
RecordVote(n, m) ==
    /\ m.body.type = "CampaignResponse" /\ m.body.vote
    /\ m.to = n /\ m.term = term[n] /\ role[n].kind = "candidate"
    /\ ~IsQuorum(role[n].votes \cup {m.from})
    /\ role' = [role EXCEPT ![n] = Candidate(role[n].votes \cup {m.from})]
    /\ Send(msgs \ {m}, {})
    /\ UNCHANGED <<term, vote, log, commit, applied, client, panics, restarts>>

\* The vote that completes a quorum: into_leader proposes an empty command to
\* all peers and broadcasts a heartbeat.  With two nodes or more, its
\* maybe_commit_and_apply commits nothing, as no peer has a match index.
BecomeLeader(n, m) ==
    /\ m.body.type = "CampaignResponse" /\ m.body.vote
    /\ m.to = n /\ m.term = term[n] /\ role[n].kind = "candidate"
    /\ IsQuorum(role[n].votes \cup {m.from})
    /\ LET l   == Append(log[n], [term |-> term[n], command |-> Noop])
           new == [p \in Peers(n) |-> [match |-> 0, next |-> Len(log[n]) + 1, readSeq |-> 0]]
           out == Propose(l, new)
       IN  /\ log' = [log EXCEPT ![n] = l]
           /\ role' = [role EXCEPT ![n] =
                          Leader([p \in Peers(n) |-> out[p].progress], {}, {}, 0)]
           /\ Send(msgs \ {m}, ProposalMsgs(n, term[n], out)
                            \cup Broadcast(n, term[n], HeartbeatBody(l, commit[n], 0)))
    /\ UNCHANGED <<term, vote, commit, applied, client, panics, restarts>>

\* A follower ignores votes; from a later term it only adopts the term.
IgnoreVote(n, m) ==
    /\ m.body.type = "CampaignResponse" /\ StepsAsFollower(n, m)
    /\ EndAsFollower(n, m, VoteIn(n, m), FollowerIn(n, m), {}, {})
    /\ UNCHANGED <<log, commit, applied>>

\* Messages that a node drops: those of past terms, refused votes to a candidate,
\* votes to a leader, and rejections that a leader has seen or that are stale.
Ignore(n, m) ==
    /\ m.to = n /\ role[n].kind # "down"
    /\ \/ m.term < term[n]
       \/ /\ m.term = term[n] /\ m.body.type = "CampaignResponse"
          /\ role[n].kind = "leader" \/ (role[n].kind = "candidate" /\ ~m.body.vote)
       \/ /\ StepsAsLeader(n, m) /\ m.body.type = "AppendResponse"
          /\ m.body.rejectIndex \in 1..Len(log[n]) /\ m.body.matchIndex = 0
          /\ LET pr == role[n].progress[m.from]
             IN  \/ m.body.rejectIndex <= pr.match
                 \/ RegressNext(pr, m.body.rejectIndex) = pr
    /\ Send(msgs \ {m}, {})
    /\ UNCHANGED <<term, vote, log, commit, applied, role, client, panics, restarts>>

-----------------------------------------------------------------------------
(* Client requests, submitted by a client of node `from`; cl is what the   *)
(* clients know when the request is stepped, rest the messages left in     *)
(* flight.                                                                 *)

AbortRequest(n, from, id, cl, rest) ==
    /\ \/ role[n].kind = "follower" /\ from = n /\ role[n].leader = NoNode
       \/ role[n].kind = "candidate"
    /\ Send(rest, ReplyMsgs(n, term[n], {Reply(from, id, "abort", {})}))
    /\ client' = Answer(cl, n, {Reply(from, id, "abort", {})})
    /\ UNCHANGED <<log, role>>

ForwardRequest(n, from, id, cl, rest) ==
    /\ role[n].kind = "follower" /\ from = n /\ role[n].leader # NoNode
    /\ role' = [role EXCEPT ![n] = Follower(role[n].leader, role[n].forwarded \cup {id})]
    /\ Send(rest, {Env(n, role[n].leader, term[n], [type |-> "ClientRequest", id |-> id])})
    /\ client' = cl
    /\ UNCHANGED log

ProposeWrite(n, from, id, cl, rest) ==
    /\ role[n].kind = "leader" /\ id \in Write
    /\ LET l   == Append(log[n], [term |-> term[n], command |-> id])
           out == Propose(l, role[n].progress)
       IN  /\ log' = [log EXCEPT ![n] = l]
           /\ role' = [role EXCEPT ![n] = Leader(
                  [p \in Peers(n) |-> out[p].progress],
                  role[n].writes \cup {[index |-> Len(l), from |-> from, id |-> id]},
                  role[n].reads, role[n].readSeq)]
           /\ Send(rest, ProposalMsgs(n, term[n], out))
    /\ client' = cl

QueueRead(n, from, id, cl, rest) ==
    /\ role[n].kind = "leader" /\ id \in Read
    /\ LET seq == role[n].readSeq + 1
       IN  /\ role' = [role EXCEPT ![n] = Leader(role[n].progress, role[n].writes,
                  role[n].reads \cup {[seq |-> seq, from |-> from, id |-> id]}, seq)]
           /\ Send(rest, Broadcast(n, term[n], [type |-> "Read", seq |-> seq]))
    /\ client' = cl
    /\ UNCHANGED log

ServeStatus(n, from, id, cl, rest) ==
    /\ role[n].kind = "leader" /\ id \in Status
    /\ Send(rest, ReplyMsgs(n, term[n], {Reply(from, id, "ok", {})}))
    /\ client' = Answer(cl, n, {Reply(from, id, "ok", {})})
    /\ UNCHANGED <<log, role>>

StepRequest(n, from, id, cl, rest) ==
    /\ \/ AbortRequest(n, from, id, cl, rest)
       \/ ForwardRequest(n, from, id, cl, rest)
       \/ ProposeWrite(n, from, id, cl, rest)
       \/ QueueRead(n, from, id, cl, rest)
       \/ ServeStatus(n, from, id, cl, rest)
    /\ UNCHANGED <<term, vote, commit, applied, panics, restarts>>

\* A client submits a request to node n (raft_route, request_rx).
SubmitRequest(n, id) ==
    /\ client[id].status = "idle"
    /\ StepRequest(n, n, id,
          [client EXCEPT ![id] = [status |-> "pending", seen |-> Known, value |-> {}]], msgs)

\* The leader receives a request that a follower forwarded (a candidate would
\* abort it).
HandleClientRequest(n, m) ==
    /\ m.body.type = "ClientRequest" /\ m.to = n /\ m.term = term[n]
    /\ role[n].kind \in {"candidate", "leader"}
    /\ StepRequest(n, m.from, m.body.id, client, msgs \ {m})

-----------------------------------------------------------------------------
(* Failures.                                                               *)

Assertion == {"unexpected message", "client request from other node",
              "client response from non-leader", "multiple leaders in term",
              "commit_index after last_index", "splice", "future index", "invalid message"}

\* The assertions of Node::step that m would fail at n.
Panics(n, m) ==
    LET type == m.body.type
        kind == IF m.term > term[n] THEN "follower" ELSE role[n].kind
    IN  {r \in {"unexpected message"} :
            \/ kind \in {"follower", "candidate"} /\ type \in LeaderResponseTypes
            \/ kind \in {"candidate", "leader"} /\ type = "ClientResponse"}
        \cup {r \in {"client request from other node"} :
            kind = "follower" /\ type = "ClientRequest"}
        \cup {r \in {"client response from non-leader"} :
            kind = "follower" /\ type = "ClientResponse" /\ FollowerIn(n, m).leader # m.from}
        \cup {r \in {"multiple leaders in term"} :
            /\ type \in LeaderTypes
            /\ \/ kind = "leader"
               \/ kind = "follower" /\ FollowerIn(n, m).leader \notin {NoNode, m.from}}
        \cup {r \in {"commit_index after last_index"} :
            type = "Heartbeat" /\ m.body.commitIndex > m.body.lastIndex}
        \cup {r \in {"splice"} :
            /\ type = "Append" /\ kind \in {"follower", "candidate"}
            /\ HasBase(log[n], m.body.baseIndex, m.body.baseTerm)
            /\ SplicePanics(log[n], m.term, commit[n], m.body.baseIndex, m.body.entries)}
        \cup {r \in {"future index"} :
            /\ kind = "leader"
            /\ \/ /\ type = "HeartbeatResponse"
                  /\ m.body.matchIndex > Len(log[n]) \/ m.body.readSeq > role[n].readSeq
               \/ /\ type = "AppendResponse"
                  /\ m.body.matchIndex > Len(log[n]) \/ m.body.rejectIndex > Len(log[n])}
        \cup {r \in {"invalid message"} :
            kind = "leader" /\ type = "AppendResponse"
               /\ (m.body.matchIndex > 0 <=> m.body.rejectIndex > 0)}

\* A failed assertion stops the node: raft_route does not survive a panic.
Panic(n, m) ==
    /\ m.to = n /\ m.term >= term[n] /\ role[n].kind # "down"
    /\ Panics(n, m) # {}
    /\ panics' = panics \cup Panics(n, m)
    /\ role' = [role EXCEPT ![n] = Down]
    /\ term' = [term EXCEPT ![n] = m.term]
    /\ vote' = [vote EXCEPT ![n] = VoteIn(n, m)]
    /\ Send(msgs \ {m}, {})
    /\ UNCHANGED <<log, commit, applied, client, restarts>>

\* Mutant: the vote is not flushed.
RestartForgetsVote(n) ==
    /\ restarts < MaxRestarts
    /\ restarts' = restarts + 1
    /\ vote' = [vote EXCEPT ![n] = NoNode]
    /\ role' = [role EXCEPT ![n] = Follower(NoNode, {})]
    /\ UNCHANGED <<term, log, commit, applied, msgs, client, panics>>

\* Mutant: log entries are not flushed.
RestartForgetsEntries(n) ==
    /\ restarts < MaxRestarts
    /\ restarts' = restarts + 1
    /\ log' = [log EXCEPT ![n] = SubSeq(@, 1, Len(@) - 1)]
    /\ commit' = [commit EXCEPT ![n] = 0]
    /\ applied' = [applied EXCEPT ![n] = 0]
    /\ role' = [role EXCEPT ![n] = Follower(NoNode, {})]
    /\ UNCHANGED <<term, vote, msgs, client, panics>>

\* The node crashes and starts again (Node::new).  Term, vote and log are
\* durable; the commit index and the state machine are not flushed, so a crash
\* may leave earlier ones, and Node::new applies what is committed again.
Restart(n) ==
    /\ restarts < MaxRestarts
    /\ restarts' = restarts + 1
    /\ \E c \in 0..commit[n], a \in 0..applied[n] :
          /\ commit' = [commit EXCEPT ![n] = c]
          /\ applied' = [applied EXCEPT ![n] = Max2(a, c)]
    /\ role' = [role EXCEPT ![n] = Follower(NoNode, {})]
    /\ UNCHANGED <<term, vote, log, msgs, client, panics>>

-----------------------------------------------------------------------------
Init ==
    /\ term = [n \in Node |-> 0]
    /\ vote = [n \in Node |-> NoNode]
    /\ log = [n \in Node |-> <<>>]
    /\ commit = [n \in Node |-> 0]
    /\ applied = [n \in Node |-> 0]
    /\ role = [n \in Node |-> Follower(NoNode, {})]
    /\ msgs = {}
    /\ client = [i \in Request |-> [status |-> "idle", seen |-> {}, value |-> {}]]
    /\ panics = {}
    /\ restarts = 0

Receive(n, m) ==
    \/ HandleHeartbeat(n, m)
    \/ HandleAppend(n, m)
    \/ HandleRead(n, m)
    \/ HandleCampaign(n, m)
    \/ RefuseVote(n, m)
    \/ HandleClientResponse(n, m)
    \/ HandleHeartbeatResponse(n, m)
    \/ HandleAppendResponse(n, m)
    \/ HandleAppendReject(n, m)
    \/ HandleReadResponse(n, m)
    \/ RecordVote(n, m)
    \/ BecomeLeader(n, m)
    \/ IgnoreVote(n, m)
    \/ Ignore(n, m)
    \/ HandleClientRequest(n, m)
    \/ Panic(n, m)

Next ==
    \/ \E n \in Node : \/ FollowerTimeout(n)
                       \/ CandidateTimeout(n)
                       \/ HeartbeatTick(n)
                       \/ Restart(n)
                       \/ \E id \in Request : SubmitRequest(n, id)
    \/ \E n \in Node, m \in msgs : Receive(n, m)

Spec == Init /\ [][Next]_vars

-----------------------------------------------------------------------------
(* Type correctness.                                                       *)

Entry == [term : Nat, command : Write \cup {Noop}]

Log == Seq(Entry)

Progress == [match : Nat, next : Nat \ {0}, readSeq : Nat]

Role(n) ==
    [kind : {"follower"}, leader : Peers(n) \cup {NoNode}, forwarded : SUBSET Request]
      \cup [kind : {"candidate"}, votes : SUBSET Node]
      \cup [kind : {"leader"},
            progress : [Peers(n) -> Progress],
            writes : SUBSET [index : Nat, from : Node, id : Write],
            reads : SUBSET [seq : Nat, from : Node, id : Read], readSeq : Nat]
      \cup {Down}

Body ==
    [type : {"Campaign"}, lastIndex : Nat, lastTerm : Nat]
      \cup [type : {"CampaignResponse"}, vote : BOOLEAN]
      \cup [type : {"Heartbeat"}, lastIndex : Nat, commitIndex : Nat, readSeq : Nat]
      \cup [type : {"HeartbeatResponse"}, matchIndex : Nat, readSeq : Nat]
      \cup [type : {"Append"}, baseIndex : Nat, baseTerm : Nat, entries : Log]
      \cup [type : {"AppendResponse"}, matchIndex : Nat, rejectIndex : Nat]
      \cup [type : {"Read"}, seq : Nat]
      \cup [type : {"ReadResponse"}, seq : Nat]
      \cup [type : {"ClientRequest"}, id : Request]
      \cup [type : {"ClientResponse"}, id : Request, status : {"ok", "abort"},
            value : SUBSET Write]

Envelope == {e \in [from : Node, to : Node, term : Nat, body : Body] : e.from # e.to}

ClientView == [status : {"idle", "pending", "ok", "abort"}, seen : SUBSET Write,
               value : SUBSET Write]

\* Every variable keeps the shape that the Rust types give it (RawNode, the three
\* roles, Progress, Envelope, Entry).
TypeOK ==
    /\ term \in [Node -> Nat]
    /\ vote \in [Node -> Node \cup {NoNode}]
    /\ log \in [Node -> Log]
    /\ commit \in [Node -> Nat]
    /\ applied \in [Node -> Nat]
    /\ DOMAIN role = Node /\ \A n \in Node : role[n] \in Role(n)
    /\ msgs \subseteq Envelope
    /\ client \in [Request -> ClientView]
    /\ panics \subseteq Assertion
    /\ restarts \in Nat

-----------------------------------------------------------------------------
(* Safety.                                                                 *)

IsLeader(n) == role[n].kind = "leader"

\* At most one node leads in a term: votes are durable and a quorum of them is
\* needed (Follower::step on Campaign, Candidate::step on CampaignResponse).
ElectionSafety ==
    \A m, n \in Node : IsLeader(m) /\ IsLeader(n) /\ term[m] = term[n] => m = n

\* Two logs that have an entry of the same index and term are equal up to it, as
\* the invariants of log.rs claim; Log::splice and the base check of Append keep
\* it so under lost, resent and reordered appends.
LogMatching ==
    \A m, n \in Node : \A i \in 1..Min2(Len(log[m]), Len(log[n])) :
        log[m][i].term = log[n][i].term => SubSeq(log[m], 1, i) = SubSeq(log[n], 1, i)

\* What any node has committed is in the log of every leader of its term or a
\* later one: elections compare logs, and leaders commit by counting only
\* entries of their own term (maybe_commit_and_apply).
LeaderCompleteness ==
    \A l, n \in Node : IsLeader(l) /\ term[l] >= term[n] =>
        /\ commit[n] <= Len(log[l])
        /\ SubSeq(log[n], 1, commit[n]) = SubSeq(log[l], 1, commit[n])

\* All nodes apply the same commands in the same order, also after a crash has
\* set the commit index or the state machine back.
StateMachineSafety ==
    \A m, n \in Node :
        LET a == Min2(applied[m], applied[n])
        IN  applied[n] <= Len(log[n]) /\ SubSeq(log[m], 1, a) = SubSeq(log[n], 1, a)

\* A write that was acknowledged to its client is in the logs of a quorum,
\* whatever crashes and elections follow.
AckedWritesDurable ==
    \A w \in Write : client[w].status = "ok" =>
        IsQuorum({n \in Node : \E i \in 1..Len(log[n]) : log[n][i].command = w})

\* Reads are linearizable: the state a read returns has every write that was
\* acknowledged, and every write that some read had returned, before the read
\* was submitted, at whichever node (maybe_read's quorum of read sequence
\* numbers and its wait for a commit in the leader's own term).
ReadsAreLinearizable ==
    \A r \in Read : client[r].status = "ok" => client[r].seen \subseteq client[r].value

\* The match index that a leader has recorded for a peer is one up to which the
\* peer's log equals its own, as long as the peer is in the leader's term; the
\* next index is in the range that Progress documents, and the leader's last
\* entry is of its own term (the assertions of heartbeat, maybe_send_append).
ProgressIsTrue ==
    \A n \in Node : IsLeader(n) =>
        /\ LastTerm(log[n]) = term[n]
        /\ \A p \in Peers(n) :
              LET pr == role[n].progress[p]
              IN  /\ pr.next \in pr.match + 1..Len(log[n]) + 1
                  /\ term[p] = term[n] =>
                        SubSeq(log[p], 1, pr.match) = SubSeq(log[n], 1, pr.match)

\* No assertion of Node::step fails while no node crashes, however messages are
\* lost, delayed and reordered.
NoPanic == restarts = 0 => panics = {}

\* The assertions that a restart can make fail are about messages to a node that
\* has forgotten its role in the term; the ones that protect the log, and the
\* uniqueness of the leader, never fail.
OnlyRestartPanics ==
    panics \subseteq {"unexpected message", "client request from other node",
                     "client response from non-leader"}

\* "We're not leader this term, so we shouldn't see these": responses to a leader
\* do not reach a follower in the leader's term.
ResponsesReachALeader == "unexpected message" \notin panics

-----------------------------------------------------------------------------
(* What a step may never do.                                               *)

\* A node emits at most one response to a request: no outcome that a client has
\* been told is followed by another (forwarded, writes and reads are cleared as
\* their requests are answered or aborted).
AnsweredOnce ==
    [][\A i \in Request :
        client[i].status \in {"ok", "abort"} => client'[i] = client[i]]_vars

\* Committed entries are never changed or removed, terms never decrease, and a
\* vote is never changed within its term (log.rs, Log).
DurableStateIsKept ==
    [][\A n \in Node :
        /\ commit[n] <= Len(log'[n])
        /\ SubSeq(log'[n], 1, commit[n]) = SubSeq(log[n], 1, commit[n])
        /\ term'[n] >= term[n]
        /\ term'[n] = term[n] /\ vote[n] # NoNode => vote'[n] = vote[n]]_vars
=============================================================================
