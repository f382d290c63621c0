-------------------------- MODULE Sessions_proofs --------------------------
(***************************************************************************)
(* What a client may rely on when its session retries, for any clients,    *)
(* closures and transactions: its statements land in no transaction that   *)
(* it does not know of, and a closure that returns has been executed, once *)
(* if it is a transaction.                                                 *)
(*                                                                         *)
(* A client that waits for an answer which will not let it run its closure *)
(* again is doomed: only then may a COMMIT of its be on its way that it    *)
(* was not told of.                                                        *)
(***************************************************************************)
EXTENDS Sessions, Extrema_proofs, FiniteSetTheorems

-----------------------------------------------------------------------------
(* The invariant.                                                          *)

ClientState == [pc : {"statement", "rollback", "last rollback", "returned", "failed"},
                step : Nat, inTxn : BOOLEAN, retries : Nat]

TxnRef == Txn \cup {NoTxn, ReadOnly}

Result == {"ok", "Serialization", "InvalidInput", "Abort"}

SessionState ==
    [txn : TxnRef, stage : InRaft \cup {"idle", "hung", "dropped"},
     stmt : Statements \cup {Statement("none"), Statement("rollback"), Statement("drop session")},
     own : TxnRef, result : Result]

TypesInv ==
    /\ status \in [Txn -> {"idle", "active", "committed", "rolledback"}]
    /\ script \in [Client -> Script]
    /\ client \in [Client -> ClientState]
    /\ session \in [Client -> SessionState]
    /\ owner \in [Txn -> Client \cup {NoTxn}]

Waits(c) == client[c].pc \in {"statement", "rollback"}

\* What the client knows of its session.
ClientInv(c) ==
    /\ client[c].pc = "statement" =>
          client[c].step \in 1..Len(script[c]) /\ (client[c].step = 1 => ~client[c].inTxn)
    /\ client[c].pc \in {"rollback", "last rollback"} => client[c].inTxn
    /\ ~client[c].inTxn /\ ~Closed(c) => session[c].txn = NoTxn
    /\ session[c].stage \in InRaft /\ Waits(c) => session[c].stmt = Request(c)
    /\ Waits(c) /\ session[c].stage \in {"commit", "rollback"} /\ IsEnd(session[c].stmt) =>
          client[c].inTxn
    /\ client[c].pc = "returned" => session[c].stage \notin {"begin", "run", "commit"}
    /\ session[c].stage \in InRaft /\ session[c].stmt.op = "drop session" => Closed(c)
    /\ session[c].stage = "dropped" => Closed(c)

\* A session that works on a request.
StageInv(c) ==
    LET s == session[c]
    IN  /\ s.stage = "begin" => s.txn = NoTxn /\ ~IsEnd(s.stmt) /\ s.stmt \in Statements
        /\ s.stage = "run" =>
              /\ ~IsBegin(s.stmt) /\ ~IsEnd(s.stmt) /\ s.stmt \in Statements
              /\ IF s.txn # NoTxn THEN s.own = s.txn
                 ELSE IF IsReadOnly(s.stmt) THEN s.own = ReadOnly ELSE s.own \in Txn
        /\ s.stage \in {"commit", "rollback"} =>
              /\ s.txn = NoTxn /\ s.own \in Txn /\ ~IsBegin(s.stmt)
              /\ IsEnd(s.stmt) => s.stage = s.stmt.op
              /\ ~IsEnd(s.stmt) =>
                    \/ s.stage = "commit" /\ s.result = "ok" /\ s.stmt.op # "drop session"
                    \/ s.stage = "rollback" /\ s.result # "ok"
                    \/ s.stage = "rollback" /\ s.stmt.op = "drop session"

Owns(c, t) == owner[t] = c /\ status[t] # "idle"

\* Transactions have one client.
OwnersInv ==
    /\ \A c \in Client : \A t \in Txn : t \in {session[c].txn, session[c].own} => Owns(c, t)
    /\ \A m \in late :
          /\ m.client \in Client
          /\ m.command.op = "commit" => m.txn \in Txn /\ Owns(m.client, m.txn)

\* A COMMIT of the client's may still be applied.
MayCommit(c) == \E m \in late : m.client = c /\ m.command.op = "commit"

\* The client waits, and its closure will not run again.
Doomed(c) ==
    \/ session[c].stage = "hung"
    \/ client[c].pc = "rollback" /\ session[c].stage = "idle" /\ session[c].txn = NoTxn

\* A closure that is one transaction.
TransactionInv(c) ==
    /\ client[c].pc = "statement" /\ client[c].step > 1 => client[c].inTxn
    /\ client[c].pc = "statement" /\ client[c].inTxn /\ session[c].stage # "hung" =>
          session[c].txn \in Txn \/ (session[c].stage = "commit" /\ IsEnd(session[c].stmt))
    /\ Waits(c) /\ ~Doomed(c) => CommittedBy(c) = {} /\ ~MayCommit(c)
    /\ client[c].pc = "returned" => (\E t \in Txn : CommittedBy(c) = {t}) /\ ~MayCommit(c)

\* A closure that begins with a write in a transaction of its own.
StatementInv(c) ==
    \/ client[c].pc = "statement" /\ client[c].step > 1
    \/ client[c].pc = "returned"
    => CommittedBy(c) # {}

OnceInv(c) ==
    /\ IsTransaction(script[c]) => TransactionInv(c)
    /\ ~IsBegin(script[c][1]) /\ ~IsReadOnly(script[c][1]) => StatementInv(c)

SessionsInv ==
    /\ TypesInv /\ OwnersInv
    /\ \A c \in Client : ClientInv(c) /\ StageInv(c) /\ OnceInv(c)

-----------------------------------------------------------------------------
(* What a client does with an answer.                                      *)

Restarted(c) ==
    client'[c].pc = "statement" /\ client'[c].step = 1 /\ client'[c].inTxn = FALSE

Moves(c, r) ==
    \/ /\ client[c].pc = "statement" /\ r \in Succeeded
       /\ client'[c].pc = IF client[c].step = Len(script[c]) THEN "returned" ELSE "statement"
       /\ client'[c].step = client[c].step + 1
       /\ client'[c].inTxn <=> InTxn(c, r)
    \/ client[c].pc = "statement" /\ r \notin Succeeded /\ ~client[c].inTxn /\ Restarted(c)
    \/ /\ client[c].pc = "statement" /\ r \notin Succeeded /\ client[c].inTxn
       /\ client'[c].pc = "rollback" /\ client'[c].inTxn
    \/ client[c].pc = "rollback" /\ r = "rollback" /\ Restarted(c)
    \/ client'[c].pc = "failed"
    \/ client[c].pc = "statement" /\ client'[c].pc = "last rollback" /\ client'[c].inTxn
    \/ Closed(c) /\ client'[c] = client[c]

\* Only the state of client c and its session changes.
Only(c) ==
    /\ client' \in [Client -> ClientState] /\ session' \in [Client -> SessionState]
    /\ \A d \in Client \ {c} : client'[d] = client[d] /\ session'[d] = session[d]

LEMMA ScriptFacts ==
    ASSUME TypesInv, NEW c \in Client
    PROVE  /\ script[c] \in Seq(Statements) /\ Len(script[c]) \in Nat /\ Len(script[c]) >= 1
           /\ \A i \in 1..Len(script[c]) : script[c][i] \in Statements
<1>1. script[c] \in Seq(Statements) /\ script[c] # <<>>
    BY ScriptAssumption DEF TypesInv
<1> QED BY <1>1

\* One request at a time: of the closure, or the rollback after it.
LEMMA RequestFacts ==
    ASSUME TypesInv, NEW c \in Client, ClientInv(c)
    PROVE  /\ Request(c) \in Statements \cup {Statement("rollback")}
           /\ Request(c).op \in Operations
           /\ client[c].pc = "statement" => Request(c) = script[c][client[c].step]
           /\ client[c].pc # "statement" => Request(c) = Statement("rollback")
<1>1. CASE client[c].pc = "statement"
  <2>1. Request(c) = script[c][client[c].step]
    BY <1>1 DEF Request
  <2>2. Request(c) \in Statements
    BY <1>1, <2>1, ScriptFacts DEF ClientInv
  <2> QED BY <1>1, <2>1, <2>2, ScriptAssumption
<1>2. CASE client[c].pc # "statement"
    BY <1>2 DEF Request, Statement, Operations
<1> QED BY <1>1, <1>2

LEMMA ReceivesMoves ==
    ASSUME TypesInv, NEW c \in Client, ClientInv(c), NEW r, Receives(c, r)
    PROVE  /\ client' \in [Client -> ClientState]
           /\ \A d \in Client \ {c} : client'[d] = client[d]
           /\ Moves(c, r)
<1>t. client[c] \in ClientState /\ client \in [Client -> ClientState]
    BY DEF TypesInv
<1>f. client[c].step \in Nat /\ client[c].retries \in Nat
    BY <1>t DEF ClientState
<1>r. ASSUME Restart(c)
      PROVE  /\ client' \in [Client -> ClientState] /\ Restarted(c)
             /\ \A d \in Client \ {c} : client'[d] = client[d]
  <2>1. PICK n, k, no : n = client[c].retries + 1 /\ k = 1 /\ no = FALSE
    OBVIOUS
  <2>2. PICK v : v = [pc |-> "statement", step |-> k, inTxn |-> no, retries |-> n]
    OBVIOUS
  <2>4. n \in Nat /\ k \in Nat
    BY <1>f, <2>1
  <2>6. no \in BOOLEAN
    BY <2>1
  <2>7. v \in ClientState
    BY <2>2, <2>4, <2>6, Zenon DEF ClientState
  <2>5. v \in ClientState /\ v.pc = "statement" /\ v.step = k /\ v.inTxn = no
    BY <2>2, <2>7
  <2>3. client' = [client EXCEPT ![c] = v]
    BY <1>r, <2>1, <2>2 DEF Restart
  <2> QED BY <1>t, <2>1, <2>5, <2>3 DEF Restarted
<1>g. ASSUME NEW pc \in {"rollback", "last rollback", "failed"}, GoOn(c, pc)
      PROVE  /\ client' \in [Client -> ClientState]
             /\ client'[c].pc = pc /\ client'[c].inTxn = client[c].inTxn
             /\ \A d \in Client \ {c} : client'[d] = client[d]
    BY <1>g, <1>t DEF GoOn, ClientState
<1>1. CASE Proceed(c, r)
  <2>1. PICK b \in BOOLEAN : b <=> InTxn(c, r)
    OBVIOUS
  <2>2. client' = [client EXCEPT ![c].inTxn = b, ![c].step = @ + 1,
                     ![c].pc = IF client[c].step = Len(script[c]) THEN "returned" ELSE @]
    BY <1>1, <2>1, Zenon DEF Proceed, InTxn
  <2>3. client[c].pc = "statement" /\ r \in Succeeded
    BY <1>1 DEF Proceed
  <2>4. /\ client' \in [Client -> ClientState]
        /\ \A d \in Client \ {c} : client'[d] = client[d]
        /\ client'[c].pc = IF client[c].step = Len(script[c]) THEN "returned" ELSE "statement"
        /\ client'[c].step = client[c].step + 1
        /\ client'[c].inTxn = b
    <3>1. PICK pc, k, n :
              /\ pc = IF client[c].step = Len(script[c]) THEN "returned" ELSE "statement"
              /\ k = client[c].step + 1 /\ n = client[c].retries
      OBVIOUS
    <3>4. pc \in {"statement", "returned"} /\ k \in Nat /\ n \in Nat
      BY <1>f, <2>3, <3>1
    <3>2. PICK p0, k0, b0 : client[c] = [pc |-> p0, step |-> k0, inTxn |-> b0, retries |-> n]
      BY <1>t, <3>1 DEF ClientState
    <3>5. PICK x : x = [pc |-> p0, step |-> k0, inTxn |-> b, retries |-> n]
      OBVIOUS
    <3>6. PICK y : y = [pc |-> p0, step |-> k, inTxn |-> b, retries |-> n]
      OBVIOUS
    <3>7. PICK v : v = [pc |-> pc, step |-> k, inTxn |-> b, retries |-> n]
      OBVIOUS
    <3>8. v \in ClientState
      BY <3>4, <3>7, Zenon DEF ClientState
    <3>9. v.pc = pc /\ v.step = k /\ v.inTxn = b
      BY <3>7
    <3>10. client' = [client EXCEPT ![c] = v]
      <4>1. [client EXCEPT ![c].inTxn = b, ![c].step = @ + 1,
                ![c].pc = IF client[c].step = Len(script[c]) THEN "returned" ELSE @]
            = [client EXCEPT ![c] =
                  [[[client[c] EXCEPT !.inTxn = b] EXCEPT !.step = client[c].step + 1]
                      EXCEPT !.pc = IF client[c].step = Len(script[c]) THEN "returned"
                                    ELSE client[c].pc]]
        BY <1>t DEF ClientState
      <4>2. client' = [client EXCEPT ![c] =
               [[[client[c] EXCEPT !.inTxn = b] EXCEPT !.step = k] EXCEPT !.pc = pc]]
        BY <2>2, <2>3, <3>1, <4>1
      <4>3. x = [client[c] EXCEPT !.inTxn = b]
        BY <3>2, <3>5
      <4>4. y = [x EXCEPT !.step = k]
        BY <3>5, <3>6
      <4>5. v = [y EXCEPT !.pc = pc]
        BY <3>6, <3>7
      <4> QED BY <4>2, <4>3, <4>4, <4>5
    <3> QED BY <1>t, <3>1, <3>8, <3>9, <3>10
  <2> QED BY <2>1, <2>3, <2>4 DEF Moves
<1>2. CASE Retry(c, r)
  <2>1. client[c].pc = "statement" /\ r \notin Succeeded
    BY <1>2 DEF Retry, Retryable, Succeeded
  <2> QED BY <1>2, <2>1, <1>r, <1>g DEF Retry, Moves
<1>3. CASE RolledBack(c, r)
    BY <1>3, <1>r, <1>g DEF RolledBack, Moves
<1>4. CASE GiveUp(c, r)
    BY <1>4, <1>g DEF GiveUp, FinalRollback, Moves
<1>5. CASE LastResponse(c)
    BY <1>5, <1>g DEF LastResponse, Moves
<1>6. CASE Unread(c)
    BY <1>6, <1>t DEF Unread, Moves
<1> QED BY <1>1, <1>2, <1>3, <1>4, <1>5, <1>6 DEF Receives

-----------------------------------------------------------------------------
(* What becomes of a session.                                              *)

Fields(s, txn, stage, stmt, own, result) ==
    /\ s \in SessionState
    /\ s.txn = txn /\ s.stage = stage /\ s.stmt = stmt /\ s.own = own /\ s.result = result

LEMMA FieldTypes ==
    ASSUME NEW s \in SessionState
    PROVE  /\ Fields(s, s.txn, s.stage, s.stmt, s.own, s.result)
           /\ s.txn \in TxnRef /\ s.own \in TxnRef /\ s.result \in Result
           /\ s.stage \in InRaft \cup {"idle", "hung", "dropped"}
BY DEF Fields, SessionState

LEMMA SetTxn ==
    ASSUME NEW s, NEW txn, NEW stage, NEW stmt, NEW own, NEW result,
           Fields(s, txn, stage, stmt, own, result), NEW v \in TxnRef
    PROVE  Fields([s EXCEPT !.txn = v], v, stage, stmt, own, result)
BY DEF Fields, SessionState

LEMMA SetStage ==
    ASSUME NEW s, NEW txn, NEW stage, NEW stmt, NEW own, NEW result,
           Fields(s, txn, stage, stmt, own, result),
           NEW v \in InRaft \cup {"idle", "hung", "dropped"}
    PROVE  Fields([s EXCEPT !.stage = v], txn, v, stmt, own, result)
BY DEF Fields, SessionState

LEMMA SetStmt ==
    ASSUME NEW s, NEW txn, NEW stage, NEW stmt, NEW own, NEW result,
           Fields(s, txn, stage, stmt, own, result),
           NEW v \in Statements
                  \cup {Statement("none"), Statement("rollback"), Statement("drop session")}
    PROVE  Fields([s EXCEPT !.stmt = v], txn, stage, v, own, result)
BY DEF Fields, SessionState

LEMMA SetOwn ==
    ASSUME NEW s, NEW txn, NEW stage, NEW stmt, NEW own, NEW result,
           Fields(s, txn, stage, stmt, own, result), NEW v \in TxnRef
    PROVE  Fields([s EXCEPT !.own = v], txn, stage, stmt, v, result)
BY DEF Fields, SessionState

LEMMA SetResult ==
    ASSUME NEW s, NEW txn, NEW stage, NEW stmt, NEW own, NEW result,
           Fields(s, txn, stage, stmt, own, result), NEW v \in Result
    PROVE  Fields([s EXCEPT !.result = v], txn, stage, stmt, own, v)
BY DEF Fields, SessionState

LEMMA IdleFields ==
    ASSUME NEW s, NEW txn, NEW stage, NEW stmt, NEW own, NEW result,
           Fields(s, txn, stage, stmt, own, result)
    PROVE  Fields(Idle(s), txn, "idle", Statement("none"), NoTxn, "ok")
<1> DEFINE a == [s EXCEPT !.stage = "idle"]
           b == [a EXCEPT !.stmt = Statement("none")]
           d == [b EXCEPT !.own = NoTxn]
<1>1. Fields(a, txn, "idle", stmt, own, result)
    BY SetStage
<1>2. Fields(b, txn, "idle", Statement("none"), own, result)
  <2> HIDE DEF a
  <2> QED BY <1>1, SetStmt
<1>3. Fields(d, txn, "idle", Statement("none"), NoTxn, result)
  <2>1. NoTxn \in TxnRef
    BY DEF TxnRef
  <2> HIDE DEF b
  <2> QED BY <1>2, <2>1, SetOwn
<1>4. Fields([d EXCEPT !.result = "ok"], txn, "idle", Statement("none"), NoTxn, "ok")
  <2>1. "ok" \in Result
    BY DEF Result
  <2> HIDE DEF d
  <2> QED BY <1>3, <2>1, SetResult
<1>5. Idle(s) = [d EXCEPT !.result = "ok"]
    BY DEF Idle
<1> QED BY <1>4, <1>5

LEMMA GoToStep ==
    ASSUME TypesInv, NEW c \in Client, NEW s \in SessionState, GoTo(c, s)
    PROVE  Only(c) /\ client' = client /\ session'[c] = s
BY DEF GoTo, Only, TypesInv

LEMMA RespondStep ==
    ASSUME TypesInv, NEW c \in Client, ClientInv(c), NEW s \in SessionState, NEW r,
           Respond(c, s, r)
    PROVE  /\ Only(c) /\ Moves(c, r)
           /\ Fields(session'[c], s.txn, "idle", Statement("none"), NoTxn, "ok")
<1>1. Fields(Idle(s), s.txn, "idle", Statement("none"), NoTxn, "ok")
    BY FieldTypes, IdleFields
<1>2. Idle(s) \in SessionState
    BY <1>1 DEF Fields
<1>3. /\ session' \in [Client -> SessionState] /\ session'[c] = Idle(s)
      /\ \A d \in Client \ {c} : session'[d] = session[d]
    BY <1>2 DEF Respond, TypesInv
<1>4. Receives(c, r)
    BY DEF Respond
<1> QED BY <1>1, <1>3, <1>4, ReceivesMoves DEF Only

-----------------------------------------------------------------------------
(* Answers.                                                                *)

\* The session answers a request, without having committed anything.
Answers(c, r) ==
    /\ Only(c) /\ Moves(c, r) /\ script' = script
    /\ session[c].stage \in InRaft \cup {"idle"}
    /\ session'[c].stage = "idle" /\ session'[c].own = NoTxn
    /\ \/ session'[c].txn = NoTxn
       \/ r = "begin"
       \/ session'[c].txn = session[c].txn /\ r \notin {"commit", "rollback"}
    /\ Waits(c) /\ r = "begin" =>
          /\ IsBegin(Request(c)) /\ session[c].stage = "begin"
          /\ Request(c).op = "begin" => session'[c].txn \in Txn
    /\ Waits(c) /\ r = "ok" =>
          /\ session[c].stage = "run" /\ ~IsBegin(Request(c)) /\ ~IsEnd(Request(c))
          /\ session'[c].txn = session[c].txn
          /\ session[c].txn # NoTxn \/ IsReadOnly(Request(c))
    /\ Waits(c) /\ r \in {"commit", "rollback"} =>
          /\ Request(c).op = r /\ session'[c].txn = NoTxn
          /\ \/ session[c].stage = "idle" /\ session[c].txn = ReadOnly
             \/ session[c].stage = "rollback" /\ r = "rollback"

\* No COMMIT of client c is applied, and none is left on its way without its knowledge.
Uncommitted(c, r) ==
    /\ CommittedBy(c)' = CommittedBy(c)
    /\ MayCommit(c)' => MayCommit(c) \/ (session[c].stage = "commit" /\ r = "Abort")

LEMMA AnswerKeepsClient ==
    ASSUME TypesInv, NEW c \in Client, ClientInv(c), NEW r, Moves(c, r), script' = script,
           session'[c].stage = "idle",
           \/ session'[c].txn = NoTxn
           \/ r = "begin"
           \/ session'[c].txn = session[c].txn /\ r \notin {"commit", "rollback"}
    PROVE  ClientInv(c)' /\ StageInv(c)'
<1>f. client[c].step \in Nat /\ Len(script[c]) \in Nat /\ Len(script[c]) >= 1
    BY ScriptFacts DEF TypesInv, ClientState
<1>1. /\ client'[c].pc = "statement" =>
            client'[c].step \in 1..Len(script[c]) /\ (client'[c].step = 1 => ~client'[c].inTxn)
      /\ client'[c].pc \in {"rollback", "last rollback"} => client'[c].inTxn
      /\ ~client'[c].inTxn /\ ~Closed(c)' => session'[c].txn = NoTxn
  <2>1. CASE /\ client[c].pc = "statement" /\ r \in Succeeded
             /\ client'[c].pc = IF client[c].step = Len(script[c]) THEN "returned" ELSE "statement"
             /\ client'[c].step = client[c].step + 1
             /\ client'[c].inTxn <=> InTxn(c, r)
    <3>1. client[c].step \in 1..Len(script[c])
      BY <2>1 DEF ClientInv
    <3>2. client'[c].pc = "statement" =>
              client'[c].step \in 1..Len(script[c]) /\ client'[c].step # 1
      BY <1>f, <2>1, <3>1
    <3>3. ~client'[c].inTxn => session'[c].txn = NoTxn
      BY <2>1, Zenon DEF InTxn, ClientInv, Closed
    <3> QED BY <2>1, <3>2, <3>3
  <2>2. CASE client[c].pc = "statement" /\ ~client[c].inTxn /\ r \notin Succeeded /\ Restarted(c)
    <3>1. r # "begin"
      BY <2>2 DEF Succeeded
    <3>2. session'[c].txn = NoTxn
      BY <2>2, <3>1 DEF ClientInv, Closed
    <3> QED BY <1>f, <2>2, <3>2 DEF Restarted
  <2>3. CASE client[c].pc = "rollback" /\ r = "rollback" /\ Restarted(c)
    BY <1>f, <2>3 DEF Restarted
  <2>4. CASE client'[c].pc = "rollback" /\ client'[c].inTxn
    BY <2>4
  <2>5. CASE client'[c].pc = "failed"
    BY <2>5 DEF Closed
  <2>6. CASE client'[c].pc = "last rollback" /\ client'[c].inTxn
    BY <2>6
  <2>7. CASE Closed(c) /\ client'[c] = client[c]
    BY <2>7 DEF Closed
  <2> QED BY <2>1, <2>2, <2>3, <2>4, <2>5, <2>6, <2>7 DEF Moves
<1>2. ClientInv(c)'
    BY <1>1 DEF ClientInv, InRaft
<1>3. StageInv(c)'
    BY DEF StageInv
<1> QED BY <1>2, <1>3

\* A closure that is one transaction has been committed when it returns, and not before.
LEMMA AnswerTransaction ==
    ASSUME TypesInv, NEW c \in Client, ClientInv(c), StageInv(c), TransactionInv(c),
           IsTransaction(script[c]), NEW r, Answers(c, r), Uncommitted(c, r)
    PROVE  TransactionInv(c)'
<1> DEFINE k == client[c].step
<1>f. /\ k \in Nat /\ Len(script[c]) \in Nat /\ Len(script[c]) >= 1
      /\ ReadOnly \notin Txn /\ NoTxn \notin Txn /\ ReadOnly # NoTxn
    BY ScriptFacts, SessionsAssumption DEF TypesInv, ClientState
<1>g. /\ session'[c].stage = "idle" /\ session[c].stage # "hung"
      /\ session[c].stage \in InRaft \cup {"idle"}
    BY DEF Answers, InRaft
<1>1. ASSUME client[c].pc = "statement", r \in Succeeded,
             client'[c].pc = IF k = Len(script[c]) THEN "returned" ELSE "statement",
             client'[c].inTxn <=> InTxn(c, r)
      PROVE  TransactionInv(c)'
  <2>1. k \in 1..Len(script[c]) /\ Request(c) = script[c][k] /\ Waits(c)
    BY <1>1, RequestFacts DEF ClientInv, Waits
  <2>2. CommittedBy(c)' = {} /\ ~MayCommit(c)'
    <3>1. ~Doomed(c)
      BY <1>1, <1>g DEF Doomed
    <3> QED BY <1>1, <2>1, <3>1 DEF TransactionInv, Uncommitted, Succeeded
  <2>3. client'[c].pc = "statement" /\ client'[c].inTxn /\ session'[c].txn \in Txn
    <3>1. CASE k = 1
      <4>1. Request(c).op = "begin" /\ k # Len(script[c])
        BY <2>1, <3>1 DEF IsTransaction
      <4>2. r = "begin"
        BY <1>1, <2>1, <4>1 DEF Answers, IsBegin, Succeeded
      <4> QED BY <1>1, <2>1, <4>1, <4>2, Zenon DEF Answers, InTxn
    <3>2. CASE k # 1
      <4>1. client[c].inTxn
        BY <1>1, <1>f, <2>1, <3>2 DEF TransactionInv
      <4>2. session[c].txn \in Txn \/ (session[c].stage = "commit" /\ session[c].txn = NoTxn)
        BY <1>1, <1>g, <4>1 DEF TransactionInv, StageInv
      <4>3. r = "ok"
        BY <1>1, <1>f, <2>1, <4>2 DEF Answers, Succeeded, StageInv
      <4>4. session[c].txn \in Txn /\ session'[c].txn = session[c].txn /\ ~IsEnd(Request(c))
        BY <2>1, <4>2, <4>3 DEF Answers
      <4>5. k # Len(script[c])
        BY <2>1, <4>4 DEF IsTransaction, IsEnd
      <4> QED BY <1>1, <4>1, <4>3, <4>4, <4>5, Zenon DEF InTxn
    <3> QED BY <3>1, <3>2
  <2> QED BY <2>2, <2>3 DEF TransactionInv
<1>2. ASSUME client[c].pc = "statement", r \notin Succeeded, ~client[c].inTxn, Restarted(c)
      PROVE  TransactionInv(c)'
  <2>1. k = 1 /\ Request(c) = script[c][1] /\ Waits(c)
    <3>1. ~(k > 1)
      BY <1>2, Zenon DEF TransactionInv
    <3>2. k \in 1..Len(script[c]) /\ Request(c) = script[c][k] /\ Waits(c)
      BY <1>2, RequestFacts DEF ClientInv, Waits
    <3>3. k = 1
      BY <1>f, <3>1, <3>2
    <3> QED BY <3>2, <3>3
  <2>2. session[c].stage # "commit"
    BY <2>1 DEF StageInv, ClientInv, InRaft, IsTransaction, IsBegin
  <2>3. CommittedBy(c)' = {} /\ ~MayCommit(c)'
    <3>1. ~Doomed(c)
      BY <1>2, <1>g DEF Doomed
    <3> QED BY <2>1, <2>2, <3>1 DEF TransactionInv, Uncommitted
  <2> QED BY <1>2, <2>3 DEF TransactionInv, Restarted
<1>3. ASSUME client[c].pc = "statement", r \notin Succeeded, client'[c].pc = "rollback"
      PROVE  TransactionInv(c)'
  <2>1. CommittedBy(c)' = {}
    <3>1. ~Doomed(c) /\ Waits(c)
      BY <1>3, <1>g DEF Doomed, Waits
    <3> QED BY <3>1 DEF TransactionInv, Uncommitted
  <2>2. ~Doomed(c)' => ~MayCommit(c)'
    <3>1. CASE session[c].stage = "commit"
      <4>1. session'[c].txn = NoTxn
        BY <1>3, <3>1 DEF Answers, StageInv, Succeeded
      <4> QED BY <1>3, <1>g, <4>1 DEF Doomed
    <3>2. CASE session[c].stage # "commit"
      <4>1. ~Doomed(c) /\ Waits(c)
        BY <1>3, <1>g DEF Doomed, Waits
      <4> QED BY <3>2, <4>1 DEF TransactionInv, Uncommitted
    <3> QED BY <3>1, <3>2
  <2> QED BY <1>3, <2>1, <2>2 DEF TransactionInv
<1>4. ASSUME client[c].pc = "rollback", r = "rollback", Restarted(c)
      PROVE  TransactionInv(c)'
  <2>1. Waits(c)
    BY <1>4 DEF Waits
  <2>2. ~Doomed(c) /\ session[c].stage # "commit"
    BY <1>4, <1>f, <1>g, <2>1 DEF Answers, Doomed
  <2>3. CommittedBy(c)' = {} /\ ~MayCommit(c)'
    BY <2>1, <2>2 DEF TransactionInv, Uncommitted
  <2> QED BY <1>4, <2>3 DEF TransactionInv, Restarted
<1>5. ASSUME client'[c].pc \in {"failed", "last rollback"} PROVE TransactionInv(c)'
    BY <1>5 DEF TransactionInv, Waits
<1>6. ASSUME Closed(c), client'[c] = client[c] PROVE TransactionInv(c)'
  <2>1. client[c].pc = "returned" => session[c].stage # "commit"
    BY DEF ClientInv
  <2> QED BY <1>6, <2>1 DEF TransactionInv, Uncommitted, Closed, Waits
<1>7. Moves(c, r)
    BY DEF Answers
<1> HIDE DEF k
<1> QED BY <1>1, <1>2, <1>3, <1>4, <1>5, <1>6, <1>7 DEF Moves, k

\* A statement outside of a transaction is answered "ok" once it has been committed.
LEMMA AnswerStatement ==
    ASSUME TypesInv, NEW c \in Client, ClientInv(c), StageInv(c), StatementInv(c),
           ~IsBegin(script[c][1]), ~IsReadOnly(script[c][1]),
           NEW r, Answers(c, r), Uncommitted(c, r)
    PROVE  StatementInv(c)'
<1> DEFINE k == client[c].step
<1>f. k \in Nat /\ Len(script[c]) \in Nat /\ ReadOnly # NoTxn
    BY ScriptFacts, SessionsAssumption DEF TypesInv, ClientState
<1>1. ASSUME client[c].pc = "statement", r \in Succeeded PROVE k > 1
  <2> SUFFICES ASSUME ~(k > 1) PROVE FALSE
    OBVIOUS
  <2>1. k = 1 /\ Request(c) = script[c][1] /\ Waits(c) /\ ~client[c].inTxn
    <3>1. k \in 1..Len(script[c]) /\ Request(c) = script[c][k] /\ Waits(c)
      BY <1>1, RequestFacts DEF ClientInv, Waits
    <3>2. k = 1
      BY <1>f, <3>1
    <3> QED BY <1>1, <3>1, <3>2 DEF ClientInv
  <2>2. session[c].txn = NoTxn
    BY <1>1, <2>1 DEF ClientInv, Closed
  <2>3. r \in {"commit", "rollback"}
    BY <1>1, <2>1, <2>2 DEF Answers, Succeeded
  <2>4. session[c].stage = "rollback" /\ Request(c).op = "rollback"
    BY <1>f, <2>1, <2>2, <2>3 DEF Answers
  <2>5. IsEnd(session[c].stmt)
    BY <2>1, <2>4 DEF ClientInv, InRaft, IsEnd
  <2> QED BY <2>1, <2>4, <2>5 DEF ClientInv
<1>2. CommittedBy(c)' = CommittedBy(c)
    BY DEF Uncommitted
<1>3. CASE client[c].pc = "statement" /\ k > 1
    BY <1>2, <1>3 DEF StatementInv
<1>4. CASE client[c].pc = "returned"
    BY <1>2, <1>4 DEF StatementInv
<1>5. CASE ~(client[c].pc = "statement" /\ k > 1) /\ client[c].pc # "returned"
  <2>1. ~(client[c].pc = "statement" /\ r \in Succeeded)
    BY <1>1, <1>5
  <2>2. Moves(c, r)
    BY DEF Answers
  <2> HIDE DEF k
  <2>3. \/ Restarted(c)
        \/ client'[c].pc \in {"rollback", "failed", "last rollback"}
        \/ client'[c] = client[c]
    BY <2>1, <2>2 DEF Moves
  <2>4. ~(client'[c].pc = "statement" /\ client'[c].step > 1) /\ client'[c].pc # "returned"
    <3>1. CASE client'[c] = client[c]
      BY <1>5, <3>1 DEF k
    <3>2. CASE Restarted(c)
      <4>1. client'[c].pc = "statement" /\ client'[c].step = 1
        BY <3>2 DEF Restarted
      <4> QED BY <4>1
    <3> QED BY <2>3, <3>1, <3>2
  <2> QED BY <2>4 DEF StatementInv
<1> QED BY <1>3, <1>4, <1>5

LEMMA AnswerKeepsOnce ==
    ASSUME TypesInv, NEW c \in Client, ClientInv(c), StageInv(c), OnceInv(c),
           NEW r, Answers(c, r), Uncommitted(c, r)
    PROVE  ClientInv(c)' /\ StageInv(c)' /\ OnceInv(c)'
<1>1. ClientInv(c)' /\ StageInv(c)'
    BY AnswerKeepsClient DEF Answers
<1>2. script'[c] = script[c]
    BY DEF Answers
<1>3. IsTransaction(script[c]) => TransactionInv(c)'
    BY AnswerTransaction DEF OnceInv
<1>4. ~IsBegin(script[c][1]) /\ ~IsReadOnly(script[c][1]) => StatementInv(c)'
    BY AnswerStatement DEF OnceInv
<1> QED BY <1>1, <1>2, <1>3, <1>4 DEF OnceInv

\* The answer of a session that has committed its transaction.
LEMMA CommitKeepsOnce ==
    ASSUME TypesInv, NEW c \in Client, ClientInv(c), StageInv(c), OnceInv(c),
           NEW r \in {"commit", "ok"}, Only(c), Moves(c, r), script' = script, late' = late,
           session[c].stage = "commit",
           session'[c].stage = "idle", session'[c].txn = NoTxn,
           NEW t \in Txn, CommittedBy(c)' = CommittedBy(c) \cup {t}
    PROVE  ClientInv(c)' /\ StageInv(c)' /\ OnceInv(c)'
<1> DEFINE k == client[c].step
<1>f. /\ k \in Nat /\ Len(script[c]) \in Nat /\ Len(script[c]) >= 1
      /\ NoTxn \notin Txn
    BY ScriptFacts, SessionsAssumption DEF TypesInv, ClientState
<1>1. ClientInv(c)' /\ StageInv(c)'
    BY AnswerKeepsClient
<1>2. StatementInv(c)'
    BY DEF StatementInv
<1>3. ASSUME IsTransaction(script[c]) PROVE TransactionInv(c)'
  <2>i. TransactionInv(c)
    BY <1>3 DEF OnceInv
  <2>m. MayCommit(c)' => MayCommit(c)
    BY DEF MayCommit
  <2>1. ASSUME client[c].pc = "statement",
               client'[c].pc = IF k = Len(script[c]) THEN "returned" ELSE "statement"
        PROVE  TransactionInv(c)'
    <3>1. k \in 1..Len(script[c]) /\ Request(c) = script[c][k] /\ Waits(c)
          /\ session[c].stmt = Request(c)
      BY <2>1, RequestFacts DEF ClientInv, Waits, InRaft
    <3>2. CommittedBy(c)' = {t} /\ ~MayCommit(c)'
      <4>1. ~Doomed(c)
        BY <2>1 DEF Doomed
      <4> QED BY <2>i, <2>m, <3>1, <4>1 DEF TransactionInv
    <3>3. k # 1
      BY <1>3, <3>1 DEF StageInv, IsTransaction, IsBegin
    <3>4. IsEnd(script[c][k])
      <4>1. k > 1
        BY <1>f, <3>1, <3>3
      <4>2. client[c].inTxn
        BY <2>1, <2>i, <4>1, Zenon DEF TransactionInv
      <4> QED BY <1>f, <2>1, <2>i, <3>1, <4>2 DEF TransactionInv, StageInv
    <3>5. k = Len(script[c])
      <4>1. ~(k \in 2..Len(script[c]) - 1)
        BY <1>3, <3>4 DEF IsTransaction
      <4> QED BY <1>f, <3>1, <3>3, <4>1
    <3> QED BY <2>1, <3>2, <3>5 DEF TransactionInv, Waits
  <2>2. ASSUME client[c].pc = "rollback" PROVE FALSE
    <3>1. session[c].stmt = Statement("rollback")
      BY <2>2, RequestFacts DEF ClientInv, Waits, InRaft
    <3> QED BY <3>1 DEF StageInv, IsEnd, Statement
  <2>3. ASSUME client'[c].pc \in {"failed", "last rollback"} PROVE TransactionInv(c)'
    BY <2>3 DEF TransactionInv, Waits
  <2>4. ASSUME Closed(c), client'[c] = client[c] PROVE TransactionInv(c)'
    BY <2>4 DEF TransactionInv, Waits, Closed, ClientInv
  <2>5. r \in Succeeded
    BY DEF Succeeded
  <2> HIDE DEF k
  <2> QED BY <2>1, <2>2, <2>3, <2>4, <2>5 DEF Moves, k
<1>4. script'[c] = script[c]
    OBVIOUS
<1> QED BY <1>1, <1>2, <1>3, <1>4 DEF OnceInv

-----------------------------------------------------------------------------
(* Steps that answer nobody.                                               *)

\* The session goes on to another request of Raft, or hangs.
LEMMA GoOnKeepsOnce ==
    ASSUME NEW c \in Client, ClientInv(c), OnceInv(c), Only(c), script' = script,
           client'[c] = client[c],
           session[c].stage \notin {"hung", "dropped"},
           session'[c].stage \notin {"idle", "dropped"},
           client[c].pc = "rollback" /\ session[c].stage = "idle" => session[c].txn # NoTxn,
           session'[c].stage = "hung" \/ ~IsTransaction(script[c])
               \/ (client[c].pc = "statement" /\ client[c].inTxn =>
                      \/ session'[c].txn \in Txn
                      \/ session'[c].stage = "commit" /\ IsEnd(session'[c].stmt)
                      \/ session[c].txn \notin Txn /\ session[c].stage # "commit"),
           CommittedBy(c)' = CommittedBy(c),
           MayCommit(c)' => \/ MayCommit(c)
                            \/ session'[c].stage = "hung" /\ session[c].stage = "commit"
    PROVE  OnceInv(c)'
<1>1. ASSUME IsTransaction(script[c]), TransactionInv(c) PROVE TransactionInv(c)'
  <2>1. client'[c].pc = "statement" /\ client'[c].step > 1 => client'[c].inTxn
    BY <1>1 DEF TransactionInv
  <2>2. client'[c].pc = "statement" /\ client'[c].inTxn /\ session'[c].stage # "hung" =>
            \/ session'[c].txn \in Txn
            \/ session'[c].stage = "commit" /\ IsEnd(session'[c].stmt)
    BY <1>1 DEF TransactionInv
  <2>3. Waits(c)' /\ ~Doomed(c)' => CommittedBy(c)' = {} /\ ~MayCommit(c)'
    <3>1. ASSUME Waits(c)', ~Doomed(c)' PROVE CommittedBy(c)' = {} /\ ~MayCommit(c)'
      <4>1. Waits(c) /\ ~Doomed(c)
        BY <3>1 DEF Waits, Doomed
      <4>2. session'[c].stage # "hung"
        BY <3>1 DEF Doomed
      <4> QED BY <1>1, <4>1, <4>2 DEF TransactionInv
    <3> QED BY <3>1
  <2>4. client'[c].pc = "returned" => (\E t \in Txn : CommittedBy(c)' = {t}) /\ ~MayCommit(c)'
    BY <1>1 DEF TransactionInv, ClientInv
  <2> QED BY <2>1, <2>2, <2>3, <2>4 DEF TransactionInv
<1>2. StatementInv(c) => StatementInv(c)'
    BY DEF StatementInv
<1>3. script'[c] = script[c]
    OBVIOUS
<1> QED BY <1>1, <1>2, <1>3 DEF OnceInv

\* The client's timeout.
LEMMA TimeoutKeepsOnce ==
    ASSUME NEW c \in Client, ClientInv(c), StageInv(c), OnceInv(c), script' = script,
           session'[c] = session[c], ~Closed(c),
           \/ client'[c].pc = "failed"
           \/ client'[c].pc = "last rollback" /\ client'[c].inTxn /\ client[c].inTxn
    PROVE  ClientInv(c)' /\ StageInv(c)' /\ OnceInv(c)'
<1>1. ClientInv(c)'
    BY DEF ClientInv, Waits, Closed
<1>2. StageInv(c)'
    BY DEF StageInv, Closed
<1>3. TransactionInv(c)' /\ StatementInv(c)'
    BY DEF TransactionInv, StatementInv, Waits
<1> QED BY <1>1, <1>2, <1>3 DEF OnceInv

\* A client that takes no step, when none of its transactions commits without its COMMIT.
LEMMA OtherKeepsOnce ==
    ASSUME NEW c \in Client, ClientInv(c), StageInv(c), OnceInv(c), script' = script,
           client'[c] = client[c], session'[c] = session[c],
           MayCommit(c)' => MayCommit(c),
           \/ CommittedBy(c)' = CommittedBy(c)
           \/ MayCommit(c) /\ CommittedBy(c) \subseteq CommittedBy(c)'
    PROVE  ClientInv(c)' /\ StageInv(c)' /\ OnceInv(c)'
<1>1. ClientInv(c)'
    BY DEF ClientInv, Waits, Closed, Request
<1>2. StageInv(c)'
    BY DEF StageInv, Closed
<1>3. TransactionInv(c) => TransactionInv(c)'
    BY DEF TransactionInv, Waits, Doomed
<1>4. StatementInv(c) => StatementInv(c)'
    BY DEF StatementInv
<1>5. script'[c] = script[c]
    OBVIOUS
<1> QED BY <1>1, <1>2, <1>3, <1>4, <1>5 DEF OnceInv

-----------------------------------------------------------------------------
(* Transactions and their clients.                                         *)

LEMMA SameCommitted ==
    ASSUME NEW c, \A t \in Txn : (owner'[t] = c /\ status'[t] = "committed")
                                     <=> (owner[t] = c /\ status[t] = "committed")
    PROVE  CommittedBy(c)' = CommittedBy(c)
BY DEF CommittedBy

LEMMA OwnersStep ==
    ASSUME OwnersInv,
           \A t \in Txn : status[t] # "idle" => owner'[t] = owner[t] /\ status'[t] # "idle",
           \A c \in Client : \A t \in Txn :
               t \in {session'[c].txn, session'[c].own} =>
                   \/ t \in {session[c].txn, session[c].own}
                   \/ owner'[t] = c /\ status'[t] # "idle",
           \A m \in late' \ late :
               /\ m.client \in Client
               /\ m.command.op = "commit" => m.txn \in Txn /\ Owns(m.client, m.txn)
    PROVE  OwnersInv'
<1>1. \A c \in Client : \A t \in Txn :
          t \in {session'[c].txn, session'[c].own} => owner'[t] = c /\ status'[t] # "idle"
    BY DEF OwnersInv, Owns
<1>2. \A m \in late' :
          /\ m.client \in Client
          /\ m.command.op = "commit" =>
                m.txn \in Txn /\ owner'[m.txn] = m.client /\ status'[m.txn] # "idle"
  <2> SUFFICES ASSUME NEW m \in late'
               PROVE  /\ m.client \in Client
                      /\ m.command.op = "commit" =>
                            m.txn \in Txn /\ owner'[m.txn] = m.client /\ status'[m.txn] # "idle"
    OBVIOUS
  <2>1. /\ m.client \in Client
        /\ m.command.op = "commit" => m.txn \in Txn /\ Owns(m.client, m.txn)
    BY DEF OwnersInv
  <2> QED BY <2>1 DEF Owns
<1> QED BY <1>1, <1>2 DEF OwnersInv, Owns

\* There is a next transaction.
LEMMA NextTxnIsIdle ==
    ASSUME TypesInv, \E t \in Txn : status[t] = "idle"
    PROVE  NextTxn \in Txn /\ status[NextTxn] = "idle"
<1>1. PICK m \in {t \in Txn : status[t] = "idle"} :
          \A v \in {t \in Txn : status[t] = "idle"} : m <= v
    BY HasMinimum, SessionsAssumption
<1>2. \E t \in Txn : status[t] = "idle" /\ \A u \in Txn : status[u] = "idle" => t <= u
    BY <1>1
<1> QED BY <1>2 DEF NextTxn

\* A transaction begins for client c.
LEMMA BeginFacts ==
    ASSUME TypesInv, NEW c \in Client, Begin(c)
    PROVE  /\ NextTxn \in Txn /\ status[NextTxn] = "idle"
           /\ owner'[NextTxn] = c /\ status'[NextTxn] = "active"
           /\ \A t \in Txn : status[t] # "idle" => owner'[t] = owner[t] /\ status'[t] = status[t]
           /\ status' \in [Txn -> {"idle", "active", "committed", "rolledback"}]
           /\ owner' \in [Txn -> Client \cup {NoTxn}]
           /\ \A d \in Client : CommittedBy(d)' = CommittedBy(d)
<1>1. PICK n : n = NextTxn /\ n \in Txn /\ status[n] = "idle"
    BY NextTxnIsIdle DEF Begin
<1>2. owner' = [owner EXCEPT ![n] = c] /\ status' = [status EXCEPT ![n] = "active"]
    BY <1>1 DEF Begin, SI!SIBegin
<1>3. /\ owner'[n] = c /\ status'[n] = "active"
      /\ \A t \in Txn : t # n => owner'[t] = owner[t] /\ status'[t] = status[t]
      /\ status' \in [Txn -> {"idle", "active", "committed", "rolledback"}]
      /\ owner' \in [Txn -> Client \cup {NoTxn}]
    BY <1>1, <1>2 DEF TypesInv
<1>4. \A d \in Client : CommittedBy(d)' = CommittedBy(d)
  <2> SUFFICES ASSUME NEW d \in Client PROVE CommittedBy(d)' = CommittedBy(d)
    OBVIOUS
  <2>1. \A t \in Txn : (owner'[t] = d /\ status'[t] = "committed")
                           <=> (owner[t] = d /\ status[t] = "committed")
    BY <1>1, <1>3
  <2> QED BY <2>1, SameCommitted
<1> QED BY <1>1, <1>3, <1>4

\* A transaction is rolled back.
LEMMA RollbackFacts ==
    ASSUME TypesInv, NEW t, SI!SIRollback(t), owner' = owner
    PROVE  /\ \A u \in Txn : status[u] # "idle" => status'[u] # "idle"
           /\ status' \in [Txn -> {"idle", "active", "committed", "rolledback"}]
           /\ \A d \in Client : CommittedBy(d)' = CommittedBy(d)
<1>1. status[t] = "active" /\ status' = [status EXCEPT ![t] = "rolledback"]
    BY DEF SI!SIRollback
<1>2. /\ t \in Txn => status'[t] = "rolledback"
      /\ \A u \in Txn : u # t => status'[u] = status[u]
      /\ status' \in [Txn -> {"idle", "active", "committed", "rolledback"}]
    BY <1>1 DEF TypesInv
<1>3. \A d \in Client : CommittedBy(d)' = CommittedBy(d)
  <2> SUFFICES ASSUME NEW d \in Client PROVE CommittedBy(d)' = CommittedBy(d)
    OBVIOUS
  <2>1. \A u \in Txn : (owner'[u] = d /\ status'[u] = "committed")
                           <=> (owner[u] = d /\ status[u] = "committed")
    BY <1>1, <1>2
  <2> QED BY <2>1, SameCommitted
<1> QED BY <1>2, <1>3

\* A transaction of client c is committed.
LEMMA CommitFacts ==
    ASSUME TypesInv, NEW c \in Client, NEW t \in Txn, owner[t] = c, SI!SICommit(t), owner' = owner
    PROVE  /\ \A u \in Txn : status[u] # "idle" => status'[u] # "idle"
           /\ status' \in [Txn -> {"idle", "active", "committed", "rolledback"}]
           /\ CommittedBy(c)' = CommittedBy(c) \cup {t}
           /\ \A d \in Client \ {c} : CommittedBy(d)' = CommittedBy(d)
<1>1. status[t] = "active" /\ status' = [status EXCEPT ![t] = "committed"]
    BY DEF SI!SICommit
<1>2. /\ status'[t] = "committed" /\ \A u \in Txn : u # t => status'[u] = status[u]
      /\ status' \in [Txn -> {"idle", "active", "committed", "rolledback"}]
    BY <1>1 DEF TypesInv
<1>3. CommittedBy(c)' = CommittedBy(c) \cup {t}
    BY <1>2 DEF CommittedBy
<1>4. \A d \in Client \ {c} : CommittedBy(d)' = CommittedBy(d)
  <2> SUFFICES ASSUME NEW d \in Client \ {c} PROVE CommittedBy(d)' = CommittedBy(d)
    OBVIOUS
  <2>1. \A u \in Txn : (owner'[u] = d /\ status'[u] = "committed")
                           <=> (owner[u] = d /\ status[u] = "committed")
    BY <1>2
  <2> QED BY <2>1, SameCommitted
<1> QED BY <1>2, <1>3, <1>4

-----------------------------------------------------------------------------
(* The steps of a session.                                                 *)

\* All that the invariant says of a step of client c or of its session.
Preserves(c) ==
    /\ Only(c) /\ script' = script
    /\ status' \in [Txn -> {"idle", "active", "committed", "rolledback"}]
    /\ owner' \in [Txn -> Client \cup {NoTxn}]
    /\ OwnersInv' /\ ClientInv(c)' /\ StageInv(c)' /\ OnceInv(c)'
    /\ \A d \in Client \ {c} :
          CommittedBy(d)' = CommittedBy(d) /\ (MayCommit(d)' => MayCommit(d))

LEMMA PreservesInv ==
    ASSUME SessionsInv, NEW c \in Client, Preserves(c)
    PROVE  SessionsInv'
<1>1. TypesInv'
    BY DEF SessionsInv, TypesInv, Preserves, Only
<1>2. ASSUME NEW d \in Client PROVE ClientInv(d)' /\ StageInv(d)' /\ OnceInv(d)'
  <2>1. CASE d = c
    BY <2>1 DEF Preserves
  <2>2. CASE d # c
    <3>1. /\ client'[d] = client[d] /\ session'[d] = session[d] /\ script' = script
          /\ CommittedBy(d)' = CommittedBy(d) /\ (MayCommit(d)' => MayCommit(d))
      BY <2>2 DEF Preserves, Only
    <3>2. ClientInv(d) /\ StageInv(d) /\ OnceInv(d)
      BY DEF SessionsInv
    <3> QED BY <3>1, <3>2, OtherKeepsOnce
  <2> QED BY <2>1, <2>2
<1> QED BY <1>1, <1>2 DEF SessionsInv, Preserves

\* Steps that leave the transactions alone, and may leave a request on its way.
LEMMA QuietStep ==
    ASSUME SessionsInv, NEW c \in Client, Only(c), script' = script,
           status' = status, owner' = owner,
           \A t \in Txn : t \in {session'[c].txn, session'[c].own}
                              => t \in {session[c].txn, session[c].own},
           \A m \in late' \ late :
               /\ m.client = c
               /\ m.command.op = "commit" => m.txn \in Txn /\ Owns(c, m.txn),
           ClientInv(c)', StageInv(c)', OnceInv(c)'
    PROVE  Preserves(c)
<1>1. \A d \in Client : CommittedBy(d)' = CommittedBy(d)
    BY DEF CommittedBy
<1>2. \A d \in Client \ {c} : MayCommit(d)' => MayCommit(d)
    BY DEF MayCommit
<1>3. OwnersInv'
  <2>1. OwnersInv
    BY DEF SessionsInv
  <2>2. \A d \in Client : \A t \in Txn :
            t \in {session'[d].txn, session'[d].own} =>
                \/ t \in {session[d].txn, session[d].own}
                \/ owner'[t] = d /\ status'[t] # "idle"
    BY DEF Only
  <2>3. \A t \in Txn : status[t] # "idle" => owner'[t] = owner[t] /\ status'[t] # "idle"
    OBVIOUS
  <2> QED BY <2>1, <2>2, <2>3, OwnersStep
<1> QED BY <1>1, <1>2, <1>3 DEF Preserves, SessionsInv, TypesInv

LEMMA QuietAnswer ==
    ASSUME SessionsInv, NEW c \in Client, NEW r, Answers(c, r),
           status' = status, owner' = owner,
           session'[c].txn \in {session[c].txn, NoTxn, ReadOnly},
           \A m \in late' \ late :
               /\ m.client = c
               /\ m.command.op = "commit" =>
                     m.txn \in Txn /\ Owns(c, m.txn) /\ session[c].stage = "commit" /\ r = "Abort"
    PROVE  Preserves(c)
<1>1. Uncommitted(c, r)
    BY DEF Uncommitted, CommittedBy, MayCommit
<1>2. ClientInv(c)' /\ StageInv(c)' /\ OnceInv(c)'
    BY <1>1, AnswerKeepsOnce DEF SessionsInv
<1>3. NoTxn \notin Txn /\ ReadOnly \notin Txn
    BY SessionsAssumption
<1> QED BY <1>2, <1>3, QuietStep DEF Answers

LEMMA QuietGoOn ==
    ASSUME SessionsInv, NEW c \in Client, Only(c), script' = script, client' = client,
           status' = status, owner' = owner,
           session[c].stage \notin {"hung", "dropped"},
           session'[c].stage \notin {"idle", "dropped"},
           \A t \in Txn : t \in {session'[c].txn, session'[c].own}
                              => t \in {session[c].txn, session[c].own},
           client[c].pc = "rollback" /\ session[c].stage = "idle" => session[c].txn # NoTxn,
           session'[c].stage = "hung" \/ ~IsTransaction(script[c])
               \/ (client[c].pc = "statement" /\ client[c].inTxn =>
                      \/ session'[c].txn \in Txn
                      \/ session'[c].stage = "commit" /\ IsEnd(session'[c].stmt)
                      \/ session[c].txn \notin Txn /\ session[c].stage # "commit"),
           \A m \in late' \ late :
               /\ m.client = c
               /\ m.command.op = "commit" =>
                     /\ m.txn \in Txn /\ Owns(c, m.txn)
                     /\ session[c].stage = "commit" /\ session'[c].stage = "hung",
           ClientInv(c)', StageInv(c)'
    PROVE  Preserves(c)
<1>1. CommittedBy(c)' = CommittedBy(c)
    BY DEF CommittedBy
<1>2. MayCommit(c)' => MayCommit(c) \/ (session'[c].stage = "hung" /\ session[c].stage = "commit")
    BY DEF MayCommit
<1>3. OnceInv(c)'
    BY <1>1, <1>2, GoOnKeepsOnce DEF SessionsInv
<1> QED BY <1>3, QuietStep

\* The end of a session.
LEMMA QuietClosed ==
    ASSUME SessionsInv, NEW c \in Client, Closed(c), Only(c), script' = script, client' = client,
           status' = status, owner' = owner,
           \A t \in Txn : t \in {session'[c].txn, session'[c].own}
                              => t \in {session[c].txn, session[c].own},
           \A m \in late' \ late : m.client = c /\ m.command.op # "commit",
           ClientInv(c)', StageInv(c)'
    PROVE  Preserves(c)
<1>1. CommittedBy(c)' = CommittedBy(c)
    BY DEF CommittedBy
<1>2. MayCommit(c)' => MayCommit(c)
    BY DEF MayCommit
<1>3. TransactionInv(c) => TransactionInv(c)'
    BY <1>1, <1>2 DEF TransactionInv, Waits, Closed
<1>4. StatementInv(c) => StatementInv(c)'
    BY <1>1 DEF StatementInv
<1>5. OnceInv(c)'
    BY <1>3, <1>4 DEF OnceInv, SessionsInv
<1> QED BY <1>5, QuietStep

LEMMA SessionFacts ==
    ASSUME SessionsInv, NEW c \in Client
    PROVE  /\ TypesInv /\ ClientInv(c) /\ StageInv(c) /\ OnceInv(c)
           /\ session[c] \in SessionState
           /\ Fields(session[c], session[c].txn, session[c].stage, session[c].stmt,
                     session[c].own, session[c].result)
           /\ session[c].txn \in TxnRef /\ session[c].own \in TxnRef
           /\ session[c].result \in Result
           /\ NoTxn \in TxnRef /\ ReadOnly \in TxnRef
           /\ NoTxn \notin Txn /\ ReadOnly \notin Txn /\ ReadOnly # NoTxn
           /\ TxnRef = Txn \cup {NoTxn, ReadOnly}
BY FieldTypes, SessionsAssumption DEF SessionsInv, TypesInv, TxnRef

\* Statements of closures; the others are rollbacks.
LEMMA StatementFacts ==
    ASSUME SessionsInv, NEW c \in Client
    PROVE  /\ Request(c).op # "drop session"
           /\ Request(c) \in Statements
                  \cup {Statement("none"), Statement("rollback"), Statement("drop session")}
           /\ ~IsEnd(Request(c)) => Request(c) \in Statements /\ client[c].pc = "statement"
           /\ \A s : IsBegin(s) => ~IsEnd(s)
<1>1. Request(c).op # "drop session"
    BY RequestFacts DEF SessionsInv, Operations
<1>2. ~IsEnd(Request(c)) => Request(c) \in Statements /\ client[c].pc = "statement"
    BY RequestFacts DEF SessionsInv, IsEnd, Statement
<1>3. \A s : IsBegin(s) => ~IsEnd(s)
    BY DEF IsBegin, IsEnd
<1> QED BY <1>1, <1>2, <1>3, RequestFacts DEF SessionsInv

LEMMA ExecuteBeginStep ==
    ASSUME SessionsInv, NEW c \in Client, ExecuteBegin(c)
    PROVE  Preserves(c)
<1>g. /\ session[c].stage = "idle" /\ ~Closed(c) /\ IsBegin(Request(c))
      /\ status' = status /\ owner' = owner /\ late' = late /\ script' = script
    BY DEF ExecuteBegin, ReceiveRequest, siVars
<1>1. CASE session[c].txn # NoTxn
  <2>1. Respond(c, session[c], "InvalidInput")
    BY <1>1 DEF ExecuteBegin
  <2>2. /\ Only(c) /\ Moves(c, "InvalidInput")
        /\ Fields(session'[c], session[c].txn, "idle", Statement("none"), NoTxn, "ok")
    BY <2>1, SessionFacts, RespondStep
  <2>3. Answers(c, "InvalidInput")
    BY <1>g, <2>2 DEF Answers, Fields
  <2> QED BY <1>g, <2>2, <2>3, QuietAnswer DEF Fields
<1>2. CASE session[c].txn = NoTxn
  <2> DEFINE a == [session[c] EXCEPT !.stage = "begin"]
             s == [a EXCEPT !.stmt = Request(c)]
  <2>1. Fields(a, NoTxn, "begin", session[c].stmt, session[c].own, session[c].result)
    BY <1>2, SessionFacts, SetStage DEF InRaft
  <2>2. Fields(s, NoTxn, "begin", Request(c), session[c].own, session[c].result)
    <3> HIDE DEF a
    <3> QED BY <2>1, StatementFacts, SetStmt
  <2>3. GoTo(c, s)
    BY <1>2 DEF ExecuteBegin
  <2> HIDE DEF s
  <2>4. Only(c) /\ client' = client /\ session'[c] = s
    BY <2>2, <2>3, SessionFacts, GoToStep DEF Fields
  <2>5. /\ session'[c].txn = NoTxn /\ session'[c].stage = "begin"
        /\ session'[c].stmt = Request(c) /\ session'[c].own = session[c].own
    BY <2>2, <2>4 DEF Fields
  <2>6. client[c].pc = "statement" /\ ~IsEnd(Request(c)) /\ Request(c) \in Statements
    BY <1>g, StatementFacts
  <2>7. ClientInv(c)'
    BY <1>g, <2>4, <2>5, <2>6, SessionFacts, StatementFacts DEF ClientInv, Waits, Closed, Request
  <2>8. StageInv(c)'
    BY <2>5, <2>6 DEF StageInv
  <2> QED BY <1>2, <1>g, <2>4, <2>5, <2>6, <2>7, <2>8, SessionFacts, QuietGoOn
<1> QED BY <1>1, <1>2

\* ROLLBACK is no statement of a closure that is one transaction.
LEMMA OnlyCommits ==
    ASSUME SessionsInv, NEW c \in Client, IsTransaction(script[c]),
           client[c].pc = "statement", IsEnd(Request(c))
    PROVE  Request(c).op = "commit"
<1> DEFINE k == client[c].step
<1>1. k \in 1..Len(script[c]) /\ Request(c) = script[c][k] /\ Len(script[c]) \in Nat
    BY RequestFacts, ScriptFacts DEF SessionsInv, ClientInv
<1>2. k # 1
    BY <1>1 DEF IsTransaction, IsEnd
<1>3. k \notin 2..Len(script[c]) - 1
    BY <1>1 DEF IsTransaction
<1>4. k = Len(script[c])
    BY <1>1, <1>2, <1>3
<1> QED BY <1>1, <1>4 DEF IsTransaction

LEMMA ExecuteEndStep ==
    ASSUME SessionsInv, NEW c \in Client, ExecuteEnd(c)
    PROVE  Preserves(c)
<1>g. /\ session[c].stage = "idle" /\ ~Closed(c) /\ IsEnd(Request(c))
      /\ status' = status /\ owner' = owner /\ late' = late /\ script' = script
    BY DEF ExecuteEnd, ReceiveRequest, siVars
<1>e. Request(c).op \in {"commit", "rollback"}
    BY <1>g DEF IsEnd
<1> DEFINE a == [session[c] EXCEPT !.txn = NoTxn]
           b == [a EXCEPT !.own = session[c].txn]
           s == [b EXCEPT !.stmt = Request(c)]
<1>1. Fields(a, NoTxn, "idle", session[c].stmt, session[c].own, session[c].result)
    BY <1>g, SessionFacts, SetTxn
<1>2. Fields(b, NoTxn, "idle", session[c].stmt, session[c].txn, session[c].result)
  <2> HIDE DEF a
  <2> QED BY <1>1, SessionFacts, SetOwn
<1>3. Fields(s, NoTxn, "idle", Request(c), session[c].txn, session[c].result)
  <2> HIDE DEF b
  <2> QED BY <1>2, StatementFacts, SetStmt
<1>4. /\ s.own = NoTxn => Respond(c, s, "InvalidInput")
      /\ s.own # NoTxn /\ s.own = ReadOnly => Respond(c, s, s.stmt.op)
      /\ s.own # NoTxn /\ s.own # ReadOnly => GoTo(c, [s EXCEPT !.stage = s.stmt.op])
  <2>1. s = [session[c] EXCEPT !.txn = NoTxn, !.own = session[c].txn, !.stmt = Request(c)]
    OBVIOUS
  <2>2. /\ s.own = NoTxn => Respond(c, s, "InvalidInput")
        /\ s.own = ReadOnly /\ s.own # NoTxn => Respond(c, s, s.stmt.op)
        /\ s.own # NoTxn /\ s.own # ReadOnly => GoTo(c, [s EXCEPT !.stage = s.stmt.op])
    <3> HIDE DEF s
    <3> QED BY <2>1, SessionFacts DEF ExecuteEnd
  <2> QED BY <2>2
<1> HIDE DEF s
<1>5. s.own = session[c].txn /\ s.stmt = Request(c) /\ s.txn = NoTxn /\ s \in SessionState
    BY <1>3 DEF Fields
<1>6. CASE session[c].txn = NoTxn
  <2>1. Respond(c, s, "InvalidInput")
    BY <1>4, <1>5, <1>6, SessionFacts
  <2>2. /\ Only(c) /\ Moves(c, "InvalidInput")
        /\ Fields(session'[c], NoTxn, "idle", Statement("none"), NoTxn, "ok")
    BY <1>5, <2>1, SessionFacts, RespondStep
  <2>3. Answers(c, "InvalidInput")
    BY <1>g, <2>2 DEF Answers, Fields
  <2> QED BY <1>g, <2>2, <2>3, QuietAnswer DEF Fields
<1>7. CASE session[c].txn = ReadOnly
  <2>1. PICK r : r = Request(c).op
    OBVIOUS
  <2>2. Respond(c, s, r)
    BY <1>4, <1>5, <1>7, <2>1, SessionFacts
  <2>3. /\ Only(c) /\ Moves(c, r)
        /\ Fields(session'[c], NoTxn, "idle", Statement("none"), NoTxn, "ok")
    BY <1>5, <2>2, SessionFacts, RespondStep
  <2>4. Answers(c, r)
    BY <1>7, <1>e, <1>g, <2>1, <2>3 DEF Answers, Fields
  <2> QED BY <1>g, <2>3, <2>4, QuietAnswer DEF Fields
<1>8. CASE session[c].txn \in Txn
  <2> DEFINE z == [s EXCEPT !.stage = s.stmt.op]
  <2>1. GoTo(c, z)
    BY <1>4, <1>5, <1>8, SessionFacts
  <2>2. Fields(z, NoTxn, Request(c).op, Request(c), session[c].txn, session[c].result)
    BY <1>3, <1>5, <1>e, SetStage DEF InRaft
  <2> HIDE DEF z
  <2>3. Only(c) /\ client' = client /\ session'[c] = z
    BY <2>1, <2>2, SessionFacts, GoToStep DEF Fields
  <2>4. /\ session'[c].txn = NoTxn /\ session'[c].stage = Request(c).op
        /\ session'[c].stmt = Request(c) /\ session'[c].own = session[c].txn
    BY <2>2, <2>3 DEF Fields
  <2>5. client[c].inTxn
    BY <1>8, <1>g, SessionFacts DEF ClientInv
  <2>6. ClientInv(c)'
    BY <1>g, <1>e, <2>3, <2>4, <2>5, SessionFacts, StatementFacts
       DEF ClientInv, Waits, Closed, Request
  <2>7. StageInv(c)'
    BY <1>8, <1>e, <1>g, <2>4 DEF StageInv, IsBegin
  <2>8. IsTransaction(script[c]) /\ client[c].pc = "statement" =>
            session'[c].stage = "commit" /\ IsEnd(session'[c].stmt)
    BY <1>g, <2>4, OnlyCommits
  <2> QED BY <1>8, <1>e, <1>g, <2>3, <2>4, <2>6, <2>7, <2>8, SessionFacts, QuietGoOn
<1> QED BY <1>6, <1>7, <1>8, SessionFacts

LEMMA ExecuteStatementStep ==
    ASSUME SessionsInv, NEW c \in Client, ExecuteStatement(c)
    PROVE  Preserves(c)
<1>g. /\ session[c].stage = "idle" /\ ~Closed(c) /\ ~IsBegin(Request(c)) /\ ~IsEnd(Request(c))
      /\ status' = status /\ owner' = owner /\ late' = late /\ script' = script
    BY DEF ExecuteStatement, ReceiveRequest, siVars
<1>1. PICK g : g = (IF session[c].txn = NoTxn THEN "begin" ELSE "run")
    OBVIOUS
<1> DEFINE a == [session[c] EXCEPT !.own = session[c].txn]
           b == [a EXCEPT !.stmt = Request(c)]
           s == [b EXCEPT !.stage = g]
<1>2. Fields(a, session[c].txn, "idle", session[c].stmt, session[c].txn, session[c].result)
    BY <1>g, SessionFacts, SetOwn
<1>3. Fields(b, session[c].txn, "idle", Request(c), session[c].txn, session[c].result)
  <2> HIDE DEF a
  <2> QED BY <1>2, StatementFacts, SetStmt
<1>4. Fields(s, session[c].txn, g, Request(c), session[c].txn, session[c].result)
  <2> HIDE DEF b
  <2> QED BY <1>1, <1>3, SetStage DEF InRaft
<1>5. GoTo(c, s)
    BY <1>1 DEF ExecuteStatement
<1> HIDE DEF s
<1>6. Only(c) /\ client' = client /\ session'[c] = s
    BY <1>4, <1>5, SessionFacts, GoToStep DEF Fields
<1>7. /\ session'[c].txn = session[c].txn /\ session'[c].stage = g
      /\ session'[c].stmt = Request(c) /\ session'[c].own = session[c].txn
    BY <1>4, <1>6 DEF Fields
<1>8. client[c].pc = "statement" /\ Request(c) \in Statements
    BY <1>g, StatementFacts
<1>9. ClientInv(c)'
    BY <1>1, <1>g, <1>6, <1>7, <1>8, SessionFacts, StatementFacts
       DEF ClientInv, Waits, Closed, Request
<1>10. StageInv(c)'
    BY <1>1, <1>g, <1>7, <1>8 DEF StageInv
<1> QED BY <1>1, <1>g, <1>6, <1>7, <1>8, <1>9, <1>10, SessionFacts, QuietGoOn

\* A transaction has begun, in the session or for one statement.
LEMMA BegunStep ==
    ASSUME SessionsInv, NEW c \in Client, session[c].stage = "begin", script' = script,
           late' = late, NEW t \in Txn \cup {ReadOnly}, Begun(c, session[c], t),
           status' \in [Txn -> {"idle", "active", "committed", "rolledback"}],
           owner' \in [Txn -> Client \cup {NoTxn}],
           \A u \in Txn : status[u] # "idle" => owner'[u] = owner[u] /\ status'[u] # "idle",
           t \in Txn => owner'[t] = c /\ status'[t] # "idle",
           t = ReadOnly <=> IsReadOnly(session[c].stmt),
           \A d \in Client : CommittedBy(d)' = CommittedBy(d)
    PROVE  Preserves(c)
<1>t. t \in TxnRef /\ session[c].txn = NoTxn /\ (t \in Txn \/ t = ReadOnly)
    BY SessionFacts DEF StageInv
<1>1. ASSUME Only(c), ClientInv(c)', StageInv(c)', OnceInv(c)',
             session'[c].txn \in {NoTxn, t}, session'[c].own \in {session[c].own, NoTxn, t}
      PROVE  Preserves(c)
  <2>1. OwnersInv'
    <3>1. OwnersInv
      BY DEF SessionsInv
    <3>2. \A d \in Client : \A u \in Txn :
              u \in {session'[d].txn, session'[d].own} =>
                  \/ u \in {session[d].txn, session[d].own}
                  \/ owner'[u] = d /\ status'[u] # "idle"
      BY <1>1, SessionFacts DEF Only
    <3> QED BY <3>1, <3>2, OwnersStep
  <2>2. \A d \in Client : MayCommit(d)' => MayCommit(d)
    BY DEF MayCommit
  <2> QED BY <1>1, <2>1, <2>2 DEF Preserves
<1>2. CASE IsBegin(session[c].stmt)
  <2> DEFINE s == [session[c] EXCEPT !.txn = t]
  <2>1. Fields(s, t, "begin", session[c].stmt, session[c].own, session[c].result)
    BY <1>t, SessionFacts, SetTxn
  <2>2. Respond(c, s, "begin")
    BY <1>2 DEF Begun
  <2> HIDE DEF s
  <2>3. s \in SessionState /\ s.txn = t
    BY <2>1 DEF Fields
  <2>4. /\ Only(c) /\ Moves(c, "begin")
        /\ Fields(session'[c], t, "idle", Statement("none"), NoTxn, "ok")
    BY <2>2, <2>3, SessionFacts, RespondStep
  <2>5. Answers(c, "begin")
    <3>1. Waits(c) => Request(c) = session[c].stmt
      BY SessionFacts DEF ClientInv, InRaft
    <3>2. session[c].stmt.op = "begin" => t \in Txn
      BY <1>t DEF IsReadOnly
    <3> QED BY <1>2, <2>4, <3>1, <3>2 DEF Answers, Fields, InRaft
  <2>6. Uncommitted(c, "begin")
    BY DEF Uncommitted, MayCommit
  <2>7. ClientInv(c)' /\ StageInv(c)' /\ OnceInv(c)'
    BY <2>5, <2>6, SessionFacts, AnswerKeepsOnce
  <2> QED BY <1>1, <2>4, <2>7 DEF Fields
<1>3. CASE ~IsBegin(session[c].stmt)
  <2> DEFINE a == [session[c] EXCEPT !.own = t]
             s == [a EXCEPT !.stage = "run"]
  <2>1. Fields(a, NoTxn, "begin", session[c].stmt, t, session[c].result)
    BY <1>t, SessionFacts, SetOwn
  <2>2. Fields(s, NoTxn, "run", session[c].stmt, t, session[c].result)
    <3> HIDE DEF a
    <3> QED BY <2>1, SetStage DEF InRaft
  <2>3. GoTo(c, s)
    BY <1>3 DEF Begun
  <2> HIDE DEF s
  <2>4. Only(c) /\ client' = client /\ session'[c] = s
    BY <2>2, <2>3, SessionFacts, GoToStep DEF Fields
  <2>5. /\ session'[c].txn = NoTxn /\ session'[c].stage = "run"
        /\ session'[c].stmt = session[c].stmt /\ session'[c].own = t
    BY <2>2, <2>4 DEF Fields
  <2>6. ClientInv(c)'
    BY <2>4, <2>5, SessionFacts DEF ClientInv, Waits, Closed, Request, InRaft
  <2>7. StageInv(c)'
    BY <1>3, <1>t, <2>5, SessionFacts DEF StageInv
  <2>8. OnceInv(c)'
    <3>1. MayCommit(c)' => MayCommit(c)
      BY DEF MayCommit
    <3> QED BY <1>t, <2>4, <2>5, <3>1, SessionFacts, GoOnKeepsOnce
  <2> QED BY <1>1, <2>4, <2>5, <2>6, <2>7, <2>8
<1> QED BY <1>2, <1>3

LEMMA BeginReadWriteStep ==
    ASSUME SessionsInv, NEW c \in Client, BeginReadWrite(c)
    PROVE  Preserves(c)
<1>1. Begin(c)
    BY DEF BeginReadWrite
<1>2. PICK t : t = NextTxn
    OBVIOUS
<1>3. /\ t \in Txn /\ owner'[t] = c /\ status'[t] = "active"
      /\ \A u \in Txn : status[u] # "idle" => owner'[u] = owner[u] /\ status'[u] = status[u]
      /\ status' \in [Txn -> {"idle", "active", "committed", "rolledback"}]
      /\ owner' \in [Txn -> Client \cup {NoTxn}]
      /\ \A d \in Client : CommittedBy(d)' = CommittedBy(d)
    BY <1>1, <1>2, SessionFacts, BeginFacts
<1>4. /\ session[c].stage = "begin" /\ ~IsReadOnly(session[c].stmt)
      /\ Begun(c, session[c], t) /\ script' = script /\ late' = late
    BY <1>2 DEF BeginReadWrite
<1>5. t # ReadOnly
    BY <1>3, SessionFacts
<1> QED BY <1>3, <1>4, <1>5, BegunStep

LEMMA BeginReadOnlyStep ==
    ASSUME SessionsInv, NEW c \in Client, BeginReadOnly(c)
    PROVE  Preserves(c)
<1>1. PICK t : t = ReadOnly
    OBVIOUS
<1>2. /\ session[c].stage = "begin" /\ IsReadOnly(session[c].stmt)
      /\ Begun(c, session[c], t) /\ script' = script /\ late' = late
      /\ status' = status /\ owner' = owner
    BY <1>1 DEF BeginReadOnly, siVars
<1>3. /\ status' \in [Txn -> {"idle", "active", "committed", "rolledback"}]
      /\ owner' \in [Txn -> Client \cup {NoTxn}]
      /\ \A u \in Txn : status[u] # "idle" => owner'[u] = owner[u] /\ status'[u] # "idle"
      /\ \A d \in Client : CommittedBy(d)' = CommittedBy(d)
    BY <1>2 DEF SessionsInv, TypesInv, CommittedBy
<1>4. t \notin Txn
    BY <1>1, SessionFacts
<1> QED BY <1>1, <1>2, <1>3, <1>4, BegunStep

\* The end of a statement.
LEMMA FinishStep ==
    ASSUME SessionsInv, NEW c \in Client, session[c].stage = "run", script' = script,
           status' = status, owner' = owner, NEW r \in Result, Finish(c, session[c], r),
           \A m \in late' \ late : m.client = c /\ m.command.op # "commit"
    PROVE  Preserves(c)
<1>r. r \notin {"begin", "commit", "rollback"}
    BY DEF Result
<1>s. /\ ~IsBegin(session[c].stmt) /\ ~IsEnd(session[c].stmt)
      /\ IF session[c].txn # NoTxn THEN session[c].own = session[c].txn
         ELSE IF IsReadOnly(session[c].stmt) THEN session[c].own = ReadOnly
         ELSE session[c].own \in Txn
      /\ Waits(c) => Request(c) = session[c].stmt
    BY SessionFacts DEF StageInv, ClientInv, InRaft
<1>1. CASE session[c].own = session[c].txn \/ session[c].own = ReadOnly
  <2>1. Respond(c, session[c], r)
    BY <1>1 DEF Finish
  <2>2. /\ Only(c) /\ Moves(c, r)
        /\ Fields(session'[c], session[c].txn, "idle", Statement("none"), NoTxn, "ok")
    BY <2>1, SessionFacts, RespondStep
  <2>3. session[c].txn # NoTxn \/ IsReadOnly(session[c].stmt)
    BY <1>1, <1>s, SessionFacts
  <2>4. Answers(c, r)
    BY <1>r, <1>s, <2>2, <2>3 DEF Answers, Fields, InRaft
  <2> QED BY <2>2, <2>4, QuietAnswer DEF Fields
<1>2. CASE session[c].own # session[c].txn /\ session[c].own # ReadOnly
  <2>1. PICK g : g = (IF r = "ok" THEN "commit" ELSE "rollback")
    OBVIOUS
  <2>2. session[c].txn = NoTxn /\ session[c].own \in Txn
    BY <1>2, <1>s
  <2> DEFINE a == [session[c] EXCEPT !.result = r]
             s == [a EXCEPT !.stage = g]
  <2>3. Fields(a, NoTxn, "run", session[c].stmt, session[c].own, r)
    BY <2>2, SessionFacts, SetResult
  <2>4. Fields(s, NoTxn, g, session[c].stmt, session[c].own, r)
    <3> HIDE DEF a
    <3> QED BY <2>1, <2>3, SetStage DEF InRaft
  <2>5. GoTo(c, s)
    BY <1>2, <2>1 DEF Finish
  <2> HIDE DEF s
  <2>6. Only(c) /\ client' = client /\ session'[c] = s
    BY <2>4, <2>5, SessionFacts, GoToStep DEF Fields
  <2>7. /\ session'[c].txn = NoTxn /\ session'[c].stage = g
        /\ session'[c].stmt = session[c].stmt /\ session'[c].own = session[c].own
        /\ session'[c].result = r
    BY <2>4, <2>6 DEF Fields
  <2>8. ClientInv(c)'
    BY <1>s, <2>1, <2>6, <2>7, SessionFacts DEF ClientInv, Waits, Closed, Request, InRaft
  <2>9. StageInv(c)'
    <3>1. session[c].stmt.op # "drop session"
      BY SessionFacts, ScriptAssumption DEF StageInv, Operations
    <3> QED BY <1>s, <2>1, <2>2, <2>7, <3>1 DEF StageInv
  <2> QED BY <2>1, <2>2, <2>6, <2>7, <2>8, <2>9, SessionFacts, QuietGoOn
<1> QED BY <1>1, <1>2

LEMMA SelectStep ==
    ASSUME SessionsInv, NEW c \in Client, Select(c)
    PROVE  Preserves(c)
<1>1. "ok" \in Result
    BY DEF Result
<1> QED BY <1>1, FinishStep DEF Select, siVars

LEMMA WriteStep ==
    ASSUME SessionsInv, NEW c \in Client, Write(c)
    PROVE  Preserves(c)
<1>1. PICK r \in Result : Finish(c, session[c], r)
  <2>1. \A x : Outcome(x) \in Result
    BY DEF Outcome, Result
  <2> QED BY <2>1 DEF Write
<1> QED BY <1>1, FinishStep DEF Write

LEMMA CommitStep ==
    ASSUME SessionsInv, NEW c \in Client, Commit(c)
    PROVE  Preserves(c)
<1>1. PICK t : t = session[c].own
    OBVIOUS
<1>2. /\ session[c].stage = "commit" /\ SI!SICommit(t)
      /\ owner' = owner /\ late' = late /\ script' = script
    BY <1>1 DEF Commit
<1>3. t \in Txn /\ owner[t] = c
    BY <1>1, <1>2, SessionFacts DEF StageInv, SessionsInv, OwnersInv, Owns
<1>4. /\ \A u \in Txn : status[u] # "idle" => status'[u] # "idle"
      /\ status' \in [Txn -> {"idle", "active", "committed", "rolledback"}]
      /\ CommittedBy(c)' = CommittedBy(c) \cup {t}
      /\ \A d \in Client \ {c} : CommittedBy(d)' = CommittedBy(d)
    BY <1>2, <1>3, SessionFacts, CommitFacts
<1>5. PICK r \in {"commit", "ok"} : Respond(c, session[c], r)
  <2>1. Respond(c, session[c], IF IsEnd(session[c].stmt) THEN "commit" ELSE session[c].result)
    BY DEF Commit
  <2>2. ~IsEnd(session[c].stmt) => session[c].result = "ok"
    BY <1>2, SessionFacts DEF StageInv
  <2> QED BY <2>1, <2>2
<1>6. /\ Only(c) /\ Moves(c, r)
      /\ Fields(session'[c], session[c].txn, "idle", Statement("none"), NoTxn, "ok")
    BY <1>5, SessionFacts, RespondStep
<1>7. /\ session'[c].txn = NoTxn /\ session'[c].own = NoTxn /\ session'[c].stage = "idle"
    BY <1>2, <1>6, SessionFacts DEF Fields, StageInv
<1>8. ClientInv(c)' /\ StageInv(c)' /\ OnceInv(c)'
    BY <1>2, <1>3, <1>4, <1>6, <1>7, SessionFacts, CommitKeepsOnce
<1>9. OwnersInv'
  <2>1. OwnersInv
    BY DEF SessionsInv
  <2>2. \A d \in Client : \A u \in Txn :
            u \in {session'[d].txn, session'[d].own} =>
                \/ u \in {session[d].txn, session[d].own}
                \/ owner'[u] = d /\ status'[u] # "idle"
    BY <1>6, <1>7, SessionFacts DEF Only
  <2> QED BY <1>2, <1>4, <2>1, <2>2, OwnersStep
<1>10. \A d \in Client : MayCommit(d)' => MayCommit(d)
    BY <1>2 DEF MayCommit
<1> QED BY <1>2, <1>4, <1>6, <1>8, <1>9, <1>10 DEF Preserves, SessionsInv, TypesInv

\* A session that is dropped while its client does nothing.
LEMMA DroppedStep ==
    ASSUME SessionsInv, NEW c \in Client, NEW s,
           s = [session[c] EXCEPT !.txn = NoTxn] \/ (s = session[c] /\ session[c].txn = NoTxn),
           GoTo(c, [Idle(s) EXCEPT !.stage = "dropped"])
    PROVE  /\ Only(c) /\ client' = client
           /\ session'[c].txn = NoTxn /\ session'[c].own = NoTxn
           /\ session'[c].stage = "dropped"
<1>1. Fields(s, NoTxn, session[c].stage, session[c].stmt, session[c].own, session[c].result)
    BY SessionFacts, SetTxn
<1>2. Fields(Idle(s), NoTxn, "idle", Statement("none"), NoTxn, "ok")
    BY <1>1, IdleFields
<1>3. Fields([Idle(s) EXCEPT !.stage = "dropped"], NoTxn, "dropped", Statement("none"), NoTxn, "ok")
    BY <1>2, SetStage
<1>4. [Idle(s) EXCEPT !.stage = "dropped"] \in SessionState
    BY <1>3 DEF Fields
<1>5. Only(c) /\ client' = client /\ session'[c] = [Idle(s) EXCEPT !.stage = "dropped"]
    BY <1>4, SessionFacts, GoToStep
<1> QED BY <1>3, <1>5 DEF Fields

LEMMA RollbackStep ==
    ASSUME SessionsInv, NEW c \in Client, Rollback(c)
    PROVE  Preserves(c)
<1>1. PICK t : t = session[c].own
    OBVIOUS
<1>2. /\ session[c].stage = "rollback" /\ SI!SIRollback(t)
      /\ owner' = owner /\ late' = late /\ script' = script
    BY <1>1 DEF Rollback
<1>3. t \in Txn /\ session[c].txn = NoTxn
    BY <1>1, <1>2, SessionFacts DEF StageInv
<1>4. /\ \A u \in Txn : status[u] # "idle" => status'[u] # "idle"
      /\ status' \in [Txn -> {"idle", "active", "committed", "rolledback"}]
      /\ \A d \in Client : CommittedBy(d)' = CommittedBy(d)
    BY <1>2, <1>3, SessionFacts, RollbackFacts
<1>5. \A d \in Client : MayCommit(d)' => MayCommit(d)
    BY <1>2 DEF MayCommit
<1>6. ASSUME Only(c), session'[c].txn = NoTxn, session'[c].own = NoTxn,
             ClientInv(c)', StageInv(c)', OnceInv(c)'
      PROVE  Preserves(c)
  <2>1. OwnersInv
    BY DEF SessionsInv
  <2>2. \A d \in Client : \A u \in Txn :
            u \in {session'[d].txn, session'[d].own} =>
                \/ u \in {session[d].txn, session[d].own}
                \/ owner'[u] = d /\ status'[u] # "idle"
    BY <1>6, SessionFacts DEF Only
  <2>3. OwnersInv'
    BY <1>2, <1>4, <2>1, <2>2, OwnersStep
  <2> QED BY <1>2, <1>4, <1>5, <1>6, <2>3 DEF Preserves, SessionsInv, TypesInv
<1>7. CASE session[c].stmt.op = "drop session"
  <2>1. GoTo(c, [Idle(session[c]) EXCEPT !.stage = "dropped"])
    BY <1>7 DEF Rollback
  <2>2. /\ Only(c) /\ client' = client
        /\ session'[c].txn = NoTxn /\ session'[c].own = NoTxn /\ session'[c].stage = "dropped"
    BY <1>3, <2>1, DroppedStep
  <2>3. Closed(c)
    BY <1>2, <1>7, SessionFacts DEF ClientInv, InRaft
  <2>4. ClientInv(c)' /\ StageInv(c)'
    BY <2>2, <2>3, SessionFacts DEF ClientInv, StageInv, Waits, Closed, InRaft
  <2>5. TransactionInv(c) => TransactionInv(c)'
    BY <1>4, <1>5, <2>2, <2>3 DEF TransactionInv, Waits, Closed
  <2>6. StatementInv(c) => StatementInv(c)'
    BY <1>4, <2>2 DEF StatementInv
  <2>7. OnceInv(c)'
    BY <1>2, <2>5, <2>6, SessionFacts DEF OnceInv
  <2> QED BY <1>6, <2>2, <2>4, <2>7
<1>8. CASE session[c].stmt.op # "drop session"
  <2>1. PICK r : r = (IF IsEnd(session[c].stmt) THEN "rollback" ELSE session[c].result)
    OBVIOUS
  <2>2. Respond(c, session[c], r)
    BY <1>8, <2>1 DEF Rollback
  <2>3. /\ Only(c) /\ Moves(c, r)
        /\ Fields(session'[c], NoTxn, "idle", Statement("none"), NoTxn, "ok")
    BY <1>3, <2>2, SessionFacts, RespondStep
  <2>4. IsEnd(session[c].stmt) => session[c].stmt.op = "rollback" /\ r = "rollback"
    BY <1>2, <2>1, SessionFacts DEF StageInv
  <2>5. ~IsEnd(session[c].stmt) => r \notin Succeeded
    BY <1>2, <1>8, <2>1, SessionFacts DEF StageInv, Result, Succeeded
  <2>6. Waits(c) => Request(c) = session[c].stmt
    BY <1>2, SessionFacts DEF ClientInv, InRaft
  <2>7. Answers(c, r)
    BY <1>2, <2>3, <2>4, <2>5, <2>6 DEF Answers, Fields, InRaft, Succeeded
  <2>8. Uncommitted(c, r)
    BY <1>4, <1>5 DEF Uncommitted
  <2>9. ClientInv(c)' /\ StageInv(c)' /\ OnceInv(c)'
    BY <2>7, <2>8, SessionFacts, AnswerKeepsOnce
  <2> QED BY <1>6, <2>3, <2>9 DEF Fields
<1> QED BY <1>7, <1>8

-----------------------------------------------------------------------------
(* Faults.                                                                 *)

LEMMA CommandOps ==
    ASSUME NEW d, NEW s, s.op \in {"insert", "update", "delete", "create", "drop"}
    PROVE  Command(d, s).op # "commit"
<1>1. CASE s.op \in {"create", "drop"}
    BY <1>1 DEF Command
<1>2. CASE s.op \in {"insert", "update", "delete"} /\ GetTable(d, s.table) = Deleted
    BY <1>2 DEF Command
<1>3. CASE s.op = "delete" /\ GetTable(d, s.table) # Deleted
    BY <1>3 DEF Command
<1>4. CASE s.op = "update" /\ GetTable(d, s.table) # Deleted
    BY <1>4 DEF Command
<1>5. CASE s.op = "insert" /\ GetTable(d, s.table) # Deleted
    BY <1>5 DEF Command
<1> QED BY <1>1, <1>2, <1>3, <1>4, <1>5

\* Only a session that commits has a COMMIT on its way.
LEMMA SubmittedFacts ==
    ASSUME SessionsInv, NEW c \in Client, session[c].stage \in InRaft, NEW m \in Submitted(c)
    PROVE  /\ m.client = c
           /\ m.command.op = "commit" =>
                 session[c].stage = "commit" /\ m.txn \in Txn /\ Owns(c, m.txn)
<1>1. /\ m.client = c /\ m.txn = session[c].own /\ m.command = WriteCommand(session[c])
      /\ ~(session[c].stage \in {"begin", "run"} /\ IsReadOnly(session[c].stmt))
    BY DEF Submitted
<1>2. ASSUME m.command.op = "commit" PROVE session[c].stage = "commit"
  <2>1. CASE session[c].stage = "run"
    <3>1. session[c].stmt.op \in {"insert", "update", "delete", "create", "drop"}
      BY <1>1, <2>1, SessionFacts, ScriptAssumption
         DEF StageInv, Operations, IsBegin, IsEnd, IsReadOnly
    <3>2. WriteCommand(session[c]).op # "commit"
      BY <2>1, <3>1, CommandOps DEF WriteCommand
    <3> QED BY <1>1, <1>2, <3>2
  <2>2. CASE session[c].stage # "run"
    BY <1>1, <1>2, <2>2 DEF WriteCommand, Statement
  <2> QED BY <2>1, <2>2
<1>3. session[c].stage = "commit" => m.txn \in Txn /\ Owns(c, m.txn)
    BY <1>1, SessionFacts DEF StageInv, SessionsInv, OwnersInv
<1> QED BY <1>1, <1>2, <1>3

\* What a request that is not answered leaves behind.
LEMMA LeftBehind ==
    ASSUME SessionsInv, NEW c \in Client, session[c].stage \in InRaft,
           late' = late \cup Submitted(c) \/ late' = late
    PROVE  \A m \in late' \ late :
               /\ m.client = c
               /\ m.command.op = "commit" =>
                     session[c].stage = "commit" /\ m.txn \in Txn /\ Owns(c, m.txn)
<1> SUFFICES ASSUME NEW m \in late' \ late
             PROVE  /\ m.client = c
                    /\ m.command.op = "commit" =>
                          session[c].stage = "commit" /\ m.txn \in Txn /\ Owns(c, m.txn)
    OBVIOUS
<1>1. m \in Submitted(c)
    OBVIOUS
<1> QED BY <1>1, SubmittedFacts

LEMMA AbortStep ==
    ASSUME SessionsInv, NEW c \in Client, Abort(c)
    PROVE  Preserves(c)
<1>1. /\ session[c].stage \in InRaft /\ script' = script
      /\ status' = status /\ owner' = owner
      /\ late' = late \cup Submitted(c) \/ late' = late
    BY DEF Abort, siVars
<1>2. \A m \in late' \ late :
          /\ m.client = c
          /\ m.command.op = "commit" =>
                session[c].stage = "commit" /\ m.txn \in Txn /\ Owns(c, m.txn)
    BY <1>1, LeftBehind
<1>3. "Abort" \in Result
    BY DEF Result
<1>4. CASE session[c].stage = "run"
  <2>1. Finish(c, session[c], "Abort")
    <3>1. session[c].stmt.op # "drop session"
      BY <1>4, SessionFacts, ScriptAssumption DEF StageInv, Operations
    <3> QED BY <1>4, <3>1 DEF Abort
  <2> QED BY <1>1, <1>2, <1>3, <1>4, <2>1, FinishStep
<1>5. CASE session[c].stage # "run" /\ session[c].stmt.op = "drop session"
  <2>1. GoTo(c, [Idle(session[c]) EXCEPT !.stage = "dropped"])
    BY <1>5 DEF Abort
  <2>2. Closed(c)
    BY <1>1, <1>5, SessionFacts DEF ClientInv
  <2>3. session[c].txn = NoTxn /\ session[c].stage # "commit"
    <3>1. session[c].stmt \notin Statements
      BY <1>5, ScriptAssumption DEF Operations
    <3>2. session[c].stage \in {"commit", "rollback"}
      BY <1>1, <1>5, <3>1, SessionFacts DEF StageInv, InRaft
    <3>3. session[c].txn = NoTxn
      BY <3>2, SessionFacts DEF StageInv
    <3>4. session[c].stage # "commit"
      BY <1>5, SessionFacts DEF StageInv, IsEnd
    <3> QED BY <3>3, <3>4
  <2>4. /\ Only(c) /\ client' = client
        /\ session'[c].txn = NoTxn /\ session'[c].own = NoTxn /\ session'[c].stage = "dropped"
    BY <2>1, <2>3, DroppedStep
  <2>5. ClientInv(c)' /\ StageInv(c)'
    BY <2>2, <2>4, SessionFacts DEF ClientInv, StageInv, Waits, Closed, InRaft
  <2>6. \A m \in late' \ late : m.client = c /\ m.command.op # "commit"
    BY <1>2, <2>3
  <2> QED BY <1>1, <2>2, <2>4, <2>5, <2>6, SessionFacts, QuietClosed
<1>6. CASE session[c].stage # "run" /\ session[c].stmt.op # "drop session"
  <2>1. Respond(c, session[c], "Abort")
    BY <1>6 DEF Abort
  <2>2. /\ Only(c) /\ Moves(c, "Abort")
        /\ Fields(session'[c], session[c].txn, "idle", Statement("none"), NoTxn, "ok")
    BY <2>1, SessionFacts, RespondStep
  <2>3. Answers(c, "Abort")
    BY <1>1, <2>2 DEF Answers, Fields
  <2> QED BY <1>1, <1>2, <2>2, <2>3, QuietAnswer DEF Fields
<1> QED BY <1>4, <1>5, <1>6

LEMMA LoseStep ==
    ASSUME SessionsInv, NEW c \in Client, Lose(c)
    PROVE  Preserves(c)
<1>1. /\ session[c].stage \in InRaft /\ script' = script
      /\ status' = status /\ owner' = owner
      /\ late' = late \cup Submitted(c)
    BY DEF Lose, siVars
<1>2. \A m \in late' \ late :
          /\ m.client = c
          /\ m.command.op = "commit" =>
                session[c].stage = "commit" /\ m.txn \in Txn /\ Owns(c, m.txn)
    BY <1>1, LeftBehind
<1> DEFINE s == [session[c] EXCEPT !.stage = "hung"]
<1>3. Fields(s, session[c].txn, "hung", session[c].stmt, session[c].own, session[c].result)
    BY SessionFacts, SetStage
<1>4. GoTo(c, s)
    BY DEF Lose
<1> HIDE DEF s
<1>5. Only(c) /\ client' = client /\ session'[c] = s
    BY <1>3, <1>4, SessionFacts, GoToStep DEF Fields
<1>6. /\ session'[c].txn = session[c].txn /\ session'[c].stage = "hung"
      /\ session'[c].own = session[c].own
    BY <1>3, <1>5 DEF Fields
<1>7. ClientInv(c)' /\ StageInv(c)'
    BY <1>1, <1>5, <1>6, SessionFacts DEF ClientInv, StageInv, Waits, Closed, InRaft
<1> QED BY <1>1, <1>2, <1>5, <1>6, <1>7, QuietGoOn DEF InRaft

-----------------------------------------------------------------------------
(* The end of a session, and the client's timeout.                         *)

LEMMA DropStep ==
    ASSUME SessionsInv, NEW c \in Client, Drop(c)
    PROVE  Preserves(c)
<1>1. /\ session[c].stage = "idle" /\ Closed(c) /\ script' = script
      /\ status' = status /\ owner' = owner /\ late' = late
    BY DEF Drop, siVars
<1>2. CASE session[c].txn \notin Txn
  <2>1. PICK s : s = [session[c] EXCEPT !.txn = NoTxn]
    OBVIOUS
  <2>2. GoTo(c, [Idle(s) EXCEPT !.stage = "dropped"])
    <3>1. [Idle(s) EXCEPT !.stage = "dropped"]
              = [Idle(session[c]) EXCEPT !.txn = NoTxn, !.stage = "dropped"]
      BY <2>1 DEF Idle
    <3> QED BY <1>2, <3>1 DEF Drop
  <2>3. /\ Only(c) /\ client' = client
        /\ session'[c].txn = NoTxn /\ session'[c].own = NoTxn /\ session'[c].stage = "dropped"
    BY <2>1, <2>2, DroppedStep
  <2>4. ClientInv(c)' /\ StageInv(c)'
    BY <1>1, <2>3, SessionFacts DEF ClientInv, StageInv, Waits, Closed, InRaft
  <2> QED BY <1>1, <2>3, <2>4, SessionFacts, QuietClosed
<1>3. CASE session[c].txn \in Txn
  <2> DEFINE a == [session[c] EXCEPT !.txn = NoTxn]
             b == [a EXCEPT !.own = session[c].txn]
             d == [b EXCEPT !.stage = "rollback"]
             s == [d EXCEPT !.stmt = Statement("drop session")]
  <2>1. Fields(a, NoTxn, "idle", session[c].stmt, session[c].own, session[c].result)
    BY <1>1, SessionFacts, SetTxn
  <2>2. Fields(b, NoTxn, "idle", session[c].stmt, session[c].txn, session[c].result)
    <3> HIDE DEF a
    <3> QED BY <2>1, SessionFacts, SetOwn
  <2>3. Fields(d, NoTxn, "rollback", session[c].stmt, session[c].txn, session[c].result)
    <3> HIDE DEF b
    <3> QED BY <2>2, SetStage DEF InRaft
  <2>4. Fields(s, NoTxn, "rollback", Statement("drop session"), session[c].txn,
               session[c].result)
    <3> HIDE DEF d
    <3> QED BY <2>3, SetStmt
  <2>5. GoTo(c, s)
    BY <1>3 DEF Drop
  <2> HIDE DEF s
  <2>6. Only(c) /\ client' = client /\ session'[c] = s
    BY <2>4, <2>5, SessionFacts, GoToStep DEF Fields
  <2>7. /\ session'[c].txn = NoTxn /\ session'[c].own = session[c].txn
        /\ session'[c].stage = "rollback" /\ session'[c].stmt.op = "drop session"
    <3>1. /\ session'[c].txn = NoTxn /\ session'[c].own = session[c].txn
          /\ session'[c].stage = "rollback" /\ session'[c].stmt = Statement("drop session")
      BY <2>4, <2>6 DEF Fields
    <3>2. Statement("drop session").op = "drop session"
      BY DEF Statement
    <3> QED BY <3>1, <3>2
  <2>8. ClientInv(c)'
    BY <1>1, <2>6, <2>7, SessionFacts DEF ClientInv, Waits, Closed
  <2>9. StageInv(c)'
    BY <1>3, <2>7 DEF StageInv, IsBegin, IsEnd
  <2> QED BY <1>1, <1>3, <2>6, <2>7, <2>8, <2>9, SessionFacts, QuietClosed
<1> QED BY <1>2, <1>3

LEMMA TimeoutStep ==
    ASSUME SessionsInv, NEW c \in Client, Timeout(c)
    PROVE  Preserves(c)
<1>1. /\ ~Closed(c) /\ FinalRollback(c) /\ script' = script /\ session' = session
      /\ status' = status /\ owner' = owner /\ late' = late
    BY DEF Timeout, siVars
<1>2. /\ client' \in [Client -> ClientState]
      /\ \A d \in Client \ {c} : client'[d] = client[d]
      /\ \/ client'[c].pc = "failed"
         \/ client'[c].pc = "last rollback" /\ client'[c].inTxn /\ client[c].inTxn
  <2>1. client \in [Client -> ClientState] /\ client[c] \in ClientState
    BY DEF SessionsInv, TypesInv
  <2>2. PICK pc \in {"failed", "last rollback"} :
            /\ client' = [client EXCEPT ![c].pc = pc]
            /\ pc = "last rollback" => client[c].inTxn
    BY <1>1, Zenon DEF FinalRollback, GoOn
  <2>3. client' \in [Client -> ClientState] /\ client'[c].pc = pc
        /\ client'[c].inTxn = client[c].inTxn
        /\ \A d \in Client \ {c} : client'[d] = client[d]
    BY <2>1, <2>2 DEF ClientState
  <2> QED BY <2>2, <2>3
<1>3. Only(c)
    BY <1>1, <1>2 DEF Only, SessionsInv, TypesInv
<1>4. ClientInv(c)' /\ StageInv(c)' /\ OnceInv(c)'
    BY <1>1, <1>2, SessionFacts, TimeoutKeepsOnce
<1> QED BY <1>1, <1>3, <1>4, QuietStep

-----------------------------------------------------------------------------
(* Requests that are applied after their session has given up on them.     *)

\* A request that is applied late changes transactions, and no client or session.
LEMMA LateKeepsInv ==
    ASSUME SessionsInv, script' = script, client' = client, session' = session,
           late' \subseteq late,
           status' \in [Txn -> {"idle", "active", "committed", "rolledback"}],
           owner' \in [Txn -> Client \cup {NoTxn}],
           \A t \in Txn : status[t] # "idle" => owner'[t] = owner[t] /\ status'[t] # "idle",
           \A c \in Client :
               \/ CommittedBy(c)' = CommittedBy(c)
               \/ MayCommit(c) /\ CommittedBy(c) \subseteq CommittedBy(c)'
    PROVE  SessionsInv'
<1>1. TypesInv'
    BY DEF SessionsInv, TypesInv
<1>2. OwnersInv'
    BY OwnersStep DEF SessionsInv
<1>3. ASSUME NEW c \in Client PROVE ClientInv(c)' /\ StageInv(c)' /\ OnceInv(c)'
  <2>1. MayCommit(c)' => MayCommit(c)
    BY DEF MayCommit
  <2> QED BY <2>1, OtherKeepsOnce DEF SessionsInv
<1> QED BY <1>1, <1>2, <1>3 DEF SessionsInv

LEMMA LateStep ==
    ASSUME SessionsInv, Late
    PROVE  SessionsInv'
<1>1. PICK m \in late : LateBegin(m) \/ LateEnd(m) \/ LateWrite(m)
    BY DEF Late
<1>2. m.client \in Client
    BY DEF SessionsInv, OwnersInv
<1>3. /\ script' = script /\ client' = client /\ session' = session /\ late' \subseteq late
    BY <1>1 DEF LateBegin, LateEnd, LateWrite
<1>t. TypesInv
    BY DEF SessionsInv
<1>4. CASE LateBegin(m)
  <2>1. Begin(m.client)
    BY <1>4 DEF LateBegin
  <2>2. /\ \A t \in Txn : status[t] # "idle" => owner'[t] = owner[t] /\ status'[t] = status[t]
        /\ status' \in [Txn -> {"idle", "active", "committed", "rolledback"}]
        /\ owner' \in [Txn -> Client \cup {NoTxn}]
        /\ \A d \in Client : CommittedBy(d)' = CommittedBy(d)
    BY <1>2, <1>t, <2>1, BeginFacts
  <2> QED BY <1>3, <2>2, LateKeepsInv
<1>5. CASE m.command.op = "commit" /\ SI!SICommit(m.txn) /\ owner' = owner
  <2>1. m.txn \in Txn /\ owner[m.txn] = m.client
    BY <1>5 DEF SessionsInv, OwnersInv, Owns
  <2>2. /\ \A u \in Txn : status[u] # "idle" => status'[u] # "idle"
        /\ status' \in [Txn -> {"idle", "active", "committed", "rolledback"}]
        /\ CommittedBy(m.client)' = CommittedBy(m.client) \cup {m.txn}
        /\ \A d \in Client \ {m.client} : CommittedBy(d)' = CommittedBy(d)
    BY <1>2, <1>5, <1>t, <2>1, CommitFacts
  <2>3. MayCommit(m.client)
    BY <1>5 DEF MayCommit
  <2>4. \A c \in Client :
            \/ CommittedBy(c)' = CommittedBy(c)
            \/ MayCommit(c) /\ CommittedBy(c) \subseteq CommittedBy(c)'
    BY <2>2, <2>3
  <2> QED BY <1>3, <1>5, <1>t, <2>2, <2>4, LateKeepsInv DEF TypesInv
<1>6. CASE SI!SIRollback(m.txn) /\ owner' = owner
  <2>1. /\ \A u \in Txn : status[u] # "idle" => status'[u] # "idle"
        /\ status' \in [Txn -> {"idle", "active", "committed", "rolledback"}]
        /\ \A d \in Client : CommittedBy(d)' = CommittedBy(d)
    BY <1>6, <1>t, RollbackFacts
  <2> QED BY <1>3, <1>6, <1>t, <2>1, LateKeepsInv DEF TypesInv
<1>7. CASE status' = status /\ owner' = owner
  <2>1. \A c \in Client : CommittedBy(c)' = CommittedBy(c)
    BY <1>7 DEF CommittedBy
  <2> QED BY <1>3, <1>7, <1>t, <2>1, LateKeepsInv DEF TypesInv
<1>8. \/ LateBegin(m)
      \/ m.command.op = "commit" /\ SI!SICommit(m.txn) /\ owner' = owner
      \/ SI!SIRollback(m.txn) /\ owner' = owner
      \/ status' = status /\ owner' = owner
    BY <1>1 DEF LateEnd, LateWrite
<1> QED BY <1>4, <1>5, <1>6, <1>7, <1>8

-----------------------------------------------------------------------------
(* The invariant holds.                                                    *)

LEMMA InvInit ==
    ASSUME SessionsInit
    PROVE  SessionsInv
<1> DEFINE begun == [pc |-> "statement", step |-> 1, inTxn |-> FALSE, retries |-> 0]
<1>1. /\ status = [t \in Txn |-> "idle"] /\ owner = [t \in Txn |-> NoTxn]
      /\ script \in [Client -> Script] /\ late = {}
      /\ client = [c \in Client |-> begun] /\ session = [c \in Client |-> NewSession]
    BY DEF SessionsInit
<1>2. /\ NewSession \in SessionState
      /\ NewSession.txn = NoTxn /\ NewSession.own = NoTxn /\ NewSession.stage = "idle"
  <2>1. NoTxn \in TxnRef /\ "ok" \in Result
    BY DEF TxnRef, Result
  <2> QED BY <2>1 DEF NewSession, SessionState
<1>3. begun \in ClientState
  <2>1. PICK no \in BOOLEAN : no = FALSE
    OBVIOUS
  <2>2. [pc |-> "statement", step |-> 1, inTxn |-> no, retries |-> 0] \in ClientState
    <3>1. 0 \in Nat /\ 1 \in Nat
      OBVIOUS
    <3> QED BY <3>1, Zenon DEF ClientState
  <2> QED BY <2>1, <2>2
<1>4. begun.pc = "statement" /\ begun.step = 1 /\ ~begun.inTxn
    OBVIOUS
<1> HIDE DEF begun
<1>5. TypesInv
    BY <1>1, <1>2, <1>3 DEF TypesInv
<1>6. NoTxn \notin Txn
    BY SessionsAssumption
<1>7. OwnersInv
    BY <1>1, <1>2, <1>6 DEF OwnersInv
<1>8. ASSUME NEW c \in Client PROVE ClientInv(c) /\ StageInv(c) /\ OnceInv(c)
  <2>1. /\ client[c].pc = "statement" /\ client[c].step = 1 /\ ~client[c].inTxn
        /\ session[c].txn = NoTxn /\ session[c].stage = "idle"
    BY <1>1, <1>2, <1>4
  <2>2. 1 \in 1..Len(script[c])
    BY <1>5, ScriptFacts
  <2>3. ClientInv(c)
    BY <2>1, <2>2 DEF ClientInv, InRaft
  <2>4. StageInv(c)
    BY <2>1 DEF StageInv
  <2>5. CommittedBy(c) = {} /\ ~MayCommit(c)
    BY <1>1 DEF CommittedBy, MayCommit
  <2>6. ~(client[c].step > 1)
    BY <2>1
  <2>7. TransactionInv(c)
    BY <2>1, <2>5, <2>6 DEF TransactionInv
  <2>8. StatementInv(c)
    BY <2>1, <2>6 DEF StatementInv
  <2> QED BY <2>3, <2>4, <2>7, <2>8 DEF OnceInv
<1> QED BY <1>5, <1>7, <1>8 DEF SessionsInv

LEMMA InvNext ==
    ASSUME SessionsInv, [SessionsNext]_sessionVars
    PROVE  SessionsInv'
<1>1. CASE Late
    BY <1>1, LateStep
<1>2. ASSUME NEW c \in Client, SessionStep(c) \/ Timeout(c) PROVE SessionsInv'
  <2>1. Preserves(c)
    BY <1>2, ExecuteBeginStep, ExecuteEndStep, ExecuteStatementStep, BeginReadWriteStep,
       BeginReadOnlyStep, SelectStep, WriteStep, CommitStep, RollbackStep, AbortStep,
       LoseStep, DropStep, TimeoutStep DEF SessionStep
  <2> QED BY <2>1, PreservesInv
<1>3. CASE UNCHANGED sessionVars
  <2>1. /\ status' = status /\ script' = script /\ client' = client /\ session' = session
        /\ late' = late /\ owner' = owner
    BY <1>3 DEF sessionVars, siVars
  <2>2. \A c \in Client : CommittedBy(c)' = CommittedBy(c)
    BY <2>1 DEF CommittedBy
  <2>3. TypesInv
    BY DEF SessionsInv
  <2> QED BY <2>1, <2>2, <2>3, LateKeepsInv DEF TypesInv
<1> QED BY <1>1, <1>2, <1>3 DEF SessionsNext

LEMMA InvHolds == SessionsSpec => []SessionsInv
<1>1. SessionsInit => SessionsInv
    BY InvInit
<1>2. SessionsInv /\ [SessionsNext]_sessionVars => SessionsInv'
    BY InvNext
<1> QED BY <1>1, <1>2, PTL DEF SessionsSpec

-----------------------------------------------------------------------------
(* What it is for.                                                         *)

\* Client::with_retry (src/client.rs) retries a closure only after a rollback that the
\* session has answered, and Session::execute (src/sql/execution/session.rs) takes the
\* transaction at COMMIT and at ROLLBACK, answered or not.  So a client that believes it
\* has no transaction, in whichever attempt, never sends a statement to a session that
\* still has one, whichever requests were aborted, lost, applied late or timed out on.
THEOREM NoStatementIsMisplaced == SessionsSpec => []NoHiddenTransaction
<1>1. SessionsInv => NoHiddenTransaction
    BY DEF SessionsInv, ClientInv, NoHiddenTransaction
<1> QED BY <1>1, InvHolds, PTL

\* Client::with_retry (src/client.rs) answers Ok only for a closure that was executed.  A
\* closure that is one transaction has then been committed exactly once, by whichever of
\* its attempts: an attempt whose COMMIT was aborted, so that Raft may still apply it,
\* ends in a ROLLBACK that finds no transaction, fails, and so ends the retries.  A
\* closure that begins with a write of its own has been committed at least once.
THEOREM ReturnsMeanOnce == SessionsSpec => []ReturnedMeansOnce
<1>1. SessionsInv => ReturnedMeansOnce
  <2> SUFFICES ASSUME SessionsInv, NEW c \in Client, client[c].pc = "returned"
               PROVE  /\ IsTransaction(script[c]) => Cardinality(CommittedBy(c)) = 1
                      /\ ~IsBegin(script[c][1]) /\ ~IsReadOnly(script[c][1])
                             => CommittedBy(c) # {}
    BY DEF ReturnedMeansOnce
  <2>1. OnceInv(c)
    BY DEF SessionsInv
  <2>2. ASSUME IsTransaction(script[c]) PROVE Cardinality(CommittedBy(c)) = 1
    <3>1. PICK t \in Txn : CommittedBy(c) = {t}
      BY <2>1, <2>2 DEF OnceInv, TransactionInv
    <3>2. Cardinality({t}) = 1
      BY FS_Singleton
    <3> QED BY <3>1, <3>2
  <2>3. ~IsBegin(script[c][1]) /\ ~IsReadOnly(script[c][1]) => CommittedBy(c) # {}
    BY <2>1 DEF OnceInv, StatementInv
  <2> QED BY <2>2, <2>3
<1> QED BY <1>1, InvHolds, PTL
=============================================================================
