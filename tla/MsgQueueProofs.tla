--------------------------- MODULE MsgQueueProofs ---------------------------
(***************************************************************************)
(* Theorems about the two services over a message queue, FileServer and    *)
(* CalServer, for every number of clients, servers, kills and removals of  *)
(* the queue.  Both rest on the lemmas about the queue that come first:    *)
(* what msgsnd and msgrcv do to its messages and to the number of those    *)
(* that belong to a set.                                                   *)
(*                                                                         *)
(* FileServer: the inductive invariant is IInv: the types, the two bounds  *)
(* of Conservation, what every message in the queue or in a server looks   *)
(* like (MessageInv), and, while no client was killed, that a pid has one  *)
(* message and waits for it (OwnInv).  From it every step is one of        *)
(* RpcService or a stutter.                                                *)
(*                                                                         *)
(* CalServer: EquationsOnce itself is inductive on the types (CalTypeOK),  *)
(* since every step moves one message between a client, the queue and a    *)
(* server.                                                                 *)
(***************************************************************************)
EXTENDS FileServer, CalServer, SequenceTheorems, FiniteSetTheorems, FunctionTheorems, TLAPS

(* Taking message i out leaves the others, in their order.                 *)
LEMMA RemoveAtProperties ==
    ASSUME NEW S, NEW q \in Seq(S), NEW i \in 1..Len(q)
    PROVE  /\ RemoveAt(q, i) \in Seq(S)
           /\ Len(RemoveAt(q, i)) = Len(q) - 1
           /\ \A j \in 1..(Len(q) - 1) :
                 RemoveAt(q, i)[j] = q[IF j < i THEN j ELSE j + 1]
PROOF
<1> DEFINE a == SubSeq(q, 1, i - 1)
           b == SubSeq(q, i + 1, Len(q))
<1>0. Len(q) \in Nat /\ i \in Nat /\ 1 <= i /\ i <= Len(q)
  BY LenProperties
<1>1. a \in Seq(S) /\ Len(a) = i - 1 /\ \A j \in 1..(i - 1) : a[j] = q[j]
  <2>1. a \in Seq(S)
    BY <1>0, SubSeqProperties
  <2>2. CASE i = 1
    BY <2>2, <2>1, <1>0, SubSeqProperties
  <2>3. CASE i > 1
    BY <2>3, <2>1, <1>0, SubSeqProperties
  <2> QED BY <1>0, <2>2, <2>3
<1>2. b \in Seq(S) /\ Len(b) = Len(q) - i
      /\ \A j \in 1..(Len(q) - i) : b[j] = q[i + j]
  <2>1. b \in Seq(S)
    BY <1>0, SubSeqProperties
  <2>2. CASE i = Len(q)
    BY <2>2, <2>1, <1>0, SubSeqProperties
  <2>3. CASE i < Len(q)
    BY <2>3, <2>1, <1>0, SubSeqProperties
  <2> QED BY <1>0, <2>2, <2>3
<1>3. RemoveAt(q, i) = a \o b
  BY DEF RemoveAt
<1> HIDE DEF a, b
<1>4. /\ a \o b \in Seq(S) /\ Len(a \o b) = Len(a) + Len(b)
      /\ \A j \in 1..(Len(a) + Len(b)) :
            (a \o b)[j] = IF j <= Len(a) THEN a[j] ELSE b[j - Len(a)]
  BY <1>1, <1>2, ConcatProperties
<1>5. ASSUME NEW j \in 1..(Len(q) - 1)
      PROVE  (a \o b)[j] = q[IF j < i THEN j ELSE j + 1]
  <2>1. CASE j < i
    BY <2>1, <1>0, <1>1, <1>2, <1>4
  <2>2. CASE ~(j < i)
    <3>1. (a \o b)[j] = b[j - (i - 1)]
      BY <2>2, <1>0, <1>1, <1>2, <1>4
    <3>2. j - (i - 1) \in 1..(Len(q) - i) /\ i + (j - (i - 1)) = j + 1
      BY <2>2, <1>0
    <3> QED BY <3>1, <3>2, <2>2, <1>2
  <2> QED BY <2>1, <2>2
<1> QED BY <1>0, <1>1, <1>2, <1>3, <1>4, <1>5

(* The positions of q that hold a message of T.                            *)
Positions(q, T) == {i \in 1..Len(q) : q[i] \in T}

LEMMA PositionsFinite ==
    ASSUME NEW S, NEW q \in Seq(S), NEW T
    PROVE  IsFiniteSet(Positions(q, T)) /\ Cardinality(Positions(q, T)) \in Nat
PROOF
<1>1. IsFiniteSet(1..Len(q)) /\ Positions(q, T) \subseteq 1..Len(q)
  BY LenProperties, FS_Interval DEF Positions
<1> QED BY <1>1, FS_Subset, FS_CardinalityType

(* A message that is sent counts once, in every set it belongs to.         *)
LEMMA CountAppend ==
    ASSUME NEW S, NEW q \in Seq(S), NEW m \in S, NEW T
    PROVE  Cardinality(Positions(Append(q, m), T)) =
              IF m \in T THEN Cardinality(Positions(q, T)) + 1 ELSE Cardinality(Positions(q, T))
PROOF
<1>1. /\ Len(q) \in Nat /\ Len(Append(q, m)) = Len(q) + 1
      /\ \A i \in 1..(Len(q) + 1) : Append(q, m)[i] = IF i <= Len(q) THEN q[i] ELSE m
  BY LenProperties, AppendProperties
<1>2. Len(q) + 1 \notin Positions(q, T)
  BY <1>1 DEF Positions
<1>3. CASE m \in T
  <2>1. Positions(Append(q, m), T) = Positions(q, T) \cup {Len(q) + 1}
    BY <1>1, <1>3 DEF Positions
  <2> QED BY <1>2, <1>3, <2>1, PositionsFinite, FS_AddElement
<1>4. CASE m \notin T
  <2>1. Positions(Append(q, m), T) = Positions(q, T)
    BY <1>1, <1>4 DEF Positions
  <2> QED BY <1>4, <2>1
<1> QED BY <1>3, <1>4

(* A message that is received stops counting, and no other one does.       *)
LEMMA CountRemove ==
    ASSUME NEW S, NEW q \in Seq(S), NEW i \in 1..Len(q), NEW T
    PROVE  Cardinality(Positions(RemoveAt(q, i), T)) =
              IF q[i] \in T THEN Cardinality(Positions(q, T)) - 1 ELSE Cardinality(Positions(q, T))
PROOF
<1> DEFINE r == RemoveAt(q, i)
           old(j) == IF j < i THEN j ELSE j + 1
           f == [j \in Positions(r, T) |-> old(j)]
<1>1. /\ r \in Seq(S) /\ Len(r) = Len(q) - 1 /\ Len(q) \in Nat
      /\ \A j \in 1..(Len(q) - 1) : r[j] = q[old(j)]
  BY LenProperties, RemoveAtProperties
<1> HIDE DEF r
<1>2. f \in Bijection(Positions(r, T), Positions(q, T) \ {i})
  <2>1. ASSUME NEW j \in Positions(r, T) PROVE f[j] \in Positions(q, T) \ {i}
    <3>1. j \in 1..(Len(q) - 1) /\ r[j] \in T
      BY <1>1 DEF Positions
    <3>2. old(j) \in 1..Len(q) /\ old(j) # i /\ q[old(j)] \in T
      BY <1>1, <3>1
    <3> QED BY <3>2 DEF Positions
  <2>2. ASSUME NEW j \in Positions(r, T), NEW k \in Positions(r, T), f[j] = f[k] PROVE j = k
    BY <1>1, <2>2 DEF Positions
  <2>3. ASSUME NEW k \in Positions(q, T) \ {i} PROVE \E j \in Positions(r, T) : f[j] = k
    <3>1. CASE k < i
      BY <1>1, <3>1 DEF Positions
    <3>2. CASE k > i
      <4>1. k - 1 \in Positions(r, T) /\ f[k - 1] = k
        BY <1>1, <3>2 DEF Positions
      <4> QED BY <4>1
    <3>3. k \in 1..Len(q) /\ k # i
      BY DEF Positions
    <3> QED BY <1>1, <3>1, <3>2, <3>3
  <2> QED BY <2>1, <2>2, <2>3, Fun_IsBij
<1>3. IsFiniteSet(Positions(r, T))
  BY <1>1, PositionsFinite
<1>4. Cardinality(Positions(q, T) \ {i}) = Cardinality(Positions(r, T))
  BY <1>2, <1>3, FS_Bijection DEF ExistsBijection
<1>5. i \in Positions(q, T) <=> q[i] \in T
  BY DEF Positions
<1> QED BY <1>4, <1>5, PositionsFinite, FS_RemoveElement DEF r

LEMMA CountEmpty == ASSUME NEW T PROVE Cardinality(Positions(<<>>, T)) = 0
PROOF
<1>1. Positions(<<>>, T) = {}
  BY DEF Positions
<1> QED BY <1>1, FS_EmptySet
-----------------------------------------------------------------------------
(* m is the reply to the request it was made from.                         *)
IsReply(m) ==
    /\ m.mtype = m.pid
    /\ m.valid = (IF Stat[m.fname] = NoFile THEN 0 ELSE 1)
    /\ m.valid = 1 => m.size = Stat[m.fname]

(* A process knows the current queue or an earlier one.                    *)
IdInv ==
    /\ \A p \in Pid : cid[p] <= qid
    /\ \A s \in Server : sid[s] <= qid

(* A message that is not a request is a true reply, wherever it is.        *)
MessageInv ==
    /\ \A i \in 1..Len(queue) : queue[i].mtype # MTYPE_C2S => IsReply(queue[i])
    /\ \A s \in Server : spc[s] = "snd" => IsReply(sbuf[s])
    /\ \A p \in Pid : pc[p] = "snd" => arg[p] \in Name /\ cbuf[p] = Request(p, arg[p])
    /\ \A p \in Pid : pc[p] = "done" => cbuf[p].pid = p /\ IsReply(cbuf[p])

(* m is about what the client with its pid waits for.                      *)
Awaited(m) == m.pid \in Waiting /\ m.fname = arg[m.pid]

(* Every message belongs to a client that waits for it, one per client.    *)
Solo ==
    /\ \A i \in 1..Len(queue) : Awaited(queue[i])
    /\ \A s \in Handling : Awaited(sbuf[s])
    /\ \A i, j \in 1..Len(queue) : i # j => queue[i].pid # queue[j].pid
    /\ \A i \in 1..Len(queue), s \in Handling : queue[i].pid # sbuf[s].pid
    /\ \A s, t \in Handling : s # t => sbuf[s].pid # sbuf[t].pid

OwnInv == clientKills = 0 => Solo /\ OwnAnswer

IInv == TypeOK /\ IdInv /\ Conservation /\ MessageInv /\ OwnInv
-----------------------------------------------------------------------------
LEMMA AnswerType == ASSUME NEW m \in Msg PROVE Answer(m) \in Msg /\ IsReply(Answer(m))
PROOF
<1>1. m.fname \in Name /\ m.pid \in Pid
  BY DEF Msg
<1> QED BY <1>1, FileServerAssumption DEF Msg, Answer, Found, IsReply

LEMMA RequestType ==
    ASSUME NEW p \in Pid, NEW n \in Name PROVE Request(p, n) \in Msg
PROOF BY DEF Request, Msg

(* The messages of the queue after a msgrcv and after a msgsnd.            *)
LEMMA AfterReceive ==
    ASSUME TypeOK, NEW i \in 1..Len(queue), queue' = RemoveAt(queue, i)
    PROVE  /\ queue' \in Seq(Msg)
           /\ Len(queue') = Len(queue) - 1
           /\ queue[i] \in Msg
           /\ \A j \in 1..Len(queue') : \E k \in 1..Len(queue) :
                 k = (IF j < i THEN j ELSE j + 1) /\ k # i /\ queue'[j] = queue[k]
PROOF
<1>1. queue \in Seq(Msg) /\ Len(queue) \in Nat
  BY DEF TypeOK
<1>2. /\ RemoveAt(queue, i) \in Seq(Msg)
      /\ Len(RemoveAt(queue, i)) = Len(queue) - 1
      /\ \A j \in 1..(Len(queue) - 1) :
            RemoveAt(queue, i)[j] = queue[IF j < i THEN j ELSE j + 1]
  BY <1>1, RemoveAtProperties
<1>3. \A j \in 1..(Len(queue) - 1) :
         /\ (IF j < i THEN j ELSE j + 1) \in 1..Len(queue)
         /\ (IF j < i THEN j ELSE j + 1) # i
  BY <1>1
<1>4. queue' \in Seq(Msg) /\ Len(queue') = Len(queue) - 1
  BY <1>2
<1>5. queue[i] \in Msg
  BY <1>1
<1>6. ASSUME NEW j \in 1..Len(queue')
      PROVE  \E k \in 1..Len(queue) :
                k = (IF j < i THEN j ELSE j + 1) /\ k # i /\ queue'[j] = queue[k]
  <2>1. j \in 1..(Len(queue) - 1)
    BY <1>4
  <2> QED BY <2>1, <1>2, <1>3
<1> QED BY <1>4, <1>5, <1>6

LEMMA AfterSend ==
    ASSUME TypeOK, NEW m \in Msg, queue' = Append(queue, m)
    PROVE  /\ queue' \in Seq(Msg)
           /\ Len(queue') = Len(queue) + 1
           /\ \A j \in 1..Len(queue') :
                 queue'[j] = IF j <= Len(queue) THEN queue[j] ELSE m
PROOF
<1>1. queue \in Seq(Msg)
  BY DEF TypeOK
<1> QED BY <1>1

(* Every action keeps the types.                                           *)
LEMMA TypeStep == TypeOK /\ [Next]_vars => TypeOK'
PROOF
<1> SUFFICES ASSUME TypeOK, [Next]_vars PROVE TypeOK'
  OBVIOUS
<1> USE QueueAssumption, FileServerAssumption
<1>1. ASSUME NEW p \in Pid, ClientSend(p) PROVE TypeOK'
  <2>1. cbuf[p] \in Msg
    BY <1>1 DEF TypeOK, ClientSend, ClientLive
  <2>2. queue' \in Seq(Msg) /\ Len(queue') <= Capacity /\ qid' \in 0..MaxRmid
    BY <1>1, <2>1 DEF TypeOK, ClientSend, MsgSnd
  <2> QED BY <1>1, <2>2
       DEF TypeOK, ClientSend, serverVars, kills, ClientLive, ServerLive
<1>2. ASSUME NEW p \in Pid, ClientReceive(p) PROVE TypeOK'
  <2>1. PICK i \in 1..Len(queue) :
           MsgRcv(cid[p], ReplyType(p), i) /\ cbuf' = [cbuf EXCEPT ![p] = queue[i]]
    BY <1>2 DEF ClientReceive
  <2>2. queue' \in Seq(Msg) /\ Len(queue') <= Capacity /\ qid' \in 0..MaxRmid
    BY <2>1, RemoveAtProperties DEF TypeOK, MsgRcv
  <2>3. queue[i] \in Msg
    BY ElementOfSeq DEF TypeOK
  <2> QED BY <1>2, <2>1, <2>2, <2>3
       DEF TypeOK, ClientReceive, serverVars, kills, ClientLive, ServerLive
<1>3. ASSUME NEW p \in Pid, ClientError(p) PROVE TypeOK'
  BY <1>3 DEF TypeOK, ClientError, ClientGone, queueVars, serverVars, kills, ClientLive, ServerLive
<1>4. ASSUME NEW p \in Pid, ClientKill(p) PROVE TypeOK'
  BY <1>4 DEF TypeOK, ClientKill, ClientGone, queueVars, serverVars, ClientLive, ServerLive
<1>5. ASSUME NEW p \in Pid, NEW n \in Name, ClientExec(p, n) PROVE TypeOK'
  BY <1>5, RequestType
     DEF TypeOK, ClientExec, queueVars, serverVars, kills, ClientLive, ServerLive
<1>6. ASSUME NEW s \in Server, ServerReceive(s) PROVE TypeOK'
  <2>1. PICK i \in 1..Len(queue) :
           MsgRcv(sid[s], MTYPE_C2S, i) /\ sbuf' = [sbuf EXCEPT ![s] = queue[i]]
    BY <1>6 DEF ServerReceive
  <2>2. queue' \in Seq(Msg) /\ Len(queue') <= Capacity /\ qid' \in 0..MaxRmid
    BY <2>1, RemoveAtProperties DEF TypeOK, MsgRcv
  <2>3. queue[i] \in Msg
    BY ElementOfSeq DEF TypeOK
  <2> QED BY <1>6, <2>1, <2>2, <2>3
       DEF TypeOK, ServerReceive, clientVars, kills, ClientLive, ServerLive
<1>7. ASSUME NEW s \in Server, ServerStat(s) PROVE TypeOK'
  <2>1. Answer(sbuf[s]) \in Msg
    BY <1>7, AnswerType DEF TypeOK, ServerStat
  <2> QED BY <1>7, <2>1
       DEF TypeOK, ServerStat, queueVars, clientVars, kills, ClientLive, ServerLive
<1>8. ASSUME NEW s \in Server, ServerReply(s) PROVE TypeOK'
  <2>1. sbuf[s] \in Msg
    BY <1>8 DEF TypeOK, ServerReply
  <2>2. queue' \in Seq(Msg) /\ Len(queue') <= Capacity /\ qid' \in 0..MaxRmid
    BY <1>8, <2>1 DEF TypeOK, ServerReply, MsgSnd
  <2> QED BY <1>8, <2>2
       DEF TypeOK, ServerReply, clientVars, kills, ClientLive, ServerLive
<1>9. ASSUME NEW s \in Server, ServerError(s) PROVE TypeOK'
  BY <1>9 DEF TypeOK, ServerError, ServerGone, queueVars, clientVars, kills, ClientLive, ServerLive
<1>10. ASSUME NEW s \in Server, ServerKill(s) PROVE TypeOK'
  BY <1>10 DEF TypeOK, ServerKill, ServerGone, queueVars, clientVars, ClientLive, ServerLive
<1>11. ASSUME NEW s \in Server, ServerExec(s) PROVE TypeOK'
  BY <1>11 DEF TypeOK, ServerExec, queueVars, clientVars, kills, ClientLive, ServerLive
<1>12. CASE RemoveQueue
  BY <1>12
     DEF TypeOK, RemoveQueue, IpcRmid, clientVars, serverVars, kills, ClientLive, ServerLive
<1>13. CASE UNCHANGED vars
  BY <1>13 DEF TypeOK, vars, queueVars, clientVars, serverVars, kills
<1> QED BY <1>1, <1>2, <1>3, <1>4, <1>5, <1>6, <1>7, <1>8, <1>9, <1>10, <1>11, <1>12, <1>13
     DEF Next, ClientStep, ServerStep

LEMMA TypeInit == Init => TypeOK
PROOF BY QueueAssumption, FileServerAssumption
   DEF Init, QueueInit, TypeOK, ClientLive, ServerLive

(* The variables of the queue, the clients and the servers keep their      *)
(* types, and the queue never holds more than Capacity messages.           *)
THEOREM TypeCorrect == Spec => []TypeOK
PROOF BY TypeInit, TypeStep, PTL DEF Spec
-----------------------------------------------------------------------------
(* Identifiers: no process ever holds one that the key will only get later. *)
LEMMA IdStep == TypeOK /\ IdInv /\ [Next]_vars => IdInv'
PROOF
<1> SUFFICES ASSUME TypeOK, IdInv, [Next]_vars PROVE IdInv'
  OBVIOUS
<1>1. qid' = qid \/ (qid' = qid + 1 /\ cid' = cid /\ sid' = sid)
  BY DEF Next, vars, queueVars, clientVars, serverVars, ClientStep, ServerStep, RemoveQueue,
         IpcRmid, MsgSnd, MsgRcv, ClientSend, ClientReceive, ClientError, ClientKill, ClientExec,
         ServerReceive, ServerStat, ServerReply, ServerError, ServerKill, ServerExec
<1>2. /\ cid' = cid \/ \E p \in Pid : cid' = [cid EXCEPT ![p] = 0] \/ cid' = [cid EXCEPT ![p] = qid]
      /\ sid' = sid \/ \E s \in Server : sid' = [sid EXCEPT ![s] = 0] \/ sid' = [sid EXCEPT ![s] = qid]
  BY DEF Next, vars, clientVars, serverVars, ClientStep, ServerStep, RemoveQueue, ClientGone,
         ServerGone, ClientSend, ClientReceive, ClientError, ClientKill, ClientExec,
         ServerReceive, ServerStat, ServerReply, ServerError, ServerKill, ServerExec
<1>3. qid \in Nat /\ \A p \in Pid : cid[p] \in Nat
  BY QueueAssumption DEF TypeOK
<1>4. \A s \in Server : sid[s] \in Nat
  BY QueueAssumption DEF TypeOK
<1>5. \A p \in Pid : cid'[p] = cid[p] \/ cid'[p] = 0 \/ cid'[p] = qid
  BY <1>2 DEF TypeOK
<1>6. \A s \in Server : sid'[s] = sid[s] \/ sid'[s] = 0 \/ sid'[s] = qid
  BY <1>2 DEF TypeOK
<1> QED BY <1>1, <1>3, <1>4, <1>5, <1>6 DEF IdInv

(* Messages: what a step puts into the queue or takes from it is a request *)
(* as the client filled it or the reply the server made of one.            *)
LEMMA MessageStep == TypeOK /\ MessageInv /\ [Next]_vars => MessageInv'
PROOF
<1> SUFFICES ASSUME TypeOK, MessageInv, [Next]_vars PROVE MessageInv'
  OBVIOUS
<1> USE FileServerAssumption
<1>1. ASSUME NEW p \in Pid, ClientSend(p) PROVE MessageInv'
  <2> cbuf[p] = Request(p, arg[p])
    BY <1>1 DEF MessageInv, ClientSend
  <2>1. queue' = Append(queue, cbuf[p]) /\ cbuf[p].mtype = MTYPE_C2S
    BY <1>1 DEF ClientSend, MsgSnd, Request
  <2>2. cbuf[p] \in Msg
    BY <1>1 DEF TypeOK, ClientSend, ClientLive
  <2>3. \A i \in 1..Len(queue') : queue'[i].mtype # MTYPE_C2S => IsReply(queue'[i])
    BY <2>1, <2>2, AfterSend DEF MessageInv
  <2> QED BY <1>1, <2>3 DEF MessageInv, TypeOK, ClientSend, serverVars
<1>2. ASSUME NEW p \in Pid, ClientReceive(p) PROVE MessageInv'
  <2>1. PICK i \in 1..Len(queue) :
           MsgRcv(cid[p], ReplyType(p), i) /\ cbuf' = [cbuf EXCEPT ![p] = queue[i]]
    BY <1>2 DEF ClientReceive
  <2>2. ASSUME NEW j \in 1..Len(queue'), queue'[j].mtype # MTYPE_C2S
        PROVE  IsReply(queue'[j])
    <3>1. PICK k \in 1..Len(queue) : queue'[j] = queue[k]
      BY <2>1, AfterReceive DEF MsgRcv
    <3> QED BY <2>2, <3>1 DEF MessageInv
  <2>3. IsReply(queue[i]) /\ queue[i].pid = p
    BY <2>1 DEF MessageInv, MsgRcv, IsFirst, ReplyType, IsReply
  <2> QED BY <1>2, <2>1, <2>2, <2>3 DEF MessageInv, TypeOK, ClientReceive, serverVars
<1>3. ASSUME NEW p \in Pid, ClientError(p) \/ ClientKill(p) PROVE MessageInv'
  <2>1. ClientGone(p) /\ UNCHANGED <<queueVars, serverVars>>
    BY <1>3 DEF ClientError, ClientKill
  <2> QED BY <2>1 DEF MessageInv, TypeOK, ClientGone, queueVars, serverVars
<1>4. ASSUME NEW p \in Pid, NEW n \in Name, ClientExec(p, n) PROVE MessageInv'
  BY <1>4 DEF MessageInv, TypeOK, ClientExec, queueVars, serverVars
<1>5. ASSUME NEW s \in Server, ServerReceive(s) PROVE MessageInv'
  <2>1. PICK i \in 1..Len(queue) :
           MsgRcv(sid[s], MTYPE_C2S, i) /\ sbuf' = [sbuf EXCEPT ![s] = queue[i]]
    BY <1>5 DEF ServerReceive
  <2>2. ASSUME NEW j \in 1..Len(queue'), queue'[j].mtype # MTYPE_C2S
        PROVE  IsReply(queue'[j])
    <3>1. PICK k \in 1..Len(queue) : queue'[j] = queue[k]
      BY <2>1, AfterReceive DEF MsgRcv
    <3> QED BY <2>2, <3>1 DEF MessageInv
  <2> QED BY <1>5, <2>1, <2>2 DEF MessageInv, TypeOK, ServerReceive, clientVars
<1>6. ASSUME NEW s \in Server, ServerStat(s) PROVE MessageInv'
  <2>1. IsReply(Answer(sbuf[s]))
    BY <1>6, AnswerType DEF TypeOK, ServerStat
  <2> QED BY <1>6, <2>1 DEF MessageInv, TypeOK, ServerStat, queueVars, clientVars
<1>7. ASSUME NEW s \in Server, ServerReply(s) PROVE MessageInv'
  <2>1. queue' = Append(queue, sbuf[s]) /\ IsReply(sbuf[s])
    BY <1>7 DEF MessageInv, ServerReply, MsgSnd
  <2>2. sbuf[s] \in Msg
    BY <1>7 DEF TypeOK, ServerReply
  <2>3. \A i \in 1..Len(queue') : queue'[i].mtype # MTYPE_C2S => IsReply(queue'[i])
    BY <2>1, <2>2, AfterSend DEF MessageInv
  <2> QED BY <1>7, <2>3 DEF MessageInv, TypeOK, ServerReply, clientVars
<1>8. ASSUME NEW s \in Server, ServerError(s) \/ ServerKill(s) PROVE MessageInv'
  BY <1>8 DEF MessageInv, TypeOK, ServerError, ServerKill, ServerGone, queueVars, clientVars
<1>9. ASSUME NEW s \in Server, ServerExec(s) PROVE MessageInv'
  BY <1>9 DEF MessageInv, TypeOK, ServerExec, queueVars, clientVars
<1>10. CASE RemoveQueue
  BY <1>10 DEF MessageInv, RemoveQueue, IpcRmid, clientVars, serverVars
<1>11. CASE UNCHANGED vars
  BY <1>11 DEF MessageInv, vars, queueVars, clientVars, serverVars
<1> QED BY <1>1, <1>2, <1>3, <1>4, <1>5, <1>6, <1>7, <1>8, <1>9, <1>10, <1>11
     DEF Next, ClientStep, ServerStep

(* What a client prints was written by a server from what stat() found for *)
(* the file it names, and was sent to this pid (file_client.c:59-64).      *)
THEOREM AnswersAreTrue == Spec => []TrueAnswer
PROOF
<1>1. Init => MessageInv
  BY DEF Init, QueueInit, MessageInv
<1>2. MessageInv => TrueAnswer
  BY DEF MessageInv, TrueAnswer, IsReply
<1> QED BY <1>1, <1>2, TypeCorrect, MessageStep, PTL DEF Spec
-----------------------------------------------------------------------------
LEMMA CountsFinite ==
    /\ IsFiniteSet(Waiting) /\ Cardinality(Waiting) \in Nat
    /\ IsFiniteSet(Handling) /\ Cardinality(Handling) \in Nat
    /\ Cardinality(Waiting) <= Cardinality(Pid)
    /\ Cardinality(Pid) \in Nat
PROOF
<1>1. Waiting \subseteq Pid /\ Handling \subseteq Server
  BY DEF Waiting, Handling
<1> QED BY <1>1, FileServerAssumption, FS_Subset, FS_CardinalityType

(* Conservation only depends on the two sets, the queue and the kills.     *)
LEMMA ConservationFrame ==
    ASSUME Conservation, Waiting' = Waiting, Handling' = Handling,
           Len(queue') = Len(queue),
           clientKills' = clientKills, serverKills' = serverKills
    PROVE  Conservation'
PROOF BY DEF Conservation, InFlight

LEMMA ConservationStep ==
    TypeOK /\ IdInv /\ Conservation /\ [Next]_vars => Conservation'
PROOF
<1> SUFFICES ASSUME TypeOK, IdInv, Conservation, [Next]_vars PROVE Conservation'
  OBVIOUS
<1> DEFINE W == Cardinality(Waiting)  H == Cardinality(Handling)
<1>0. /\ IsFiniteSet(Waiting) /\ W \in Nat /\ IsFiniteSet(Handling) /\ H \in Nat
      /\ Len(queue) \in Nat /\ clientKills \in Nat /\ serverKills \in Nat
      /\ qid \in Nat
  BY CountsFinite, QueueAssumption, FileServerAssumption DEF TypeOK
<1>1. ASSUME NEW p \in Pid, ClientSend(p) PROVE Conservation'
  <2>1. p \notin Waiting /\ Waiting' = Waiting \cup {p} /\ Handling' = Handling
    BY <1>1 DEF ClientSend, MsgSnd, Waiting, Handling, serverVars, TypeOK
  <2>2. Len(queue') = Len(queue) + 1
    BY <1>1 DEF ClientSend, MsgSnd, TypeOK
  <2>3. clientKills' = clientKills /\ serverKills' = serverKills
    BY <1>1 DEF ClientSend, kills
  <2>4. Cardinality(Waiting') = W + 1
    BY <1>0, <2>1, FS_AddElement
  <2> QED BY <1>0, <2>1, <2>2, <2>3, <2>4 DEF Conservation, InFlight
<1>2. ASSUME NEW p \in Pid, ClientReceive(p) PROVE Conservation'
  <2>1. PICK i \in 1..Len(queue) : MsgRcv(cid[p], ReplyType(p), i)
    BY <1>2 DEF ClientReceive
  <2>2. p \in Waiting /\ Waiting' = Waiting \ {p} /\ Handling' = Handling
    BY <1>2, <2>1 DEF ClientReceive, MsgRcv, Waiting, Handling, serverVars, TypeOK
  <2>3. Len(queue') = Len(queue) - 1
    BY <2>1, AfterReceive DEF MsgRcv
  <2>4. clientKills' = clientKills /\ serverKills' = serverKills
    BY <1>2 DEF ClientReceive, kills
  <2>5. Cardinality(Waiting') = W - 1
    BY <1>0, <2>2, FS_RemoveElement
  <2> QED BY <1>0, <2>2, <2>3, <2>4, <2>5 DEF Conservation, InFlight
<1>3. ASSUME NEW p \in Pid, ClientError(p) PROVE Conservation'
  <2>1. Waiting' = Waiting /\ Handling' = Handling
    BY <1>3 DEF ClientError, ClientGone, Removed, Waiting, Handling, queueVars, serverVars, TypeOK
  <2> QED BY <1>3, <2>1, ConservationFrame DEF ClientError, queueVars, kills
<1>4. ASSUME NEW p \in Pid, ClientKill(p) PROVE Conservation'
  <2>1. Waiting' = Waiting \ {p} /\ Handling' = Handling
    BY <1>4 DEF ClientKill, ClientGone, Waiting, Handling, queueVars, serverVars, TypeOK
  <2>2. Cardinality(Waiting') \in {W - 1, W}
    BY <1>0, <2>1, FS_RemoveElement
  <2>3. queue' = queue /\ clientKills' = clientKills + 1 /\ serverKills' = serverKills
    BY <1>4 DEF ClientKill, queueVars
  <2> QED BY <1>0, <2>1, <2>2, <2>3 DEF Conservation, InFlight
<1>5. ASSUME NEW p \in Pid, NEW n \in Name, ClientExec(p, n) PROVE Conservation'
  <2>1. Waiting' = Waiting /\ Handling' = Handling
    BY <1>5 DEF ClientExec, ClientLive, Waiting, Handling, queueVars, serverVars, TypeOK
  <2> QED BY <1>5, <2>1, ConservationFrame DEF ClientExec, queueVars, kills
<1>6. ASSUME NEW s \in Server, ServerReceive(s) PROVE Conservation'
  <2>1. PICK i \in 1..Len(queue) : MsgRcv(sid[s], MTYPE_C2S, i)
    BY <1>6 DEF ServerReceive
  <2>2. s \notin Handling /\ Handling' = Handling \cup {s} /\ Waiting' = Waiting
    BY <1>6, <2>1 DEF ServerReceive, MsgRcv, Waiting, Handling, clientVars, TypeOK
  <2>3. Len(queue') = Len(queue) - 1
    BY <2>1, AfterReceive DEF MsgRcv
  <2>4. clientKills' = clientKills /\ serverKills' = serverKills
    BY <1>6 DEF ServerReceive, kills
  <2>5. Cardinality(Handling') = H + 1
    BY <1>0, <2>2, FS_AddElement
  <2>6. InFlight' = InFlight
    BY <1>0, <2>3, <2>5 DEF InFlight
  <2> QED BY <2>2, <2>4, <2>6 DEF Conservation
<1>7. ASSUME NEW s \in Server, ServerStat(s) PROVE Conservation'
  <2>1. Waiting' = Waiting /\ Handling' = Handling
    BY <1>7 DEF ServerStat, Waiting, Handling, queueVars, clientVars, TypeOK
  <2> QED BY <1>7, <2>1, ConservationFrame DEF ServerStat, queueVars, kills
<1>8. ASSUME NEW s \in Server, ServerReply(s) PROVE Conservation'
  <2>1. s \in Handling /\ Handling' = Handling \ {s} /\ Waiting' = Waiting
    BY <1>8 DEF ServerReply, MsgSnd, Waiting, Handling, clientVars, TypeOK
  <2>2. Len(queue') = Len(queue) + 1
    BY <1>8 DEF ServerReply, MsgSnd, TypeOK
  <2>3. clientKills' = clientKills /\ serverKills' = serverKills
    BY <1>8 DEF ServerReply, kills
  <2>4. Cardinality(Handling') = H - 1
    BY <1>0, <2>1, FS_RemoveElement
  <2> QED BY <1>0, <2>1, <2>2, <2>3, <2>4 DEF Conservation, InFlight
<1>9. ASSUME NEW s \in Server, ServerError(s) PROVE Conservation'
  <2>1. Waiting' = Waiting /\ Handling' = Handling
    BY <1>9 DEF ServerError, ServerGone, Removed, Waiting, Handling, queueVars, clientVars, TypeOK
  <2> QED BY <1>9, <2>1, ConservationFrame DEF ServerError, queueVars, kills
<1>10. ASSUME NEW s \in Server, ServerKill(s) PROVE Conservation'
  <2>1. Handling' = Handling \ {s} /\ Waiting' = Waiting
    BY <1>10 DEF ServerKill, ServerGone, Waiting, Handling, queueVars, clientVars, TypeOK
  <2>2. Cardinality(Handling') \in {H - 1, H}
    BY <1>0, <2>1, FS_RemoveElement
  <2>3. queue' = queue /\ clientKills' = clientKills /\ serverKills' = serverKills + 1
    BY <1>10 DEF ServerKill, queueVars
  <2> QED BY <1>0, <2>1, <2>2, <2>3 DEF Conservation, InFlight
<1>11. ASSUME NEW s \in Server, ServerExec(s) PROVE Conservation'
  <2>1. Waiting' = Waiting /\ Handling' = Handling
    BY <1>11 DEF ServerExec, ServerLive, Waiting, Handling, queueVars, clientVars, TypeOK
  <2> QED BY <1>11, <2>1, ConservationFrame DEF ServerExec, queueVars, kills
<1>12. CASE RemoveQueue
  <2>1. Waiting' = {} /\ Handling' = {}
    <3>1. qid' = qid + 1 /\ cid' = cid /\ sid' = sid
      BY <1>12 DEF RemoveQueue, IpcRmid, clientVars, serverVars
    <3>2. \A p \in Pid : cid[p] \in Nat /\ cid[p] # qid'
      BY <3>1, <1>0 DEF IdInv, TypeOK
    <3>3. \A s \in Server : sid[s] \in Nat /\ sid[s] # qid'
      BY <3>1, <1>0 DEF IdInv, TypeOK
    <3> QED BY <3>1, <3>2, <3>3 DEF Waiting, Handling
  <2>2. Len(queue') = 0 /\ clientKills' = clientKills /\ serverKills' = serverKills
    BY <1>12 DEF RemoveQueue, IpcRmid, kills
  <2> QED BY <1>0, <2>1, <2>2, FS_EmptySet DEF Conservation, InFlight
<1>13. CASE UNCHANGED vars
  <2>1. Waiting' = Waiting /\ Handling' = Handling
    BY <1>13 DEF vars, queueVars, clientVars, serverVars, Waiting, Handling
  <2> QED BY <1>13, <2>1, ConservationFrame DEF vars, queueVars, kills
<1> QED BY <1>1, <1>2, <1>3, <1>4, <1>5, <1>6, <1>7, <1>8, <1>9, <1>10, <1>11, <1>12, <1>13
     DEF Next, ClientStep, ServerStep

LEMMA CountingInit == Init => IdInv /\ Conservation
PROOF
<1> SUFFICES ASSUME Init PROVE IdInv /\ Conservation
  OBVIOUS
<1>1. Waiting = {} /\ Handling = {} /\ Len(queue) = 0
  BY DEF Init, QueueInit, Waiting, Handling
<1> QED BY <1>1, FS_EmptySet DEF Init, QueueInit, IdInv, Conservation, InFlight

(* No request or reply is lost or made twice but by a kill: the messages   *)
(* of the current queue, in it or in a server, are as many as the clients  *)
(* that wait for one, up to the clients and the servers killed.            *)
THEOREM MessagesConserved == Spec => []Conservation
PROOF BY CountingInit, TypeCorrect, IdStep, ConservationStep, PTL DEF Spec

(* A queue with room for one message per client and per killed client is   *)
(* never full when a server or a client sends: neither blocks in msgsnd.   *)
THEOREM SendNeverBlocks == Spec => []NoSendBlocks
PROOF
<1>1. TypeOK /\ Conservation => NoSendBlocks
  <2> SUFFICES ASSUME TypeOK, Conservation, Capacity >= Cardinality(Pid) + MaxClientKill
               PROVE  /\ \A s \in Server : spc[s] = "snd" /\ sid[s] = qid => Len(queue) < Capacity
                      /\ \A p \in Pid : pc[p] = "snd" /\ cid[p] = qid => Len(queue) < Capacity
    BY DEF NoSendBlocks
  <2>0. /\ Len(queue) \in Nat /\ clientKills <= MaxClientKill /\ clientKills \in Nat
        /\ Capacity \in Nat /\ MaxClientKill \in Nat
    BY QueueAssumption, FileServerAssumption DEF TypeOK
  <2>1. ASSUME NEW s \in Server, spc[s] = "snd", sid[s] = qid PROVE Len(queue) < Capacity
    <3>1. s \in Handling
      BY <2>1 DEF Handling
    <3>2. Cardinality(Handling) >= 1
      BY <3>1, CountsFinite, FS_EmptySet
    <3> QED BY <2>0, <3>2, CountsFinite DEF Conservation, InFlight
  <2>2. ASSUME NEW p \in Pid, pc[p] = "snd", cid[p] = qid PROVE Len(queue) < Capacity
    <3>1. Waiting \subseteq Pid \ {p}
      BY <2>2 DEF Waiting
    <3>2. Cardinality(Waiting) <= Cardinality(Pid) - 1
      <4>1. IsFiniteSet(Pid \ {p}) /\ Cardinality(Pid \ {p}) = Cardinality(Pid) - 1
        BY FileServerAssumption, FS_RemoveElement
      <4> QED BY <3>1, <4>1, FS_Subset
    <3> QED BY <2>0, <3>2, CountsFinite DEF Conservation, InFlight
  <2> QED BY <2>1, <2>2
<1> QED BY <1>1, TypeCorrect, MessagesConserved, PTL
-----------------------------------------------------------------------------
(* One message per waiting client, while no client was killed.  A step     *)
(* that leaves the queue alone keeps that if those who wait still do.      *)
LEMMA SoloFrame ==
    ASSUME Solo, queue' = queue, Waiting \subseteq Waiting', Handling' \subseteq Handling,
           \A s \in Handling' : sbuf'[s].pid = sbuf[s].pid /\ sbuf'[s].fname = sbuf[s].fname,
           \A p \in Waiting : arg'[p] = arg[p]
    PROVE  Solo'
PROOF
<1>1. (\A i \in 1..Len(queue) : Awaited(queue[i]))'
  BY DEF Solo, Awaited
<1>2. (\A s \in Handling : Awaited(sbuf[s]))'
  BY DEF Solo, Awaited
<1>3. \A i, j \in 1..Len(queue') : i # j => queue'[i].pid # queue'[j].pid
  BY DEF Solo
<1>4. \A i \in 1..Len(queue'), s \in Handling' : queue'[i].pid # sbuf'[s].pid
  BY DEF Solo
<1>5. \A s, t \in Handling' : s # t => sbuf'[s].pid # sbuf'[t].pid
  BY DEF Solo
<1> QED BY <1>1, <1>2, <1>3, <1>4, <1>5 DEF Solo

LEMMA SoloStep ==
    TypeOK /\ IdInv /\ MessageInv /\ OwnInv /\ [Next]_vars => OwnInv'
PROOF
<1> SUFFICES ASSUME TypeOK, IdInv, MessageInv, OwnInv, [Next]_vars, clientKills' = 0
             PROVE  Solo' /\ OwnAnswer'
  BY DEF OwnInv
<1> USE FileServerAssumption
<1>0. clientKills = 0 /\ clientKills' = clientKills
  <2>1. clientKills' = clientKills \/ clientKills' = clientKills + 1
    BY DEF Next, vars, kills, ClientStep, ServerStep, RemoveQueue,
         ClientSend, ClientReceive, ClientError, ClientKill, ClientExec,
         ServerReceive, ServerStat, ServerReply, ServerError, ServerKill, ServerExec
  <2> QED BY <2>1 DEF TypeOK
<1>a. Solo /\ \A p \in Pid : pc[p] = "done" => cbuf[p].fname = arg[p]
  BY <1>0 DEF OwnInv, OwnAnswer
<1>1. ASSUME NEW p \in Pid, ClientSend(p) PROVE Solo' /\ OwnAnswer'
  <2> cbuf[p] = Request(p, arg[p])
    BY <1>1 DEF MessageInv, ClientSend
  <2>1. cbuf[p].pid = p /\ cbuf[p].fname = arg[p] /\ cbuf[p] \in Msg
    BY <1>1 DEF Request, TypeOK, ClientSend, ClientLive
  <2>2. /\ p \notin Waiting /\ Waiting' = Waiting \cup {p} /\ Handling' = Handling
        /\ arg' = arg /\ sbuf' = sbuf
    BY <1>1 DEF ClientSend, MsgSnd, Waiting, Handling, serverVars, TypeOK
  <2>3. /\ Len(queue') = Len(queue) + 1 /\ Len(queue) \in Nat
        /\ \A j \in 1..Len(queue') : queue'[j] = IF j <= Len(queue) THEN queue[j] ELSE cbuf[p]
    BY <1>1, <2>1, AfterSend DEF ClientSend, MsgSnd, TypeOK
  <2>4. \A i \in 1..Len(queue) : queue[i].pid # p
    BY <1>a, <2>2 DEF Solo, Awaited
  <2>5. \A s \in Handling : sbuf[s].pid # p
    BY <1>a, <2>2 DEF Solo, Awaited
  <2>6. Solo'
    <3>1. (\A i \in 1..Len(queue) : Awaited(queue[i]))'
      BY <1>a, <2>1, <2>2, <2>3 DEF Solo, Awaited
    <3>2. (\A s \in Handling : Awaited(sbuf[s]))'
      BY <1>a, <2>2 DEF Solo, Awaited
    <3>3. \A i, j \in 1..Len(queue') : i # j => queue'[i].pid # queue'[j].pid
      BY <1>a, <2>1, <2>3, <2>4 DEF Solo
    <3>4. \A i \in 1..Len(queue'), s \in Handling' : queue'[i].pid # sbuf'[s].pid
      BY <1>a, <2>1, <2>2, <2>3, <2>5 DEF Solo
    <3>5. \A s, t \in Handling' : s # t => sbuf'[s].pid # sbuf'[t].pid
      BY <1>a, <2>2 DEF Solo
    <3> QED BY <3>1, <3>2, <3>3, <3>4, <3>5 DEF Solo
  <2>7. OwnAnswer'
    BY <1>1, <1>a DEF ClientSend, OwnAnswer, TypeOK
  <2> QED BY <2>6, <2>7
<1>2. ASSUME NEW p \in Pid, ClientReceive(p) PROVE Solo' /\ OwnAnswer'
  <2>1. PICK i \in 1..Len(queue) :
           MsgRcv(cid[p], ReplyType(p), i) /\ cbuf' = [cbuf EXCEPT ![p] = queue[i]]
    BY <1>2 DEF ClientReceive
  <2>2. /\ Waiting' = Waiting \ {p} /\ Handling' = Handling
        /\ arg' = arg /\ sbuf' = sbuf
    BY <1>2, <2>1 DEF ClientReceive, MsgRcv, Waiting, Handling, serverVars, TypeOK
  <2>3. queue[i].pid = p
    BY <2>1 DEF MessageInv, MsgRcv, IsFirst, ReplyType, IsReply
  <2>4. ASSUME NEW j \in 1..Len(queue')
        PROVE  \E k \in 1..Len(queue) :
                  k = (IF j < i THEN j ELSE j + 1) /\ k # i /\ queue'[j] = queue[k]
    BY <2>1, AfterReceive DEF MsgRcv
  <2>5. Len(queue) \in Nat /\ Len(queue') = Len(queue) - 1
    BY <2>1, AfterReceive DEF MsgRcv, TypeOK
  <2>6. Solo'
    <3>1. (\A j \in 1..Len(queue) : Awaited(queue[j]))'
      BY <1>a, <2>2, <2>3, <2>4 DEF Solo, Awaited
    <3>2. (\A s \in Handling : Awaited(sbuf[s]))'
      BY <1>a, <2>2, <2>3 DEF Solo, Awaited
    <3>3. ASSUME NEW j \in 1..Len(queue'), NEW l \in 1..Len(queue'), j # l
          PROVE  queue'[j].pid # queue'[l].pid
      <4>1. PICK k \in 1..Len(queue) :
               k = (IF j < i THEN j ELSE j + 1) /\ queue'[j] = queue[k]
        BY <2>4
      <4>2. PICK m \in 1..Len(queue) :
               m = (IF l < i THEN l ELSE l + 1) /\ queue'[l] = queue[m]
        BY <2>4
      <4>3. k # m
        BY <4>1, <4>2, <2>5, <3>3
      <4> QED BY <1>a, <4>1, <4>2, <4>3 DEF Solo
    <3>4. \A j \in 1..Len(queue'), s \in Handling' : queue'[j].pid # sbuf'[s].pid
      BY <1>a, <2>2, <2>4 DEF Solo
    <3>5. \A s, t \in Handling' : s # t => sbuf'[s].pid # sbuf'[t].pid
      BY <1>a, <2>2 DEF Solo
    <3> QED BY <3>1, <3>2, <3>3, <3>4, <3>5 DEF Solo
  <2>7. OwnAnswer'
    <3>1. queue[i].fname = arg[p]
      BY <1>a, <2>3 DEF Solo, Awaited
    <3> QED BY <1>2, <1>a, <2>1, <2>2, <3>1 DEF ClientReceive, OwnAnswer, TypeOK
  <2> QED BY <2>6, <2>7
<1>3. ASSUME NEW p \in Pid, ClientError(p) PROVE Solo' /\ OwnAnswer'
  <2>1. /\ p \notin Waiting /\ Waiting' = Waiting /\ Handling' = Handling
        /\ queue' = queue /\ sbuf' = sbuf
    BY <1>3 DEF ClientError, ClientGone, Removed, Waiting, Handling, queueVars, serverVars, TypeOK
  <2>2. \A q \in Waiting : arg'[q] = arg[q]
    BY <1>3, <2>1 DEF ClientError, ClientGone, TypeOK, Waiting
  <2>3. Solo'
    BY <1>a, <2>1, <2>2, SoloFrame
  <2>4. OwnAnswer'
    BY <1>a, <1>3 DEF ClientError, ClientGone, OwnAnswer, TypeOK
  <2> QED BY <2>3, <2>4
<1>4. ASSUME NEW p \in Pid, ClientKill(p) PROVE FALSE
  BY <1>0, <1>4 DEF ClientKill
<1>5. ASSUME NEW p \in Pid, NEW n \in Name, ClientExec(p, n) PROVE Solo' /\ OwnAnswer'
  <2>1. /\ p \notin Waiting /\ Waiting' = Waiting /\ Handling' = Handling
        /\ queue' = queue /\ sbuf' = sbuf
    BY <1>5 DEF ClientExec, ClientLive, Waiting, Handling, queueVars, serverVars, TypeOK
  <2>2. \A q \in Waiting : arg'[q] = arg[q]
    BY <1>5, <2>1 DEF ClientExec, TypeOK, Waiting
  <2>3. Solo'
    BY <1>a, <2>1, <2>2, SoloFrame
  <2>4. OwnAnswer'
    BY <1>a, <1>5 DEF ClientExec, OwnAnswer, TypeOK
  <2> QED BY <2>3, <2>4
<1>6. ASSUME NEW s \in Server, ServerReceive(s) PROVE Solo' /\ OwnAnswer'
  <2>1. PICK i \in 1..Len(queue) :
           MsgRcv(sid[s], MTYPE_C2S, i) /\ sbuf' = [sbuf EXCEPT ![s] = queue[i]]
    BY <1>6 DEF ServerReceive
  <2>2. /\ s \notin Handling /\ Handling' = Handling \cup {s} /\ Waiting' = Waiting
        /\ arg' = arg /\ pc' = pc /\ cbuf' = cbuf
    BY <1>6, <2>1 DEF ServerReceive, MsgRcv, Waiting, Handling, clientVars, TypeOK
  <2>3. ASSUME NEW j \in 1..Len(queue')
        PROVE  \E k \in 1..Len(queue) :
                  k = (IF j < i THEN j ELSE j + 1) /\ k # i /\ queue'[j] = queue[k]
    BY <2>1, AfterReceive DEF MsgRcv
  <2>4. Len(queue) \in Nat /\ Len(queue') = Len(queue) - 1
    BY <2>1, AfterReceive DEF MsgRcv, TypeOK
  <2>5. sbuf'[s] = queue[i] /\ \A t \in Handling : sbuf'[t] = sbuf[t]
    BY <2>1, <2>2 DEF TypeOK, Handling
  <2>6. Solo'
    <3>1. (\A j \in 1..Len(queue) : Awaited(queue[j]))'
      BY <1>a, <2>2, <2>3 DEF Solo, Awaited
    <3>2. (\A t \in Handling : Awaited(sbuf[t]))'
      BY <1>a, <2>2, <2>5 DEF Solo, Awaited
    <3>3. ASSUME NEW j \in 1..Len(queue'), NEW l \in 1..Len(queue'), j # l
          PROVE  queue'[j].pid # queue'[l].pid
      <4>1. PICK k \in 1..Len(queue) :
               k = (IF j < i THEN j ELSE j + 1) /\ queue'[j] = queue[k]
        BY <2>3
      <4>2. PICK m \in 1..Len(queue) :
               m = (IF l < i THEN l ELSE l + 1) /\ queue'[l] = queue[m]
        BY <2>3
      <4>3. k # m
        BY <4>1, <4>2, <2>4, <3>3
      <4> QED BY <1>a, <4>1, <4>2, <4>3 DEF Solo
    <3>4. \A j \in 1..Len(queue'), t \in Handling' : queue'[j].pid # sbuf'[t].pid
      BY <1>a, <2>2, <2>3, <2>5 DEF Solo
    <3>5. \A t, u \in Handling' : t # u => sbuf'[t].pid # sbuf'[u].pid
      BY <1>a, <2>2, <2>5 DEF Solo
    <3> QED BY <3>1, <3>2, <3>3, <3>4, <3>5 DEF Solo
  <2> QED BY <1>a, <2>2, <2>6 DEF OwnAnswer
<1>7. ASSUME NEW s \in Server, ServerStat(s) PROVE Solo' /\ OwnAnswer'
  <2>1. /\ Waiting' = Waiting /\ Handling' = Handling
        /\ queue' = queue /\ arg' = arg /\ pc' = pc /\ cbuf' = cbuf
    BY <1>7 DEF ServerStat, Waiting, Handling, queueVars, clientVars, TypeOK
  <2>2. \A t \in Handling : sbuf'[t].pid = sbuf[t].pid /\ sbuf'[t].fname = sbuf[t].fname
    BY <1>7 DEF ServerStat, Answer, Handling, TypeOK
  <2>3. Solo'
    BY <1>a, <2>1, <2>2, SoloFrame
  <2> QED BY <1>a, <2>1, <2>3 DEF OwnAnswer
<1>8. ASSUME NEW s \in Server, ServerReply(s) PROVE Solo' /\ OwnAnswer'
  <2>1. /\ s \in Handling /\ Handling' = Handling \ {s} /\ Waiting' = Waiting
        /\ arg' = arg /\ pc' = pc /\ cbuf' = cbuf
    BY <1>8 DEF ServerReply, MsgSnd, Waiting, Handling, clientVars, TypeOK
  <2>2. sbuf[s] \in Msg /\ \A t \in Handling' : sbuf'[t] = sbuf[t]
    BY <1>8, <2>1 DEF ServerReply, TypeOK, Handling
  <2>3. /\ Len(queue') = Len(queue) + 1 /\ Len(queue) \in Nat
        /\ \A j \in 1..Len(queue') : queue'[j] = IF j <= Len(queue) THEN queue[j] ELSE sbuf[s]
    BY <1>8, <2>2, AfterSend DEF ServerReply, MsgSnd, TypeOK
  <2>4. Solo'
    <3>1. (\A j \in 1..Len(queue) : Awaited(queue[j]))'
      BY <1>a, <2>1, <2>3 DEF Solo, Awaited
    <3>2. (\A t \in Handling : Awaited(sbuf[t]))'
      BY <1>a, <2>1, <2>2 DEF Solo, Awaited
    <3>3. \A j, l \in 1..Len(queue') : j # l => queue'[j].pid # queue'[l].pid
      BY <1>a, <2>1, <2>3 DEF Solo
    <3>4. \A j \in 1..Len(queue'), t \in Handling' : queue'[j].pid # sbuf'[t].pid
      BY <1>a, <2>1, <2>2, <2>3 DEF Solo
    <3>5. \A t, u \in Handling' : t # u => sbuf'[t].pid # sbuf'[u].pid
      BY <1>a, <2>1, <2>2 DEF Solo
    <3> QED BY <3>1, <3>2, <3>3, <3>4, <3>5 DEF Solo
  <2> QED BY <1>a, <2>1, <2>4 DEF OwnAnswer
<1>9. ASSUME NEW s \in Server, ServerError(s) \/ ServerKill(s) \/ ServerExec(s)
      PROVE  Solo' /\ OwnAnswer'
  <2>1. /\ Waiting' = Waiting /\ Handling' \subseteq Handling
        /\ queue' = queue /\ arg' = arg /\ pc' = pc /\ cbuf' = cbuf
    BY <1>9 DEF ServerError, ServerKill, ServerGone, ServerExec, Waiting, Handling, queueVars,
                clientVars, TypeOK
  <2>2. \A t \in Handling' : sbuf'[t] = sbuf[t]
    BY <1>9 DEF ServerError, ServerKill, ServerGone, ServerExec, Handling, TypeOK
  <2>3. Solo'
    BY <1>a, <2>1, <2>2, SoloFrame
  <2> QED BY <1>a, <2>1, <2>3 DEF OwnAnswer
<1>10. CASE RemoveQueue
  <2>1. /\ qid' = qid + 1 /\ queue' = <<>> /\ cid' = cid /\ sid' = sid
        /\ arg' = arg /\ pc' = pc /\ cbuf' = cbuf
    BY <1>10 DEF RemoveQueue, IpcRmid, clientVars, serverVars
  <2>2. \A s \in Server : sid[s] \in Nat /\ qid \in Nat /\ sid[s] # qid'
    BY <2>1, QueueAssumption DEF IdInv, TypeOK
  <2>3. Handling' = {} /\ Len(queue') = 0
    BY <2>1, <2>2 DEF Handling
  <2> QED BY <1>a, <2>1, <2>3 DEF Solo, OwnAnswer
<1>11. CASE UNCHANGED vars
  <2>1. /\ Waiting' = Waiting /\ Handling' = Handling /\ sbuf' = sbuf
        /\ queue' = queue /\ arg' = arg /\ pc' = pc /\ cbuf' = cbuf
    BY <1>11 DEF vars, queueVars, clientVars, serverVars, Waiting, Handling
  <2>2. Solo'
    BY <1>a, <2>1, SoloFrame
  <2> QED BY <1>a, <2>1, <2>2 DEF OwnAnswer
<1> QED BY <1>1, <1>2, <1>3, <1>4, <1>5, <1>6, <1>7, <1>8, <1>9, <1>10, <1>11
     DEF Next, ClientStep, ServerStep

(* The invariant of the proofs as a whole.                                 *)
THEOREM InvariantHolds == Spec => []IInv
PROOF
<1>1. Init => IInv
  <2>1. Init => MessageInv /\ OwnInv
    BY DEF Init, QueueInit, MessageInv, OwnInv, OwnAnswer, Solo, Handling
  <2> QED BY <2>1, TypeInit, CountingInit DEF IInv
<1>2. IInv /\ [Next]_vars => IInv'
  BY TypeStep, IdStep, ConservationStep, MessageStep, SoloStep DEF IInv
<1> QED BY <1>1, <1>2, PTL DEF Spec

(* While no client was killed, what a client prints is about the file it   *)
(* was started with: several clients and servers on one queue, and its     *)
(* removal, never give a client the reply of another (file_client.c:53).   *)
THEOREM AnswersAreOwn == Spec => []OwnAnswer
PROOF
<1>1. IInv => OwnAnswer
  BY DEF IInv, OwnInv, OwnAnswer
<1> QED BY <1>1, InvariantHolds, PTL
-----------------------------------------------------------------------------
(* The refinement of RpcService.  A request of pid p about file n is       *)
(* pending in the queue or in the server that holds it.                    *)
MessagesOf(p, n) == {m \in Msg : m.pid = p /\ m.fname = n}
HoldersOf(p, n) == {s \in Handling : sbuf[s].pid = p /\ sbuf[s].fname = n}
AnswerOf(p) == IF pc[p] = "done" THEN cbuf[p].fname ELSE Junk

LEMMA QueuedPositions ==
    ASSUME NEW q \in Seq(Msg), NEW p, NEW n
    PROVE  /\ {i \in 1..Len(q) : q[i].pid = p /\ q[i].fname = n} = Positions(q, MessagesOf(p, n))
           /\ Cardinality(Positions(q, MessagesOf(p, n))) \in Nat
PROOF
<1>1. {i \in 1..Len(q) : q[i].pid = p /\ q[i].fname = n} = Positions(q, MessagesOf(p, n))
  BY ElementOfSeq DEF Positions, MessagesOf
<1> QED BY <1>1, PositionsFinite

LEMMA HoldersFinite ==
    ASSUME NEW p, NEW n
    PROVE  IsFiniteSet(HoldersOf(p, n)) /\ Cardinality(HoldersOf(p, n)) \in Nat
PROOF
<1>1. HoldersOf(p, n) \subseteq Handling
  BY DEF HoldersOf
<1> QED BY <1>1, CountsFinite, FS_Subset, FS_CardinalityType

LEMMA PendingIs ==
    ASSUME queue \in Seq(Msg), queue' \in Seq(Msg), NEW p, NEW n
    PROVE  /\ Pending(p, n) = Cardinality(Positions(queue, MessagesOf(p, n)))
                                + Cardinality(HoldersOf(p, n))
           /\ Pending(p, n)' = Cardinality(Positions(queue', MessagesOf(p, n)))
                                 + Cardinality(HoldersOf(p, n)')
           /\ Cardinality(Positions(queue, MessagesOf(p, n))) \in Nat
           /\ Cardinality(Positions(queue', MessagesOf(p, n))) \in Nat
           /\ IsFiniteSet(HoldersOf(p, n)) /\ Cardinality(HoldersOf(p, n)) \in Nat
PROOF
<1>1. Pending(p, n) = Cardinality(Positions(queue, MessagesOf(p, n))) + Cardinality(HoldersOf(p, n))
  BY QueuedPositions DEF Pending, HoldersOf
<1>2. Pending(p, n)' = Cardinality(Positions(queue', MessagesOf(p, n)))
                         + Cardinality(HoldersOf(p, n)')
  BY QueuedPositions DEF Pending, HoldersOf
<1> QED BY <1>1, <1>2, QueuedPositions, HoldersFinite

(* The steps of RpcService in terms of the mapped state.                   *)
LEMMA ServiceAsk ==
    ASSUME NEW p \in Pid, NEW n \in Name, Status(p) = "idle",
           \A q \in Pid : Status(q)' = (IF q = p THEN "asked" ELSE Status(q)),
           \A q \in Pid : AnswerOf(q)' = AnswerOf(q),
           \A q \in Pid, k \in Name : Pending(q, k)' =
              IF q = p /\ k = n THEN Pending(q, k) + 1 ELSE Pending(q, k)
    PROVE  Service!Ask(p, n)
PROOF BY DEF Service!Ask, AnswerOf

LEMMA ServiceReply ==
    ASSUME NEW p \in Pid, NEW n \in Name, Status(p) = "asked", Pending(p, n) > 0,
           \A q \in Pid : Status(q)' = (IF q = p THEN "answered" ELSE Status(q)),
           \A q \in Pid : AnswerOf(q)' = (IF q = p THEN n ELSE AnswerOf(q)),
           \A q \in Pid, k \in Name : Pending(q, k)' =
              IF q = p /\ k = n THEN Pending(q, k) - 1 ELSE Pending(q, k)
    PROVE  Service!Reply(p, n)
PROOF BY DEF Service!Reply, AnswerOf

LEMMA ServiceLose ==
    ASSUME NEW p \in Pid, NEW n \in Name, Pending(p, n) > 0,
           \A q \in Pid : Status(q)' = Status(q),
           \A q \in Pid : AnswerOf(q)' = AnswerOf(q),
           \A q \in Pid, k \in Name : Pending(q, k)' =
              IF q = p /\ k = n THEN Pending(q, k) - 1 ELSE Pending(q, k)
    PROVE  Service!Lose(p, n)
PROOF BY DEF Service!Lose, AnswerOf

LEMMA ServiceLeave ==
    ASSUME NEW p \in Pid, Status(p) # "idle",
           \A q \in Pid : Status(q)' = (IF q = p THEN "idle" ELSE Status(q)),
           \A q \in Pid : AnswerOf(q)' = (IF q = p THEN Junk ELSE AnswerOf(q)),
           \A q \in Pid, k \in Name : Pending(q, k)' = Pending(q, k)
    PROVE  Service!Leave(p)
PROOF BY DEF Service!Leave, AnswerOf

LEMMA ServiceStutter ==
    ASSUME \A q \in Pid : Status(q)' = Status(q),
           \A q \in Pid : AnswerOf(q)' = AnswerOf(q),
           \A q \in Pid, k \in Name : Pending(q, k)' = Pending(q, k)
    PROVE  UNCHANGED Service!vars
PROOF BY DEF Service!vars, AnswerOf

LEMMA ServiceNext ==
    ASSUME NEW p \in Pid, NEW n \in Name,
           Service!Ask(p, n) \/ Service!Reply(p, n) \/ Service!Lose(p, n)
    PROVE  Service!Next
PROOF BY DEF Service!Next

(* A step that leaves the queue and what servers hold of it alone.         *)
LEMMA PendingFrame ==
    ASSUME queue' = queue, Handling' = Handling,
           \A s \in Handling : sbuf'[s].pid = sbuf[s].pid /\ sbuf'[s].fname = sbuf[s].fname
    PROVE  \A q \in Pid, k \in Name : Pending(q, k)' = Pending(q, k)
PROOF
<1> SUFFICES ASSUME NEW q \in Pid, NEW k \in Name PROVE Pending(q, k)' = Pending(q, k)
  OBVIOUS
<1>1. {s \in Handling' : sbuf'[s].pid = q /\ sbuf'[s].fname = k}
        = {s \in Handling : sbuf[s].pid = q /\ sbuf[s].fname = k}
  OBVIOUS
<1> QED BY <1>1 DEF Pending

LEMMA ServiceStep == IInv /\ IInv' /\ [Next]_vars => [Service!Next]_(Service!vars)
PROOF
<1> SUFFICES ASSUME IInv, IInv', [Next]_vars
             PROVE  Service!Next \/ UNCHANGED Service!vars
  OBVIOUS
<1> USE FileServerAssumption
<1>0. TypeOK /\ TypeOK' /\ IdInv /\ MessageInv /\ queue \in Seq(Msg) /\ queue' \in Seq(Msg)
  BY DEF IInv, TypeOK
<1>1. ASSUME NEW p \in Pid, ClientSend(p) PROVE Service!Next
  <2>1. PICK n \in Name : cbuf[p] \in Msg /\ cbuf[p].pid = p /\ cbuf[p].fname = n
    <3>1. arg[p] \in Name /\ cbuf[p] = Request(p, arg[p])
      BY <1>0, <1>1 DEF MessageInv, ClientSend
    <3>2. Request(p, arg[p]).pid = p /\ Request(p, arg[p]).fname = arg[p]
      BY DEF Request
    <3> QED BY <3>1, <3>2, RequestType
  <2>2. /\ queue' = Append(queue, cbuf[p]) /\ Handling' = Handling /\ sbuf' = sbuf
        /\ cbuf' = cbuf /\ qid' = qid /\ cid' = cid /\ cid[p] = qid
        /\ pc[p] = "snd" /\ pc' = [pc EXCEPT ![p] = "rcv"]
    BY <1>1 DEF ClientSend, MsgSnd, Handling, serverVars
  <2>3. ASSUME NEW q \in Pid, NEW k \in Name
        PROVE  Pending(q, k)' = IF q = p /\ k = n THEN Pending(q, k) + 1 ELSE Pending(q, k)
    <3>1. HoldersOf(q, k)' = HoldersOf(q, k)
      BY <2>2 DEF HoldersOf
    <3>2. cbuf[p] \in MessagesOf(q, k) <=> q = p /\ k = n
      BY <2>1 DEF MessagesOf
    <3>3. Cardinality(Positions(queue', MessagesOf(q, k))) =
             IF q = p /\ k = n THEN Cardinality(Positions(queue, MessagesOf(q, k))) + 1
                               ELSE Cardinality(Positions(queue, MessagesOf(q, k)))
      BY <1>0, <2>1, <2>2, <3>2, CountAppend
    <3> QED BY <1>0, <3>1, <3>3, PendingIs
  <2>4. Service!Ask(p, n)
    <3>1. Status(p) = "idle" /\ \A q \in Pid : Status(q)' = (IF q = p THEN "asked" ELSE Status(q))
      BY <1>0, <2>2 DEF Status, TypeOK
    <3>2. \A q \in Pid : AnswerOf(q)' = AnswerOf(q)
      BY <1>0, <2>2 DEF AnswerOf, TypeOK
    <3> QED BY <2>1, <2>3, <3>1, <3>2, ServiceAsk
  <2> QED BY <2>4, ServiceNext
<1>2. ASSUME NEW p \in Pid, ClientReceive(p) PROVE Service!Next
  <2>1. PICK i \in 1..Len(queue) :
           MsgRcv(cid[p], ReplyType(p), i) /\ cbuf' = [cbuf EXCEPT ![p] = queue[i]]
    BY <1>2 DEF ClientReceive
  <2>2. queue[i] \in Msg /\ queue[i].pid = p /\ queue[i].fname \in Name
    <3>1. queue[i] \in Msg
      BY <1>0, ElementOfSeq
    <3> QED BY <1>0, <2>1, <3>1 DEF MessageInv, MsgRcv, IsFirst, ReplyType, IsReply, Msg
  <2>3. PICK n \in Name : n = queue[i].fname
    BY <2>2
  <2>4. /\ queue' = RemoveAt(queue, i) /\ Handling' = Handling /\ sbuf' = sbuf
        /\ qid' = qid /\ cid' = [cid EXCEPT ![p] = 0] /\ cid[p] = qid
        /\ pc[p] = "rcv" /\ pc' = [pc EXCEPT ![p] = "done"]
    BY <1>2, <2>1 DEF ClientReceive, MsgRcv, Handling, serverVars
  <2>5. ASSUME NEW q \in Pid, NEW k \in Name
        PROVE  /\ Pending(q, k)' = IF q = p /\ k = n THEN Pending(q, k) - 1 ELSE Pending(q, k)
               /\ q = p /\ k = n => Pending(q, k) > 0
    <3>1. HoldersOf(q, k)' = HoldersOf(q, k)
      BY <2>4 DEF HoldersOf
    <3>2. queue[i] \in MessagesOf(q, k) <=> q = p /\ k = n
      BY <2>2, <2>3 DEF MessagesOf
    <3>3. Cardinality(Positions(queue', MessagesOf(q, k))) =
             IF q = p /\ k = n THEN Cardinality(Positions(queue, MessagesOf(q, k))) - 1
                               ELSE Cardinality(Positions(queue, MessagesOf(q, k)))
      BY <1>0, <2>4, <3>2, CountRemove
    <3> QED BY <1>0, <3>1, <3>3, PendingIs
  <2>6. Service!Reply(p, n)
    <3>1. Status(p) = "asked" /\ \A q \in Pid : Status(q)' = (IF q = p THEN "answered" ELSE Status(q))
      BY <1>0, <2>4 DEF Status, TypeOK
    <3>2. \A q \in Pid : AnswerOf(q)' = (IF q = p THEN n ELSE AnswerOf(q))
      <4>1. cbuf'[p] = queue[i] /\ pc'[p] = "done"
        BY <1>0, <2>1, <2>4 DEF TypeOK
      <4>2. \A q \in Pid \ {p} : cbuf'[q] = cbuf[q] /\ pc'[q] = pc[q]
        BY <1>0, <2>1, <2>4 DEF TypeOK
      <4> QED BY <2>3, <4>1, <4>2 DEF AnswerOf
    <3>3. Pending(p, n) > 0
      BY <2>3, <2>5
    <3>4. \A q \in Pid, k \in Name :
             Pending(q, k)' = IF q = p /\ k = n THEN Pending(q, k) - 1 ELSE Pending(q, k)
      BY <2>5
    <3> QED BY <2>3, <3>1, <3>2, <3>3, <3>4, ServiceReply
  <2> QED BY <2>3, <2>6, ServiceNext
<1>3. ASSUME NEW p \in Pid, ClientError(p) \/ ClientKill(p)
      PROVE  Service!Next \/ UNCHANGED Service!vars
  <2>1. /\ pc[p] \in ClientLive /\ pc' = [pc EXCEPT ![p] = "off"]
        /\ cid' = [cid EXCEPT ![p] = 0] /\ cbuf' = [cbuf EXCEPT ![p] = Blank]
        /\ queue' = queue /\ qid' = qid /\ Handling' = Handling /\ sbuf' = sbuf
    BY <1>3 DEF ClientError, ClientKill, ClientGone, Handling, queueVars, serverVars
  <2>2. \A q \in Pid, k \in Name : Pending(q, k)' = Pending(q, k)
    BY <2>1, PendingFrame
  <2>3. /\ \A q \in Pid : Status(q)' = (IF q = p THEN "idle" ELSE Status(q))
        /\ \A q \in Pid : AnswerOf(q)' = (IF q = p THEN Junk ELSE AnswerOf(q))
        /\ AnswerOf(p) = Junk
    BY <1>0, <2>1 DEF Status, AnswerOf, TypeOK, ClientLive
  <2>4. CASE Status(p) = "idle"
    BY <2>2, <2>3, <2>4, ServiceStutter
  <2>5. CASE Status(p) # "idle"
    <3>1. Service!Leave(p)
      BY <2>2, <2>3, <2>5, ServiceLeave
    <3> QED BY <3>1 DEF Service!Next
  <2> QED BY <2>4, <2>5
<1>4. ASSUME NEW p \in Pid, NEW n \in Name, ClientExec(p, n)
      PROVE  Service!Next \/ UNCHANGED Service!vars
  <2>1. /\ pc[p] \notin ClientLive /\ pc' = [pc EXCEPT ![p] = "snd"]
        /\ cid' = [cid EXCEPT ![p] = qid] /\ cbuf' = [cbuf EXCEPT ![p] = Request(p, n)]
        /\ queue' = queue /\ qid' = qid /\ Handling' = Handling /\ sbuf' = sbuf
    BY <1>4 DEF ClientExec, Handling, queueVars, serverVars
  <2>2. \A q \in Pid, k \in Name : Pending(q, k)' = Pending(q, k)
    BY <2>1, PendingFrame
  <2>3. /\ \A q \in Pid : Status(q)' = (IF q = p THEN "idle" ELSE Status(q))
        /\ \A q \in Pid : AnswerOf(q)' = (IF q = p THEN Junk ELSE AnswerOf(q))
        /\ Status(p) = "idle" => AnswerOf(p) = Junk
    BY <1>0, <2>1 DEF Status, AnswerOf, TypeOK, ClientLive
  <2>4. CASE Status(p) = "idle"
    BY <2>2, <2>3, <2>4, ServiceStutter
  <2>5. CASE Status(p) # "idle"
    <3>1. Service!Leave(p)
      BY <2>2, <2>3, <2>5, ServiceLeave
    <3> QED BY <3>1 DEF Service!Next
  <2> QED BY <2>4, <2>5
<1>5. ASSUME NEW s \in Server, ServerReceive(s) PROVE UNCHANGED Service!vars
  <2>1. PICK i \in 1..Len(queue) :
           MsgRcv(sid[s], MTYPE_C2S, i) /\ sbuf' = [sbuf EXCEPT ![s] = queue[i]]
    BY <1>5 DEF ServerReceive
  <2>2. /\ s \notin Handling /\ Handling' = Handling \cup {s} /\ queue' = RemoveAt(queue, i)
        /\ pc' = pc /\ cid' = cid /\ qid' = qid /\ cbuf' = cbuf
    BY <1>0, <1>5, <2>1 DEF ServerReceive, MsgRcv, Handling, clientVars, TypeOK
  <2>3. sbuf'[s] = queue[i] /\ queue[i] \in Msg /\ \A t \in Handling : sbuf'[t] = sbuf[t]
    BY <1>0, <2>1, <2>2, ElementOfSeq DEF TypeOK, Handling
  <2>4. ASSUME NEW q \in Pid, NEW k \in Name PROVE Pending(q, k)' = Pending(q, k)
    <3> DEFINE here == queue[i] \in MessagesOf(q, k)
    <3>2. /\ HoldersOf(q, k)' = IF here THEN HoldersOf(q, k) \cup {s} ELSE HoldersOf(q, k)
          /\ s \notin HoldersOf(q, k)
      BY <2>2, <2>3 DEF MessagesOf, HoldersOf
    <3>3. Cardinality(HoldersOf(q, k)') =
             IF here THEN Cardinality(HoldersOf(q, k)) + 1 ELSE Cardinality(HoldersOf(q, k))
      BY <1>0, <3>2, PendingIs, FS_AddElement
    <3>4. Cardinality(Positions(queue', MessagesOf(q, k))) =
             IF here THEN Cardinality(Positions(queue, MessagesOf(q, k))) - 1
                     ELSE Cardinality(Positions(queue, MessagesOf(q, k)))
      BY <1>0, <2>2, CountRemove
    <3> QED BY <1>0, <3>3, <3>4, PendingIs
  <2>5. \A q \in Pid : Status(q)' = Status(q) /\ AnswerOf(q)' = AnswerOf(q)
    BY <2>2 DEF Status, AnswerOf
  <2> QED BY <2>4, <2>5, ServiceStutter
<1>6. ASSUME NEW s \in Server, ServerStat(s) PROVE UNCHANGED Service!vars
  <2>1. /\ Handling' = Handling /\ queue' = queue
        /\ pc' = pc /\ cid' = cid /\ qid' = qid /\ cbuf' = cbuf
    BY <1>0, <1>6 DEF ServerStat, Handling, queueVars, clientVars, TypeOK
  <2>2. \A t \in Handling : sbuf'[t].pid = sbuf[t].pid /\ sbuf'[t].fname = sbuf[t].fname
    BY <1>0, <1>6 DEF ServerStat, Answer, Handling, TypeOK
  <2>3. \A q \in Pid : Status(q)' = Status(q) /\ AnswerOf(q)' = AnswerOf(q)
    BY <2>1 DEF Status, AnswerOf
  <2> QED BY <2>1, <2>2, <2>3, PendingFrame, ServiceStutter
<1>7. ASSUME NEW s \in Server, ServerReply(s) PROVE UNCHANGED Service!vars
  <2>1. /\ s \in Handling /\ Handling' = Handling \ {s} /\ queue' = Append(queue, sbuf[s])
        /\ pc' = pc /\ cid' = cid /\ qid' = qid /\ cbuf' = cbuf
    BY <1>0, <1>7 DEF ServerReply, MsgSnd, Handling, clientVars, TypeOK
  <2>2. sbuf[s] \in Msg /\ \A t \in Handling' : sbuf'[t] = sbuf[t]
    BY <1>0, <1>7, <2>1 DEF ServerReply, TypeOK, Handling
  <2>3. ASSUME NEW q \in Pid, NEW k \in Name PROVE Pending(q, k)' = Pending(q, k)
    <3> DEFINE here == sbuf[s] \in MessagesOf(q, k)
    <3>2. /\ HoldersOf(q, k)' = HoldersOf(q, k) \ {s}
          /\ s \in HoldersOf(q, k) <=> here
      BY <2>1, <2>2 DEF MessagesOf, HoldersOf
    <3>3. Cardinality(HoldersOf(q, k)') =
             IF here THEN Cardinality(HoldersOf(q, k)) - 1 ELSE Cardinality(HoldersOf(q, k))
      BY <1>0, <3>2, HoldersFinite, FS_RemoveElement
    <3>4. Cardinality(Positions(queue', MessagesOf(q, k))) =
             IF here THEN Cardinality(Positions(queue, MessagesOf(q, k))) + 1
                     ELSE Cardinality(Positions(queue, MessagesOf(q, k)))
      BY <1>0, <2>1, <2>2, CountAppend
    <3> QED BY <1>0, <3>3, <3>4, PendingIs
  <2>4. \A q \in Pid : Status(q)' = Status(q) /\ AnswerOf(q)' = AnswerOf(q)
    BY <2>1 DEF Status, AnswerOf
  <2> QED BY <2>3, <2>4, ServiceStutter
<1>8. ASSUME NEW s \in Server, ServerError(s) \/ ServerExec(s) PROVE UNCHANGED Service!vars
  <2>1. /\ Handling' = Handling /\ queue' = queue
        /\ pc' = pc /\ cid' = cid /\ qid' = qid /\ cbuf' = cbuf
    BY <1>0, <1>8 DEF ServerError, ServerGone, ServerExec, ServerLive, Removed, Handling,
                      queueVars, clientVars, TypeOK
  <2>2. \A t \in Handling : sbuf'[t] = sbuf[t]
    BY <1>0, <1>8, <2>1 DEF ServerError, ServerGone, ServerExec, ServerLive, Removed, Handling, TypeOK
  <2>3. \A q \in Pid : Status(q)' = Status(q) /\ AnswerOf(q)' = AnswerOf(q)
    BY <2>1 DEF Status, AnswerOf
  <2> QED BY <2>1, <2>2, <2>3, PendingFrame, ServiceStutter
<1>9. ASSUME NEW s \in Server, ServerKill(s) PROVE Service!Next \/ UNCHANGED Service!vars
  <2>1. /\ Handling' = Handling \ {s} /\ queue' = queue
        /\ pc' = pc /\ cid' = cid /\ qid' = qid /\ cbuf' = cbuf
    BY <1>0, <1>9 DEF ServerKill, ServerGone, Handling, queueVars, clientVars, TypeOK
  <2>2. \A t \in Handling' : sbuf'[t] = sbuf[t]
    BY <1>0, <1>9, <2>1 DEF ServerKill, ServerGone, Handling, TypeOK
  <2>3. \A q \in Pid : Status(q)' = Status(q) /\ AnswerOf(q)' = AnswerOf(q)
    BY <2>1 DEF Status, AnswerOf
  <2>4. CASE s \notin Handling
    BY <2>1, <2>2, <2>3, <2>4, PendingFrame, ServiceStutter
  <2>5. CASE s \in Handling
    <3>1. PICK p \in Pid, n \in Name : sbuf[s].pid = p /\ sbuf[s].fname = n
      BY <1>0, <2>5 DEF Handling, TypeOK, Msg
    <3>2. ASSUME NEW q \in Pid, NEW k \in Name
          PROVE  /\ Pending(q, k)' = IF q = p /\ k = n THEN Pending(q, k) - 1 ELSE Pending(q, k)
                 /\ q = p /\ k = n => Pending(q, k) > 0
      <4>2. /\ HoldersOf(q, k)' = HoldersOf(q, k) \ {s}
            /\ s \in HoldersOf(q, k) <=> q = p /\ k = n
        BY <2>1, <2>2, <2>5, <3>1 DEF HoldersOf
      <4>3. Cardinality(HoldersOf(q, k)') =
               IF q = p /\ k = n THEN Cardinality(HoldersOf(q, k)) - 1
                                 ELSE Cardinality(HoldersOf(q, k))
        BY <1>0, <4>2, HoldersFinite, FS_RemoveElement
      <4>4. Cardinality(HoldersOf(q, k)') \in Nat
        BY <4>2, HoldersFinite, FS_RemoveElement, FS_CardinalityType
      <4> QED BY <1>0, <2>1, <4>3, <4>4, PendingIs
    <3>3. Service!Lose(p, n)
      BY <2>3, <3>2, ServiceLose
    <3> QED BY <3>3, ServiceNext
  <2> QED BY <2>4, <2>5
<1>10. CASE RemoveQueue
  <2>1. /\ qid' = qid + 1 /\ queue' = <<>> /\ cid' = cid /\ sid' = sid
        /\ pc' = pc /\ cbuf' = cbuf /\ spc' = spc
    BY <1>10 DEF RemoveQueue, IpcRmid, clientVars, serverVars
  <2>2. /\ \A p \in Pid : cid[p] # qid'
        /\ \A s \in Server : sid[s] # qid'
    BY <1>0, <2>1, QueueAssumption DEF IdInv, TypeOK
  <2>3. ASSUME NEW q \in Pid, NEW k \in Name PROVE Pending(q, k)' = 0
    <3>1. HoldersOf(q, k)' = {}
      BY <2>1, <2>2 DEF HoldersOf, Handling
    <3>2. Cardinality(Positions(<<>>, MessagesOf(q, k))) = 0
      BY CountEmpty
    <3>3. Pending(q, k)' = Cardinality(Positions(queue', MessagesOf(q, k)))
                             + Cardinality(HoldersOf(q, k)')
      BY <1>0, PendingIs
    <3>4. Cardinality(HoldersOf(q, k)') = 0
      BY <3>1, FS_EmptySet
    <3> QED BY <2>1, <3>2, <3>3, <3>4
  <2>4. /\ \A q \in Pid : Status(q)' = (IF Status(q) = "asked" THEN "idle" ELSE Status(q))
        /\ \A q \in Pid : AnswerOf(q)' = AnswerOf(q)
    BY <2>1, <2>2 DEF Status, AnswerOf
  <2>5. Service!TakeDown
    BY <2>3, <2>4 DEF Service!TakeDown, Service!Zero, AnswerOf
  <2> QED BY <2>5 DEF Service!Next
<1>11. CASE UNCHANGED vars
  <2>1. /\ Handling' = Handling /\ sbuf' = sbuf /\ queue' = queue
        /\ pc' = pc /\ cid' = cid /\ qid' = qid /\ cbuf' = cbuf
    BY <1>11 DEF vars, queueVars, clientVars, serverVars, Handling
  <2>2. \A q \in Pid : Status(q)' = Status(q) /\ AnswerOf(q)' = AnswerOf(q)
    BY <2>1 DEF Status, AnswerOf
  <2> QED BY <2>1, <2>2, PendingFrame, ServiceStutter
<1> QED BY <1>1, <1>2, <1>3, <1>4, <1>5, <1>6, <1>7, <1>8, <1>9, <1>10, <1>11
     DEF Next, ClientStep, ServerStep

LEMMA ServiceInit == Init => Service!Init
PROOF
<1> SUFFICES ASSUME Init PROVE Service!Init
  OBVIOUS
<1>1. \A p \in Pid : Status(p) = "idle" /\ AnswerOf(p) = Junk
  BY DEF Init, Status, AnswerOf
<1>2. ASSUME NEW p \in Pid, NEW n \in Name PROVE Pending(p, n) = 0
  <2>1. queue \in Seq(Msg) /\ HoldersOf(p, n) = {} /\ queue = <<>>
    BY DEF Init, QueueInit, HoldersOf, Handling
  <2>2. Pending(p, n) = Cardinality(Positions(queue, MessagesOf(p, n)))
                          + Cardinality(HoldersOf(p, n))
    BY <2>1, QueuedPositions DEF Pending, HoldersOf
  <2> QED BY <2>1, <2>2, CountEmpty, FS_EmptySet
<1> QED BY <1>1, <1>2 DEF Service!Init, Service!Zero, AnswerOf

(* FileServer implements RpcService: whatever is killed, removed or given  *)
(* a pid again, an answer (file_client.c:53) uses up one request that was  *)
(* sent under the same pid and not answered before.                        *)
THEOREM ServiceImplemented == Spec => ImplementsService
PROOF BY ServiceInit, ServiceStep, InvariantHolds, PTL DEF Spec, ImplementsService, Service!Spec
-----------------------------------------------------------------------------
(* The calculator.  A message names two operands of some client, and its   *)
(* result is their product when it is a reply.                             *)
CalMsg == [mtype : {MTYPE_C2S, MTYPE_S2C}, op1 : Op, op2 : Op,
           result : {Product(a, b) : a \in Op, b \in Op} \cup {Junk}]

IsEquation(m) == m.mtype = MTYPE_S2C => m.result = Product(m.op1, m.op2)

CalTypeOK ==
    /\ queue \in Seq(CalMsg) /\ Len(queue) <= Capacity
    /\ qid \in 0..MaxRmid
    /\ calPc \in [Client -> {"new", "snd", "rcv", "done", "lost", "off"}]
    /\ calArg \in [Client -> (Op \X Op) \cup {<<Junk, Junk>>}]
    /\ \A c \in Client : calPc[c] # "new" => calArg[c] \in Op \X Op
    /\ calCid \in [Client -> 0..qid]
    /\ printed \in [Client -> CalMsg \cup {CalBlank}]
    /\ \A c \in Client : calPc[c] = "done" => printed[c] \in CalMsg
    /\ calSpc \in [Calculator -> {"off", "rcv", "snd"}]
    /\ calSid \in [Calculator -> 0..qid]
    /\ calSbuf \in [Calculator -> CalMsg \cup {CalBlank}]
    /\ \A s \in Calculator : calSpc[s] = "snd" => calSbuf[s] \in CalMsg
    /\ calClientKills \in 0..MaxClientKill
    /\ calServerKills \in 0..MaxServerKill

(* Every reply is a true equation, wherever it is.                         *)
EquationsTrue ==
    /\ \A i \in 1..Len(queue) : IsEquation(queue[i])
    /\ \A s \in Calculator : calSpc[s] = "snd" =>
          calSbuf[s].mtype = MTYPE_S2C /\ IsEquation(calSbuf[s])
    /\ \A c \in Client : calPc[c] = "done" =>
          printed[c].mtype = MTYPE_S2C /\ IsEquation(printed[c])

CalInv == CalTypeOK /\ EquationsTrue /\ EquationsOnce

(* What the server makes of a request keeps its operands.                  *)
LEMMA MultipliedType ==
    ASSUME NEW m \in CalMsg
    PROVE  /\ Multiplied(m) \in CalMsg
           /\ Multiplied(m).op1 = m.op1 /\ Multiplied(m).op2 = m.op2
           /\ Multiplied(m).mtype = MTYPE_S2C /\ IsEquation(Multiplied(m))
PROOF
<1>1. m.op1 \in Op /\ m.op2 \in Op
  BY DEF CalMsg
<1>2. /\ Multiplied(m).op1 = m.op1 /\ Multiplied(m).op2 = m.op2
      /\ Multiplied(m).mtype = MTYPE_S2C /\ Multiplied(m).result = Product(m.op1, m.op2)
  BY DEF Multiplied
<1>3. Multiplied(m) \in CalMsg
  BY <1>1 DEF Multiplied, CalMsg
<1> QED BY <1>2, <1>3 DEF IsEquation

LEMMA CalQueueStep ==
    ASSUME CalTypeOK
    PROVE  /\ \A id, m : m \in CalMsg /\ MsgSnd(id, m) =>
                 /\ queue' \in Seq(CalMsg) /\ Len(queue') <= Capacity /\ qid' = qid
                 /\ \A i \in 1..Len(queue') : queue'[i] = m \/ \E k \in 1..Len(queue) : queue'[i] = queue[k]
           /\ \A id, t, j : j \in 1..Len(queue) /\ MsgRcv(id, t, j) =>
                 /\ queue' \in Seq(CalMsg) /\ Len(queue') <= Capacity /\ qid' = qid
                 /\ queue[j] \in CalMsg
                 /\ \A i \in 1..Len(queue') : \E k \in 1..Len(queue) : queue'[i] = queue[k]
PROOF
<1> USE QueueAssumption
<1>0. queue \in Seq(CalMsg) /\ Len(queue) \in Nat /\ Len(queue) <= Capacity
  BY DEF CalTypeOK
<1>1. ASSUME NEW id, NEW m, m \in CalMsg, MsgSnd(id, m)
      PROVE  /\ queue' \in Seq(CalMsg) /\ Len(queue') <= Capacity /\ qid' = qid
             /\ \A i \in 1..Len(queue') : queue'[i] = m \/ \E k \in 1..Len(queue) : queue'[i] = queue[k]
  <2>1. queue' = Append(queue, m) /\ Len(queue) < Capacity /\ qid' = qid
    BY <1>1 DEF MsgSnd
  <2>2. /\ queue' \in Seq(CalMsg) /\ Len(queue') = Len(queue) + 1
        /\ \A i \in 1..(Len(queue) + 1) : queue'[i] = IF i <= Len(queue) THEN queue[i] ELSE m
    BY <1>0, <1>1, <2>1, AppendProperties
  <2> QED BY <1>0, <2>1, <2>2
<1>2. ASSUME NEW id, NEW t, NEW j \in 1..Len(queue), MsgRcv(id, t, j)
      PROVE  /\ queue' \in Seq(CalMsg) /\ Len(queue') <= Capacity /\ qid' = qid
             /\ queue[j] \in CalMsg
             /\ \A i \in 1..Len(queue') : \E k \in 1..Len(queue) : queue'[i] = queue[k]
  <2>1. queue' = RemoveAt(queue, j) /\ qid' = qid
    BY <1>2 DEF MsgRcv
  <2>2. /\ queue' \in Seq(CalMsg) /\ Len(queue') = Len(queue) - 1
        /\ \A i \in 1..(Len(queue) - 1) : queue'[i] = queue[IF i < j THEN i ELSE i + 1]
    BY <1>0, <2>1, RemoveAtProperties
  <2>3. \A i \in 1..(Len(queue) - 1) : (IF i < j THEN i ELSE i + 1) \in 1..Len(queue)
    BY <1>0
  <2>4. queue[j] \in CalMsg
    BY <1>0, ElementOfSeq
  <2> QED BY <1>0, <2>1, <2>2, <2>3, <2>4
<1> QED BY <1>1, <1>2

LEMMA CalTypeStep ==
    CalTypeOK /\ EquationsTrue /\ [CalNext]_calVars => CalTypeOK' /\ EquationsTrue'
PROOF
<1> SUFFICES ASSUME CalTypeOK, EquationsTrue, [CalNext]_calVars
             PROVE  CalTypeOK' /\ EquationsTrue'
  OBVIOUS
<1> USE QueueAssumption, CalAssumption
<1>0. qid \in Nat
  BY DEF CalTypeOK
<1>1. ASSUME NEW c \in Client, Exec(c) PROVE CalTypeOK' /\ EquationsTrue'
  BY <1>0, <1>1 DEF CalTypeOK, EquationsTrue, Exec, queueVars, calServerVars, calKills
<1>2. ASSUME NEW c \in Client, Ask(c) PROVE CalTypeOK' /\ EquationsTrue'
  <2>1. CalRequest(c) \in CalMsg /\ IsEquation(CalRequest(c))
    <3>1. calArg[c] \in Op \X Op
      BY <1>2 DEF Ask, CalTypeOK
    <3> QED BY <3>1 DEF CalRequest, CalMsg, IsEquation
  <2>2. /\ queue' \in Seq(CalMsg) /\ Len(queue') <= Capacity /\ qid' = qid
        /\ \A i \in 1..Len(queue') :
              queue'[i] = CalRequest(c) \/ \E k \in 1..Len(queue) : queue'[i] = queue[k]
    BY <1>2, <2>1, CalQueueStep DEF Ask
  <2>3. \A i \in 1..Len(queue') : IsEquation(queue'[i])
    BY <2>1, <2>2 DEF EquationsTrue
  <2>4. CalTypeOK'
    BY <1>2, <2>2 DEF CalTypeOK, Ask, calServerVars, calKills
  <2> QED BY <1>2, <2>3, <2>4 DEF CalTypeOK, EquationsTrue, Ask, calServerVars
<1>3. ASSUME NEW c \in Client, Receive(c) PROVE CalTypeOK' /\ EquationsTrue'
  <2>1. PICK i \in 1..Len(queue) :
           MsgRcv(calCid[c], MTYPE_S2C, i) /\ printed' = [printed EXCEPT ![c] = queue[i]]
    BY <1>3 DEF Receive
  <2>2. /\ queue' \in Seq(CalMsg) /\ Len(queue') <= Capacity /\ qid' = qid
        /\ queue[i] \in CalMsg
        /\ \A j \in 1..Len(queue') : \E k \in 1..Len(queue) : queue'[j] = queue[k]
    BY <2>1, CalQueueStep
  <2>3. \A j \in 1..Len(queue') : IsEquation(queue'[j])
    BY <2>2 DEF EquationsTrue
  <2>4. queue[i].mtype = MTYPE_S2C /\ IsEquation(queue[i])
    BY <2>1 DEF EquationsTrue, MsgRcv, IsFirst
  <2>5. CalTypeOK'
    BY <1>3, <2>1, <2>2 DEF CalTypeOK, Receive, calServerVars, calKills
  <2> QED BY <1>3, <2>1, <2>3, <2>4, <2>5 DEF CalTypeOK, EquationsTrue, Receive, calServerVars
<1>4. ASSUME NEW c \in Client, CalClientError(c) \/ CalClientKill(c)
      PROVE  CalTypeOK' /\ EquationsTrue'
  <2>1. /\ calPc' = [calPc EXCEPT ![c] = IF @ = "snd" THEN "off" ELSE "lost"]
        /\ calPc[c] \in {"snd", "rcv"}
        /\ UNCHANGED <<queueVars, calArg, calCid, printed, calServerVars, calServerKills>>
        /\ calClientKills' \in 0..MaxClientKill
    BY <1>4 DEF CalClientError, CalClientKill, CalClientGone, calKills, CalTypeOK
  <2>2. /\ \A d \in Client : calPc'[d] = "done" => calPc[d] = "done"
        /\ \A d \in Client : calPc'[d] # "new" => calPc[d] # "new"
        /\ calPc' \in [Client -> {"new", "snd", "rcv", "done", "lost", "off"}]
    BY <2>1 DEF CalTypeOK
  <2> QED BY <2>1, <2>2 DEF CalTypeOK, EquationsTrue, queueVars, calServerVars
<1>5. ASSUME NEW s \in Calculator, CalServerExec(s) PROVE CalTypeOK' /\ EquationsTrue'
  BY <1>0, <1>5 DEF CalTypeOK, EquationsTrue, CalServerExec, queueVars, calClientVars, calKills
<1>6. ASSUME NEW s \in Calculator, Take(s) PROVE CalTypeOK' /\ EquationsTrue'
  <2>1. PICK i \in 1..Len(queue) :
           /\ MsgRcv(calSid[s], MTYPE_C2S, i)
           /\ calSbuf' = [calSbuf EXCEPT ![s] = Multiplied(queue[i])]
    BY <1>6 DEF Take
  <2>2. /\ queue' \in Seq(CalMsg) /\ Len(queue') <= Capacity /\ qid' = qid
        /\ queue[i] \in CalMsg
        /\ \A j \in 1..Len(queue') : \E k \in 1..Len(queue) : queue'[j] = queue[k]
    BY <2>1, CalQueueStep
  <2>3. \A j \in 1..Len(queue') : IsEquation(queue'[j])
    BY <2>2 DEF EquationsTrue
  <2>4. /\ Multiplied(queue[i]) \in CalMsg
        /\ Multiplied(queue[i]).mtype = MTYPE_S2C /\ IsEquation(Multiplied(queue[i]))
    BY <2>2, MultipliedType
  <2>5. CalTypeOK'
    BY <1>6, <2>1, <2>2, <2>4 DEF CalTypeOK, Take, calClientVars, calKills
  <2> QED BY <1>6, <2>1, <2>3, <2>4, <2>5 DEF CalTypeOK, EquationsTrue, Take, calClientVars
<1>7. ASSUME NEW s \in Calculator, Reply(s) PROVE CalTypeOK' /\ EquationsTrue'
  <2>1. calSbuf[s] \in CalMsg /\ IsEquation(calSbuf[s])
    BY <1>7 DEF Reply, CalTypeOK, EquationsTrue
  <2>2. /\ queue' \in Seq(CalMsg) /\ Len(queue') <= Capacity /\ qid' = qid
        /\ \A i \in 1..Len(queue') :
              queue'[i] = calSbuf[s] \/ \E k \in 1..Len(queue) : queue'[i] = queue[k]
    BY <1>7, <2>1, CalQueueStep DEF Reply
  <2>3. \A i \in 1..Len(queue') : IsEquation(queue'[i])
    BY <2>1, <2>2 DEF EquationsTrue
  <2>4. CalTypeOK'
    BY <1>7, <2>2 DEF CalTypeOK, Reply, calClientVars, calKills
  <2> QED BY <1>7, <2>3, <2>4 DEF CalTypeOK, EquationsTrue, Reply, calClientVars
<1>8. ASSUME NEW s \in Calculator, CalServerError(s) \/ CalServerKill(s)
      PROVE  CalTypeOK' /\ EquationsTrue'
  <2>1. /\ calSpc' = [calSpc EXCEPT ![s] = "off"] /\ calSbuf' = [calSbuf EXCEPT ![s] = CalBlank]
        /\ UNCHANGED <<queueVars, calClientVars, calSid, calClientKills>>
        /\ calServerKills' \in 0..MaxServerKill
    BY <1>8 DEF CalServerError, CalServerKill, CalServerGone, calKills, CalTypeOK
  <2>2. \A t \in Calculator : calSpc'[t] = "snd" => calSpc[t] = "snd" /\ calSbuf'[t] = calSbuf[t]
    BY <2>1 DEF CalTypeOK
  <2> QED BY <2>1, <2>2 DEF CalTypeOK, EquationsTrue, queueVars, calClientVars
<1>9. CASE CalRemoveQueue
  <2>1. /\ queue' = <<>> /\ qid' = qid + 1 /\ qid' \in 0..MaxRmid
    BY <1>0, <1>9 DEF CalRemoveQueue, IpcRmid
  <2> QED BY <1>0, <1>9, <2>1
       DEF CalTypeOK, EquationsTrue, CalRemoveQueue, calClientVars, calServerVars, calKills
<1>10. CASE UNCHANGED calVars
  BY <1>10 DEF CalTypeOK, EquationsTrue, calVars, queueVars, calClientVars, calServerVars, calKills
<1> QED BY <1>1, <1>2, <1>3, <1>4, <1>5, <1>6, <1>7, <1>8, <1>9, <1>10 DEF CalNext

LEMMA CalTypeInit == CalInit => CalTypeOK /\ EquationsTrue
PROOF BY QueueAssumption, CalAssumption DEF CalInit, QueueInit, CalTypeOK, EquationsTrue
-----------------------------------------------------------------------------
(* Messages of the queue, and servers on it, that carry the operands ops.  *)
MessagesAbout(ops) == {m \in CalMsg : About(m, ops)}
CarriersOf(ops) ==
    {s \in Calculator : calSpc[s] = "snd" /\ calSid[s] = qid /\ About(calSbuf[s], ops)}

LEMMA EquationPositions ==
    ASSUME NEW q \in Seq(CalMsg), NEW ops
    PROVE  /\ {i \in 1..Len(q) : About(q[i], ops)} = Positions(q, MessagesAbout(ops))
           /\ Cardinality(Positions(q, MessagesAbout(ops))) \in Nat
PROOF
<1>1. {i \in 1..Len(q) : About(q[i], ops)} = Positions(q, MessagesAbout(ops))
  BY ElementOfSeq DEF Positions, MessagesAbout
<1> QED BY <1>1, PositionsFinite

LEMMA EquationSets ==
    ASSUME NEW ops
    PROVE  /\ IsFiniteSet(Asked(ops)) /\ Cardinality(Asked(ops)) \in Nat
           /\ IsFiniteSet(Printed(ops)) /\ Cardinality(Printed(ops)) \in Nat
           /\ IsFiniteSet(CarriersOf(ops)) /\ Cardinality(CarriersOf(ops)) \in Nat
PROOF
<1>1. /\ Asked(ops) \subseteq Client /\ Printed(ops) \subseteq Client
      /\ CarriersOf(ops) \subseteq Calculator
  BY DEF Asked, Printed, CarriersOf
<1> QED BY <1>1, CalAssumption, FS_Subset, FS_CardinalityType

(* What EquationsOnce says of one pair, by the four places of an equation: *)
(* clients that asked, clients that printed, the queue and the servers.    *)
Balance(lossless, asked, answers, queued, carried) ==
    /\ answers + queued + carried <= asked
    /\ lossless => answers + queued + carried = asked

Lossless == qid = 0 /\ calServerKills = 0

Balanced(ops) ==
    Balance(Lossless, Cardinality(Asked(ops)), Cardinality(Printed(ops)),
            Cardinality(Positions(queue, MessagesAbout(ops))), Cardinality(CarriersOf(ops)))

LEMMA EquationsBalanced ==
    ASSUME queue \in Seq(CalMsg), queue' \in Seq(CalMsg)
    PROVE  /\ EquationsOnce <=> \A ops \in Op \X Op : Balanced(ops)
           /\ EquationsOnce' <=> \A ops \in Op \X Op : Balanced(ops)'
PROOF
<1>1. ASSUME NEW ops
      PROVE  Underway(ops) = Cardinality(Positions(queue, MessagesAbout(ops)))
                               + Cardinality(CarriersOf(ops))
  BY EquationPositions DEF Underway, CarriersOf
<1>2. ASSUME NEW ops
      PROVE  Underway(ops)' = Cardinality(Positions(queue', MessagesAbout(ops)))
                                + Cardinality(CarriersOf(ops)')
  BY EquationPositions DEF Underway, CarriersOf
<1>3. ASSUME NEW ops \in Op \X Op
      PROVE  /\ Cardinality(Asked(ops)) \in Nat /\ Cardinality(Printed(ops)) \in Nat
             /\ Cardinality(CarriersOf(ops)) \in Nat
             /\ Cardinality(Positions(queue, MessagesAbout(ops))) \in Nat
  BY EquationSets, EquationPositions
<1>4. ASSUME NEW ops \in Op \X Op
      PROVE  /\ Cardinality(Asked(ops)') \in Nat /\ Cardinality(Printed(ops)') \in Nat
             /\ Cardinality(CarriersOf(ops)') \in Nat
             /\ Cardinality(Positions(queue', MessagesAbout(ops))) \in Nat
  <2>1. /\ Asked(ops)' \subseteq Client /\ Printed(ops)' \subseteq Client
        /\ CarriersOf(ops)' \subseteq Calculator
    BY DEF Asked, Printed, CarriersOf
  <2> QED BY <2>1, CalAssumption, FS_Subset, FS_CardinalityType, EquationPositions
<1>5. EquationsOnce <=> \A ops \in Op \X Op : Balanced(ops)
  BY <1>1, <1>3 DEF EquationsOnce, Balanced, Balance, Lossless
<1>6. EquationsOnce' <=> \A ops \in Op \X Op : Balanced(ops)'
  BY <1>2, <1>4 DEF EquationsOnce, Balanced, Balance, Lossless
<1> QED BY <1>5, <1>6

(* Each step moves at most one equation from one place to the next.        *)
LEMMA CalOnceStep ==
    CalTypeOK /\ CalTypeOK' /\ EquationsOnce /\ [CalNext]_calVars => EquationsOnce'
PROOF
<1> SUFFICES ASSUME CalTypeOK, CalTypeOK', EquationsOnce, [CalNext]_calVars,
                    NEW ops \in Op \X Op, Balanced(ops)
             PROVE  Balanced(ops)'
  BY EquationsBalanced DEF CalTypeOK
<1> DEFINE A == Cardinality(Asked(ops))
           P == Cardinality(Printed(ops))
           Q == Cardinality(Positions(queue, MessagesAbout(ops)))
           C == Cardinality(CarriersOf(ops))
<1>0. /\ A \in Nat /\ P \in Nat /\ Q \in Nat /\ C \in Nat /\ Balance(Lossless, A, P, Q, C)
      /\ queue \in Seq(CalMsg) /\ qid \in Nat /\ calServerKills \in Nat
  <2>1. queue \in Seq(CalMsg) /\ qid \in Nat /\ calServerKills \in Nat
    BY QueueAssumption, CalAssumption DEF CalTypeOK
  <2> QED BY <2>1, EquationSets, EquationPositions DEF Balanced
<1> DEFINE A2 == Cardinality(Asked(ops)')
           P2 == Cardinality(Printed(ops)')
           Q2 == Cardinality(Positions(queue', MessagesAbout(ops)))
           C2 == Cardinality(CarriersOf(ops)')
<1> SUFFICES Balance(Lossless', A2, P2, Q2, C2)
  BY DEF Balanced
<1> HIDE DEF A, P, Q, C, A2, P2, Q2, C2
<1>1. ASSUME NEW c \in Client, Exec(c) PROVE Balance(Lossless', A2, P2, Q2, C2)
  <2>1. Asked(ops)' = Asked(ops) /\ Printed(ops)' = Printed(ops)
    BY <1>1 DEF CalTypeOK, Exec, Asked, Printed
  <2>2. CarriersOf(ops)' = CarriersOf(ops) /\ queue' = queue
        /\ qid' = qid /\ calServerKills' = calServerKills
    BY <1>1 DEF Exec, queueVars, calServerVars, calKills, CarriersOf
  <2> QED BY <1>0, <2>1, <2>2 DEF Balance, Lossless, A, P, Q, C, A2, P2, Q2, C2
<1>2. ASSUME NEW c \in Client, Ask(c) PROVE Balance(Lossless', A2, P2, Q2, C2)
  <2>1. /\ CalRequest(c) \in CalMsg
        /\ CalRequest(c) \in MessagesAbout(ops) <=> calArg[c] = ops
    <3>1. calArg[c] \in Op \X Op
      BY <1>2 DEF Ask, CalTypeOK
    <3>2. CalRequest(c) \in CalMsg
      BY <3>1 DEF CalRequest, CalMsg
    <3>3. About(CalRequest(c), ops) <=> calArg[c] = ops
      BY <3>1 DEF CalRequest, About
    <3> QED BY <3>2, <3>3 DEF MessagesAbout
  <2>2. /\ queue' = Append(queue, CalRequest(c)) /\ qid' = qid
        /\ calServerKills' = calServerKills /\ CarriersOf(ops)' = CarriersOf(ops)
    BY <1>2 DEF Ask, MsgSnd, calServerVars, calKills, CarriersOf
  <2>3. /\ Asked(ops)' = IF calArg[c] = ops THEN Asked(ops) \cup {c} ELSE Asked(ops)
        /\ c \notin Asked(ops) /\ Printed(ops)' = Printed(ops)
    BY <1>2 DEF Ask, CalTypeOK, Asked, Printed
  <2>4. Q2 = IF calArg[c] = ops THEN Q + 1 ELSE Q
    BY <1>0, <2>1, <2>2, CountAppend DEF Q, Q2
  <2>5. A2 = IF calArg[c] = ops THEN A + 1 ELSE A
    BY <2>3, EquationSets, FS_AddElement DEF A, A2
  <2>6. P2 = P /\ C2 = C
    BY <2>2, <2>3 DEF P, P2, C, C2
  <2> QED BY <1>0, <2>2, <2>4, <2>5, <2>6 DEF Balance, Lossless
<1>3. ASSUME NEW c \in Client, Receive(c) PROVE Balance(Lossless', A2, P2, Q2, C2)
  <2>1. PICK i \in 1..Len(queue) :
           MsgRcv(calCid[c], MTYPE_S2C, i) /\ printed' = [printed EXCEPT ![c] = queue[i]]
    BY <1>3 DEF Receive
  <2>2. queue[i] \in CalMsg
    BY <1>0, ElementOfSeq
  <2>3. queue[i] \in MessagesAbout(ops) <=> About(queue[i], ops)
    BY <2>2 DEF MessagesAbout
  <2>4. /\ queue' = RemoveAt(queue, i) /\ qid' = qid
        /\ calServerKills' = calServerKills /\ CarriersOf(ops)' = CarriersOf(ops)
    BY <1>3, <2>1 DEF Receive, MsgRcv, calServerVars, calKills, CarriersOf
  <2>5. /\ Asked(ops)' = Asked(ops)
        /\ Printed(ops)' = IF About(queue[i], ops) THEN Printed(ops) \cup {c} ELSE Printed(ops)
        /\ c \notin Printed(ops)
    <3>1. calPc[c] = "rcv" /\ calPc' = [calPc EXCEPT ![c] = "done"] /\ calArg' = calArg
      BY <1>3 DEF Receive
    <3>2. printed'[c] = queue[i] /\ \A d \in Client \ {c} : printed'[d] = printed[d]
      BY <2>1 DEF CalTypeOK
    <3> QED BY <3>1, <3>2 DEF CalTypeOK, Asked, Printed
  <2>6. Q2 = IF About(queue[i], ops) THEN Q - 1 ELSE Q
    BY <1>0, <2>3, <2>4, CountRemove DEF Q, Q2
  <2>7. P2 = IF About(queue[i], ops) THEN P + 1 ELSE P
    BY <2>5, EquationSets, FS_AddElement DEF P, P2
  <2>8. A2 = A /\ C2 = C
    BY <2>4, <2>5 DEF A, A2, C, C2
  <2> QED BY <1>0, <2>4, <2>6, <2>7, <2>8 DEF Balance, Lossless
<1>4. ASSUME NEW c \in Client, CalClientError(c) \/ CalClientKill(c)
      PROVE  Balance(Lossless', A2, P2, Q2, C2)
  <2>1. /\ calPc' = [calPc EXCEPT ![c] = IF @ = "snd" THEN "off" ELSE "lost"]
        /\ calPc[c] \in {"snd", "rcv"} /\ calArg' = calArg /\ printed' = printed
        /\ queue' = queue /\ qid' = qid /\ calServerKills' = calServerKills
        /\ CarriersOf(ops)' = CarriersOf(ops)
    BY <1>4 DEF CalClientError, CalClientKill, CalClientGone, calKills, queueVars,
                calServerVars, CarriersOf
  <2>2. Asked(ops)' = Asked(ops) /\ Printed(ops)' = Printed(ops)
    BY <2>1 DEF CalTypeOK, Asked, Printed
  <2> QED BY <1>0, <2>1, <2>2 DEF Balance, Lossless, A, P, Q, C, A2, P2, Q2, C2
<1>5. ASSUME NEW s \in Calculator, CalServerExec(s) \/ CalServerError(s)
      PROVE  Balance(Lossless', A2, P2, Q2, C2)
  <2>1. /\ queue' = queue /\ qid' = qid /\ calServerKills' = calServerKills
        /\ Asked(ops)' = Asked(ops) /\ Printed(ops)' = Printed(ops)
    BY <1>5 DEF CalServerExec, CalServerError, CalServerGone, queueVars, calClientVars, calKills,
                Asked, Printed
  <2>2. CarriersOf(ops)' = CarriersOf(ops)
    <3>1. s \notin CarriersOf(ops) /\ s \notin CarriersOf(ops)'
      BY <1>5 DEF CalServerExec, CalServerError, CalServerGone, Removed, CalTypeOK, CarriersOf
    <3>2. \A t \in Calculator \ {s} :
             calSpc'[t] = calSpc[t] /\ calSid'[t] = calSid[t] /\ calSbuf'[t] = calSbuf[t]
      BY <1>5 DEF CalServerExec, CalServerError, CalServerGone, CalTypeOK
    <3> QED BY <2>1, <3>1, <3>2 DEF CarriersOf
  <2> QED BY <1>0, <2>1, <2>2 DEF Balance, Lossless, A, P, Q, C, A2, P2, Q2, C2
<1>6. ASSUME NEW s \in Calculator, Take(s) PROVE Balance(Lossless', A2, P2, Q2, C2)
  <2>1. PICK i \in 1..Len(queue) :
           /\ MsgRcv(calSid[s], MTYPE_C2S, i)
           /\ calSbuf' = [calSbuf EXCEPT ![s] = Multiplied(queue[i])]
    BY <1>6 DEF Take
  <2>2. queue[i] \in CalMsg
    BY <1>0, ElementOfSeq
  <2>3. /\ queue[i] \in MessagesAbout(ops) <=> About(queue[i], ops)
        /\ About(Multiplied(queue[i]), ops) <=> About(queue[i], ops)
    BY <2>2, MultipliedType DEF MessagesAbout, About
  <2>4. /\ queue' = RemoveAt(queue, i) /\ qid' = qid /\ calSid[s] = qid
        /\ calServerKills' = calServerKills
        /\ Asked(ops)' = Asked(ops) /\ Printed(ops)' = Printed(ops)
    BY <1>6, <2>1 DEF Take, MsgRcv, calClientVars, calKills, Asked, Printed
  <2>5. /\ CarriersOf(ops)' = IF About(queue[i], ops) THEN CarriersOf(ops) \cup {s}
                                                      ELSE CarriersOf(ops)
        /\ s \notin CarriersOf(ops)
    <3>1. calSpc[s] = "rcv" /\ calSpc' = [calSpc EXCEPT ![s] = "snd"] /\ calSid' = calSid
      BY <1>6 DEF Take
    <3>2. calSbuf'[s] = Multiplied(queue[i])
          /\ \A t \in Calculator \ {s} : calSbuf'[t] = calSbuf[t]
      BY <2>1 DEF CalTypeOK
    <3> QED BY <2>3, <2>4, <3>1, <3>2 DEF CalTypeOK, CarriersOf
  <2>6. Q2 = IF About(queue[i], ops) THEN Q - 1 ELSE Q
    BY <1>0, <2>3, <2>4, CountRemove DEF Q, Q2
  <2>7. C2 = IF About(queue[i], ops) THEN C + 1 ELSE C
    BY <2>5, EquationSets, FS_AddElement DEF C, C2
  <2>8. A2 = A /\ P2 = P
    BY <2>4 DEF A, A2, P, P2
  <2> QED BY <1>0, <2>4, <2>6, <2>7, <2>8 DEF Balance, Lossless
<1>7. ASSUME NEW s \in Calculator, Reply(s) PROVE Balance(Lossless', A2, P2, Q2, C2)
  <2>1. calSbuf[s] \in CalMsg
    BY <1>7 DEF Reply, CalTypeOK
  <2>2. calSbuf[s] \in MessagesAbout(ops) <=> About(calSbuf[s], ops)
    BY <2>1 DEF MessagesAbout
  <2>3. /\ queue' = Append(queue, calSbuf[s]) /\ qid' = qid /\ calSid[s] = qid
        /\ calServerKills' = calServerKills
        /\ Asked(ops)' = Asked(ops) /\ Printed(ops)' = Printed(ops)
    BY <1>7 DEF Reply, MsgSnd, calClientVars, calKills, Asked, Printed
  <2>4. /\ CarriersOf(ops)' = CarriersOf(ops) \ {s}
        /\ s \in CarriersOf(ops) <=> About(calSbuf[s], ops)
    BY <1>7, <2>3 DEF Reply, CalTypeOK, CarriersOf
  <2>5. Q2 = IF About(calSbuf[s], ops) THEN Q + 1 ELSE Q
    BY <1>0, <2>1, <2>2, <2>3, CountAppend DEF Q, Q2
  <2>6. C2 = IF About(calSbuf[s], ops) THEN C - 1 ELSE C
    BY <2>4, EquationSets, FS_RemoveElement DEF C, C2
  <2>7. A2 = A /\ P2 = P
    BY <2>3 DEF A, A2, P, P2
  <2> QED BY <1>0, <2>3, <2>5, <2>6, <2>7 DEF Balance, Lossless
<1>8. ASSUME NEW s \in Calculator, CalServerKill(s) PROVE Balance(Lossless', A2, P2, Q2, C2)
  <2>1. /\ queue' = queue /\ calServerKills' = calServerKills + 1
        /\ Asked(ops)' = Asked(ops) /\ Printed(ops)' = Printed(ops)
        /\ CarriersOf(ops)' = CarriersOf(ops) \ {s}
    BY <1>8 DEF CalServerKill, CalServerGone, queueVars, calClientVars, Asked, Printed,
                CalTypeOK, CarriersOf
  <2>2. C2 <= C /\ C2 \in Nat
    <3>1. /\ IsFiniteSet(CarriersOf(ops)')
          /\ C2 = IF s \in CarriersOf(ops) THEN C - 1 ELSE C
      BY <2>1, EquationSets, FS_RemoveElement DEF C, C2
    <3>2. C2 \in Nat
      BY <3>1, FS_CardinalityType DEF C2
    <3> QED BY <1>0, <3>1, <3>2
  <2>3. A2 = A /\ P2 = P /\ Q2 = Q
    BY <2>1 DEF A, A2, P, P2, Q, Q2
  <2> QED BY <1>0, <2>1, <2>2, <2>3 DEF Balance, Lossless
<1>9. CASE CalRemoveQueue
  <2>1. /\ queue' = <<>> /\ qid' = qid + 1 /\ calSid' = calSid
        /\ Asked(ops)' = Asked(ops) /\ Printed(ops)' = Printed(ops)
    BY <1>9 DEF CalRemoveQueue, IpcRmid, calClientVars, calServerVars, Asked, Printed
  <2>2. CarriersOf(ops)' = {}
    <3>1. \A s \in Calculator : calSid[s] # qid + 1
      BY <1>0 DEF CalTypeOK
    <3> QED BY <2>1, <3>1 DEF CarriersOf
  <2>3. Q2 = 0 /\ C2 = 0
    BY <2>1, <2>2, CountEmpty, FS_EmptySet DEF Q2, C2
  <2>4. A2 = A /\ P2 = P
    BY <2>1 DEF A, A2, P, P2
  <2> QED BY <1>0, <2>1, <2>3, <2>4 DEF Balance, Lossless
<1>10. CASE UNCHANGED calVars
  <2>1. /\ queue' = queue /\ qid' = qid /\ calServerKills' = calServerKills
        /\ Asked(ops)' = Asked(ops) /\ Printed(ops)' = Printed(ops)
        /\ CarriersOf(ops)' = CarriersOf(ops)
    BY <1>10 DEF calVars, queueVars, calClientVars, calServerVars, calKills, Asked, Printed,
                 CarriersOf
  <2> QED BY <1>0, <2>1 DEF Balance, Lossless, A, P, Q, C, A2, P2, Q2, C2
<1> QED BY <1>1, <1>2, <1>3, <1>4, <1>5, <1>6, <1>7, <1>8, <1>9, <1>10 DEF CalNext

LEMMA CalOnceInit == CalInit => EquationsOnce
PROOF
<1> SUFFICES ASSUME CalInit, NEW ops \in Op \X Op
             PROVE  Cardinality(Printed(ops)) + Underway(ops) = Cardinality(Asked(ops))
  BY EquationSets DEF EquationsOnce
<1>1. /\ Asked(ops) = {} /\ Printed(ops) = {}
      /\ {i \in 1..Len(queue) : About(queue[i], ops)} = {}
      /\ {s \in Calculator : calSpc[s] = "snd" /\ calSid[s] = qid /\ About(calSbuf[s], ops)} = {}
  BY DEF CalInit, QueueInit, Asked, Printed
<1>2. Underway(ops) = 0 + 0
  BY <1>1, FS_EmptySet DEF Underway
<1> QED BY <1>1, <1>2, FS_EmptySet

THEOREM CalInvariantHolds == CalSpec => []CalInv
PROOF
<1>1. CalInit => CalInv
  BY CalTypeInit, CalOnceInit DEF CalInv
<1>2. CalInv /\ [CalNext]_calVars => CalInv'
  BY CalTypeStep, CalOnceStep DEF CalInv
<1> QED BY <1>1, <1>2, PTL DEF CalSpec

(* No equation is lost but by the kill of a server or the removal of the   *)
(* queue, and none is answered twice, for any number of clients, servers   *)
(* and equal requests (cal_client.c:38-49, cal_server.c:34-47).            *)
THEOREM EquationsAnsweredOnce == CalSpec => []EquationsOnce
PROOF BY CalInvariantHolds, PTL DEF CalInv

(* Whoever gets a reply prints a true equation (cal_server.c:39-41,        *)
(* cal_client.c:49), if not the one asked for.                             *)
THEOREM EquationsAreTrue == CalSpec => []EquationsTrue
PROOF BY CalInvariantHolds, PTL DEF CalInv
=============================================================================
