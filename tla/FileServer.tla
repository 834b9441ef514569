----------------------------- MODULE FileServer -----------------------------
(***************************************************************************)
(* EX03-13: processes that run file_client ask processes that run          *)
(* file_server for the size and mode of a file, over one message queue.    *)
(* A request has type MTYPE_C2S, a reply has the pid of the client as its  *)
(* type.  Any process may be killed between two calls, a pid that has      *)
(* terminated may be given to a new client, several servers may run, and   *)
(* the operator may remove the queue with msgctl IPC_RMID at any time.     *)
(***************************************************************************)
EXTENDS MsgQueue

CONSTANTS
    Pid,            \* pids a client can get
    Server,         \* processes that can run file_server
    Name,           \* file names shorter than MAX_FNAME (a longer one exits)
    Stat,           \* what stat() finds: [Name -> sizes \cup {NoFile}]
    NoFile          \* stat() == -1

ASSUME FileServerAssumption ==
    /\ IsFiniteSet(Pid)
    /\ IsFiniteSet(Server)
    /\ MTYPE_C2S \notin Pid      \* no client is process 1
    /\ DOMAIN Stat = Name
    /\ MaxClientKill \in Nat
    /\ MaxServerKill \in Nat

VARIABLES
    pc,             \* per pid: where the client is
    arg,            \* per pid: argv[1]
    cid,            \* per pid: id_msg
    cbuf,           \* per pid: msgbuf
    spc,            \* per server: where it is
    sid,            \* per server: id_msg
    sbuf,           \* per server: msgbuf
    clientKills, serverKills

clientVars == <<pc, arg, cid, cbuf>>
serverVars == <<spc, sid, sbuf>>
kills == <<clientKills, serverKills>>
vars == <<queueVars, clientVars, serverVars, kills>>

(* struct msg_buf; size stands for the fields size and mode.               *)
Msg == [mtype : Pid \cup {MTYPE_C2S}, pid : Pid, fname : Name,
        valid : {0, 1, Junk}, size : {Stat[n] : n \in Name} \cup {Junk}]

Blank == [mtype |-> Junk, pid |-> Junk, fname |-> Junk, valid |-> Junk, size |-> Junk]

ClientLive == {"snd", "rcv"}
ServerLive == {"rcv", "stat", "snd"}

Init ==
    /\ QueueInit
    /\ pc = [p \in Pid |-> "off"]
    /\ arg = [p \in Pid |-> Junk]
    /\ cid = [p \in Pid |-> 0]
    /\ cbuf = [p \in Pid |-> Blank]
    /\ spc = [s \in Server |-> "off"]
    /\ sid = [s \in Server |-> 0]
    /\ sbuf = [s \in Server |-> Blank]
    /\ clientKills = 0 /\ serverKills = 0
-----------------------------------------------------------------------------
(* The client. *)

(* The request as main() fills it: valid, size and mode are not set.       *)
Request(p, n) ==
    [mtype |-> MTYPE_C2S, pid |-> p, fname |-> n, valid |-> Junk, size |-> Junk]

(* A new process gets the free pid p and runs file_client n, up to msgget. *)
ClientExec(p, n) ==
    /\ pc[p] \notin ClientLive
    /\ pc' = [pc EXCEPT ![p] = "snd"]
    /\ arg' = [arg EXCEPT ![p] = n]
    /\ cid' = [cid EXCEPT ![p] = qid]
    /\ cbuf' = [cbuf EXCEPT ![p] = Request(p, n)]
    /\ UNCHANGED <<queueVars, serverVars, kills>>

(* Mutant: the client sends its request again before it waits.             *)
ClientSendAgain(p) ==
    /\ pc[p] = "snd"
    /\ MsgSnd(cid[p], cbuf[p])
    /\ \E then \in {"snd", "rcv"} : pc' = [pc EXCEPT ![p] = then]
    /\ UNCHANGED <<arg, cid, cbuf, serverVars, kills>>

ClientSend(p) ==
    /\ pc[p] = "snd"
    /\ MsgSnd(cid[p], cbuf[p])
    /\ pc' = [pc EXCEPT ![p] = "rcv"]
    /\ UNCHANGED <<arg, cid, cbuf, serverVars, kills>>

(* Mutant: the client asks for the type it sent.                           *)
ReplyTypeSent(p) == MTYPE_C2S

(* The type msgrcv asks for: the client's own pid.                         *)
ReplyType(p) == p

(* The reply is received, printed, and the client exits with success.      *)
ClientReceive(p) ==
    /\ pc[p] = "rcv"
    /\ \E i \in 1..Len(queue) :
          /\ MsgRcv(cid[p], ReplyType(p), i)
          /\ cbuf' = [cbuf EXCEPT ![p] = queue[i]]
    /\ pc' = [pc EXCEPT ![p] = "done"]
    /\ cid' = [cid EXCEPT ![p] = 0]
    /\ UNCHANGED <<arg, serverVars, kills>>

(* The process ends without having printed an answer.                      *)
ClientGone(p) ==
    /\ pc' = [pc EXCEPT ![p] = "off"]
    /\ arg' = [arg EXCEPT ![p] = Junk]
    /\ cid' = [cid EXCEPT ![p] = 0]
    /\ cbuf' = [cbuf EXCEPT ![p] = Blank]

(* Mutant: a failed msgrcv is retried on the same identifier.              *)
ClientErrorOnSend(p) ==
    /\ pc[p] = "snd"
    /\ Removed(cid[p])
    /\ ClientGone(p)
    /\ UNCHANGED <<queueVars, serverVars, kills>>

(* msgsnd or msgrcv returns -1: the client exits with failure.             *)
ClientError(p) ==
    /\ pc[p] \in ClientLive
    /\ Removed(cid[p])
    /\ ClientGone(p)
    /\ UNCHANGED <<queueVars, serverVars, kills>>

ClientKill(p) ==
    /\ clientKills < MaxClientKill
    /\ pc[p] \in ClientLive
    /\ ClientGone(p)
    /\ clientKills' = clientKills + 1
    /\ UNCHANGED <<queueVars, serverVars, serverKills>>
-----------------------------------------------------------------------------
(* The server. *)

ServerExec(s) ==
    /\ spc[s] \notin ServerLive
    /\ spc' = [spc EXCEPT ![s] = "rcv"]
    /\ sid' = [sid EXCEPT ![s] = qid]
    /\ UNCHANGED <<queueVars, clientVars, sbuf, kills>>

ServerReceive(s) ==
    /\ spc[s] = "rcv"
    /\ \E i \in 1..Len(queue) :
          /\ MsgRcv(sid[s], MTYPE_C2S, i)
          /\ sbuf' = [sbuf EXCEPT ![s] = queue[i]]
    /\ spc' = [spc EXCEPT ![s] = "stat"]
    /\ UNCHANGED <<clientVars, sid, kills>>

Found(m) == Stat[m.fname] # NoFile

(* Mutants: valid is what stat() returned; valid is set on success only.   *)
AnswerReturnCode(m) ==
    [m EXCEPT !.mtype = m.pid,
              !.valid = IF Found(m) THEN 0 ELSE -1,
              !.size = IF Found(m) THEN Stat[m.fname] ELSE @]

AnswerValidOnSuccess(m) ==
    [m EXCEPT !.mtype = m.pid,
              !.valid = IF Found(m) THEN 1 ELSE @,
              !.size = IF Found(m) THEN Stat[m.fname] ELSE @]

(* The message turned into its reply: size and mode only if stat succeeds. *)
Answer(m) ==
    [mtype |-> m.pid, pid |-> m.pid, fname |-> m.fname,
     valid |-> IF Found(m) THEN 1 ELSE 0,
     size |-> IF Found(m) THEN Stat[m.fname] ELSE m.size]

ServerStat(s) ==
    /\ spc[s] = "stat"
    /\ sbuf' = [sbuf EXCEPT ![s] = Answer(sbuf[s])]
    /\ spc' = [spc EXCEPT ![s] = "snd"]
    /\ UNCHANGED <<queueVars, clientVars, sid, kills>>

(* Mutants: a file that does not exist gets no reply; a reply may be sent  *)
(* a second time.                                                          *)
ServerReplyIfFound(s) ==
    /\ spc[s] = "snd"
    /\ IF sbuf[s].valid = 1 THEN MsgSnd(sid[s], sbuf[s]) ELSE UNCHANGED queueVars
    /\ spc' = [spc EXCEPT ![s] = "rcv"]
    /\ sbuf' = [sbuf EXCEPT ![s] = Blank]
    /\ UNCHANGED <<clientVars, sid, kills>>

ServerReplyAgain(s) ==
    /\ spc[s] = "snd"
    /\ MsgSnd(sid[s], sbuf[s])
    /\ \/ spc' = [spc EXCEPT ![s] = "rcv"] /\ sbuf' = [sbuf EXCEPT ![s] = Blank]
       \/ UNCHANGED <<spc, sbuf>>
    /\ UNCHANGED <<clientVars, sid, kills>>

(* msgbuf is dead after msgsnd: the next msgrcv overwrites every byte of   *)
(* it, as all messages have the same size.                                 *)
ServerReply(s) ==
    /\ spc[s] = "snd"
    /\ MsgSnd(sid[s], sbuf[s])
    /\ spc' = [spc EXCEPT ![s] = "rcv"]
    /\ sbuf' = [sbuf EXCEPT ![s] = Blank]
    /\ UNCHANGED <<clientVars, sid, kills>>

ServerGone(s) ==
    /\ spc' = [spc EXCEPT ![s] = "off"]
    /\ sid' = [sid EXCEPT ![s] = 0]
    /\ sbuf' = [sbuf EXCEPT ![s] = Blank]

(* msgrcv or msgsnd returns -1: the server exits with failure.             *)
ServerError(s) ==
    /\ spc[s] \in {"rcv", "snd"}
    /\ Removed(sid[s])
    /\ ServerGone(s)
    /\ UNCHANGED <<queueVars, clientVars, kills>>

ServerKill(s) ==
    /\ serverKills < MaxServerKill
    /\ spc[s] \in ServerLive
    /\ ServerGone(s)
    /\ serverKills' = serverKills + 1
    /\ UNCHANGED <<queueVars, clientVars, clientKills>>

RemoveQueue == IpcRmid /\ UNCHANGED <<clientVars, serverVars, kills>>
-----------------------------------------------------------------------------
ClientStep(p) == ClientSend(p) \/ ClientReceive(p) \/ ClientError(p)
ServerStep(s) ==
    ServerReceive(s) \/ ServerStat(s) \/ ServerReply(s) \/ ServerError(s)

Next ==
    \/ \E p \in Pid : ClientStep(p) \/ ClientKill(p) \/ \E n \in Name : ClientExec(p, n)
    \/ \E s \in Server : ServerStep(s) \/ ServerKill(s) \/ ServerExec(s)
    \/ RemoveQueue

Spec == Init /\ [][Next]_vars

(* A process that can take its next step eventually takes it; nobody has   *)
(* to start a process, to kill one or to remove the queue.                 *)
Fairness ==
    /\ \A p \in Pid : WF_vars(ClientStep(p))
    /\ \A s \in Server : WF_vars(ServerStep(s))

FairSpec == Spec /\ Fairness
-----------------------------------------------------------------------------
(* Type correctness of the queue, the clients and the servers.             *)
TypeOK ==
    /\ queue \in Seq(Msg) /\ Len(queue) <= Capacity
    /\ qid \in 0..MaxRmid
    /\ pc \in [Pid -> ClientLive \cup {"off", "done"}]
    /\ arg \in [Pid -> Name \cup {Junk}]
    /\ cid \in [Pid -> 0..MaxRmid]
    /\ cbuf \in [Pid -> Msg \cup {Blank}]
    /\ \A p \in Pid : pc[p] \in ClientLive \cup {"done"} => cbuf[p] \in Msg
    /\ spc \in [Server -> ServerLive \cup {"off"}]
    /\ sid \in [Server -> 0..MaxRmid]
    /\ sbuf \in [Server -> Msg \cup {Blank}]
    /\ \A s \in Server : spc[s] \in {"stat", "snd"} => sbuf[s] \in Msg
    /\ clientKills \in 0..MaxClientKill
    /\ serverKills \in 0..MaxServerKill

(* Clients that wait for an answer on the current queue, and servers that  *)
(* hold a request taken from it.                                           *)
Waiting == {p \in Pid : pc[p] = "rcv" /\ cid[p] = qid}
Handling == {s \in Server : spc[s] \in {"stat", "snd"} /\ sid[s] = qid}
InFlight == Len(queue) + Cardinality(Handling)

(* Conservation.  Every message of the system belongs to a client that     *)
(* waits or was killed, and every client that waits has its message in the *)
(* queue or in a server unless a server was killed with a request in hand: *)
(* no error path or removal of the queue (file_server.c:34-56) loses or    *)
(* duplicates a request that a live client still waits for.                *)
Conservation ==
    /\ InFlight <= Cardinality(Waiting) + clientKills
    /\ Cardinality(Waiting) <= InFlight + serverKills

(* If the queue holds a message per client and one per killed client, then *)
(* neither a server nor a client ever blocks in msgsnd (file_server.c:51,  *)
(* file_client.c:47), so requests cannot fill the queue and leave no room  *)
(* for the replies that would empty it.                                    *)
NoSendBlocks ==
    Capacity >= Cardinality(Pid) + MaxClientKill =>
        /\ \A s \in Server : spc[s] = "snd" /\ sid[s] = qid => Len(queue) < Capacity
        /\ \A p \in Pid : pc[p] = "snd" /\ cid[p] = qid => Len(queue) < Capacity

(* While no client was killed, what a client prints (file_client.c:59-64)  *)
(* is about the file it was started with, whatever the interleaving of the *)
(* clients, the servers and the removals of the queue.                     *)
OwnAnswer ==
    clientKills = 0 => \A p \in Pid : pc[p] = "done" => cbuf[p].fname = arg[p]

(* Even a reply left for an earlier process with the same pid tells the    *)
(* truth about the file it names: valid is what stat() said and a size is  *)
(* printed only if stat() wrote it, never the uninitialised field of the   *)
(* request (file_client.c:43-45, file_server.c:41-48).                     *)
TrueAnswer ==
    \A p \in Pid : pc[p] = "done" =>
        /\ cbuf[p].pid = p
        /\ cbuf[p].valid = (IF Stat[cbuf[p].fname] = NoFile THEN 0 ELSE 1)
        /\ cbuf[p].valid = 1 => cbuf[p].size = Stat[cbuf[p].fname]

(* The message about client p that is somewhere in the system.             *)
InFlightFor(p) ==
    \/ \E i \in 1..Len(queue) : queue[i].pid = p
    \/ \E s \in Handling : sbuf[s].pid = p

(* A client blocked in msgrcv (file_client.c:53) gets an answer or an      *)
(* error, unless every server is down or a server was killed with its      *)
(* request in hand.                                                        *)
Answered ==
    \A p \in Pid :
        pc[p] = "rcv" ~> \/ pc[p] # "rcv"
                         \/ serverKills > 0 /\ ~InFlightFor(p)
                         \/ \A s \in Server : spc[s] \notin ServerLive

(* What the clients of the service may rely on: RpcService with the        *)
(* requests of a pid counted wherever their message is.                    *)
Pending(p, n) ==
    Cardinality({i \in 1..Len(queue) : queue[i].pid = p /\ queue[i].fname = n})
      + Cardinality({s \in Handling : sbuf[s].pid = p /\ sbuf[s].fname = n})

Status(p) ==
    CASE pc[p] = "rcv" -> IF cid[p] = qid THEN "asked" ELSE "idle"
      [] pc[p] = "done" -> "answered"
      [] OTHER -> "idle"

Service == INSTANCE RpcService WITH
    Client <- Pid,
    status <- [p \in Pid |-> Status(p)],
    answer <- [p \in Pid |-> IF pc[p] = "done" THEN cbuf[p].fname ELSE Junk],
    pending <- [p \in Pid |-> [n \in Name |-> Pending(p, n)]],
    None <- Junk

ImplementsService == Service!Spec
=============================================================================
