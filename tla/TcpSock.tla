------------------------------ MODULE TcpSock -------------------------------
(***************************************************************************)
(* The sockets of the TCP servers (EX07), kept by the kernel: a listening  *)
(* socket with its queue of connections nobody accepted yet, and one       *)
(* connection per client.  A socket lives while some process holds a       *)
(* descriptor of it: fork copies the descriptors, exit closes them, and a  *)
(* client sees the end of its connection only when the last holder has     *)
(* closed it.  Each direction is a stream without message borders: a read  *)
(* returns any part of what was written, from the front.                   *)
(***************************************************************************)
EXTENDS Integers, Sequences

CONSTANTS
    Client,       \* each connects at most once
    Process,      \* those who hold descriptors on the server's side
    Main,         \* the process that calls listen
    Backlog       \* LISTEN_BACKLOG

ASSUME SockAssumption == Main \in Process /\ Backlog \in Nat \ {0}

VARIABLES
    lsn,          \* processes that hold the listening socket
    queue,        \* connections to accept
    link,         \* per client: new, queued, open or over
    fds,          \* per client: processes that hold the server's end
    shut,         \* clients that closed their end
    rcv, snd      \* per client: what is on the way to the server, to the client

sockVars == <<lsn, queue, link, fds, shut, rcv, snd>>
ends == <<lsn, queue, link, fds>>

SockTypeOK ==
    /\ lsn \subseteq Process
    /\ queue \in Seq(Client)
    /\ link \in [Client -> {"new", "queued", "open", "over"}]
    /\ fds \in [Client -> SUBSET Process]
    /\ shut \subseteq Client

(* socket, bind and listen have succeeded.                                 *)
SockInit ==
    /\ lsn = {Main} /\ queue = <<>> /\ shut = {}
    /\ link = [c \in Client |-> "new"]
    /\ fds = [c \in Client |-> {}]
    /\ rcv = [c \in Client |-> <<>>] /\ snd = [c \in Client |-> <<>>]

(* The holders become l and f: what nobody holds any more is torn down.    *)
Hold(l, f) ==
    /\ lsn' = l /\ fds' = f
    /\ queue' = IF l = {} THEN <<>> ELSE queue
    /\ link' = [c \in Client |->
                  IF \/ link[c] = "open" /\ f[c] = {}
                     \/ link[c] = "queued" /\ l = {}
                  THEN "over" ELSE link[c]]
    /\ UNCHANGED <<shut, rcv, snd>>

CloseListen(p) == Hold(lsn \ {p}, fds)
CloseConn(p, c) == Hold(lsn, [fds EXCEPT ![c] = @ \ {p}])
SockExit(p) == Hold(lsn \ {p}, [c \in Client |-> fds[c] \ {p}])
SockFork(p, q) ==
    Hold(IF p \in lsn THEN lsn \cup {q} ELSE lsn,
         [c \in Client |-> IF p \in fds[c] THEN fds[c] \cup {q} ELSE fds[c]])

SockAccept(p) ==
    /\ p \in lsn /\ queue # <<>>
    /\ link' = [link EXCEPT ![Head(queue)] = "open"]
    /\ fds' = [fds EXCEPT ![Head(queue)] = {p}]
    /\ queue' = Tail(queue)
    /\ UNCHANGED <<lsn, shut, rcv, snd>>

(* read returns n > 0 units; or it returns 0 or -1, which the client's     *)
(* close makes possible at any time after it (a reset discards data).      *)
SockRead(c, n) ==
    /\ n \in 1..Len(rcv[c])
    /\ rcv' = [rcv EXCEPT ![c] = SubSeq(@, n + 1, Len(@))]
    /\ UNCHANGED <<ends, shut, snd>>

AtEnd(c) == c \in shut

(* write succeeds, also when the client is gone ...                        *)
SockWrite(c, data) ==
    /\ snd' = [snd EXCEPT ![c] = IF c \in shut THEN @ ELSE @ \o data]
    /\ UNCHANGED <<ends, shut, rcv>>

(* ... unless its reset has arrived: SIGPIPE ends the process.             *)
BrokenPipe(c) == c \in shut
-----------------------------------------------------------------------------
(* The clients.                                                            *)

Connect(c) ==
    /\ link[c] = "new" /\ lsn # {} /\ Len(queue) < Backlog
    /\ link' = [link EXCEPT ![c] = "queued"]
    /\ queue' = Append(queue, c)
    /\ UNCHANGED <<lsn, fds, shut, rcv, snd>>

Refused(c) ==
    /\ link[c] = "new" /\ lsn = {}
    /\ link' = [link EXCEPT ![c] = "over"]
    /\ UNCHANGED <<lsn, queue, fds, shut, rcv, snd>>

CanSend(c) == link[c] \in {"queued", "open"} /\ c \notin shut

ClientWrite(c, data) ==
    /\ CanSend(c)
    /\ rcv' = [rcv EXCEPT ![c] = @ \o data]
    /\ UNCHANGED <<ends, shut, snd>>

ClientRead(c, n) ==
    /\ c \notin shut
    /\ n \in 1..Len(snd[c])
    /\ snd' = [snd EXCEPT ![c] = SubSeq(@, n + 1, Len(@))]
    /\ UNCHANGED <<ends, shut, rcv>>

(* After the end of the connection this changes nothing.                   *)
ClientClose(c) ==
    /\ CanSend(c)
    /\ shut' = shut \cup {c}
    /\ snd' = [snd EXCEPT ![c] = <<>>]
    /\ UNCHANGED <<ends, rcv>>
=============================================================================
