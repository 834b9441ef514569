----------------------------- MODULE EchoServer -----------------------------
(***************************************************************************)
(* The echo servers that are one process: EX07-01 serves one client after  *)
(* the other ("tcp"), EX07-03 does and waits in select with a time-out     *)
(* ("timeout"), EX07-04 serves all clients from one select loop ("multi"), *)
(* EX07-06 creates a thread per client ("thread").  Init chooses the       *)
(* program.  The loop read - write is the same in all; what differs is who *)
(* runs it and when.  Descriptors are numbers: accept takes the lowest     *)
(* that is free.  The thread of a client gets the address of main's        *)
(* variable sfd_client and reads it when it starts.                        *)
(***************************************************************************)
EXTENDS TcpSock, FiniteSets, FiniteSetsExt

CONSTANTS
    Program,      \* programs to choose from
    None,         \* no client
    Bytes,        \* bound: bytes a client sends
    Cap           \* bytes on the way to a client that make a write block

ASSUME EchoAssumption ==
    /\ Program \subseteq {"tcp", "timeout", "multi", "thread"}
    /\ Process = {Main} /\ Main \notin Client /\ None \notin Client
    /\ IsFiniteSet(Client) /\ Bytes \in Nat /\ Cap \in Nat \ {0}

ServerFd == 3
Fd == 4..(3 + Cardinality(Client))
Thread == {Main} \cup Client      \* main's, and the one created for a client

VARIABLES
    prog,
    main,         \* accept, arm, select, scan, serve, create or off
    sfd_client,   \* main's variable, 0 at first
    newest,       \* history: the client main accepted last
    table,        \* per descriptor: its connection
    rfd, tfd,     \* the sets of select
    thr,          \* per thread: the loop's pc, fd and buf
    sent, got,    \* per client: bytes sent, received
    raced         \* history: a thread read another sfd_client than it was created for

mainVars == <<main, sfd_client, newest>>
sets == <<rfd, tfd>>
clientVars == <<sent, got>>
vars == <<sockVars, prog, mainVars, table, sets, thr, clientVars, raced>>

Bit == Client \X (1..Bytes)
Free == {n \in Fd : table[n] = None}
Loop == [pc : {"none", "start", "read", "write", "off"}, fd : Fd \cup {0}, buf : Seq(Bit)]

TypeOK ==
    /\ SockTypeOK
    /\ prog \in Program
    /\ main \in {"accept", "arm", "select", "scan", "serve", "create", "off"}
    /\ sfd_client \in Fd \cup {0} /\ newest \in Client \cup {None}
    /\ table \in [Fd -> Client \cup {None}]
    /\ rfd \subseteq {ServerFd} \cup (Fd \ Free) /\ tfd \subseteq rfd
    /\ thr \in [Thread -> Loop]
    /\ sent \in [Client -> 0..Bytes] /\ got \in [Client -> Nat]
    /\ raced \in BOOLEAN

Top == IF prog \in {"timeout", "multi"} THEN "arm" ELSE "accept"

Init ==
    /\ SockInit
    /\ prog \in Program
    /\ main = Top /\ sfd_client = 0 /\ newest = None
    /\ table = [n \in Fd |-> None]
    /\ rfd = (IF Top = "arm" THEN {ServerFd} ELSE {}) /\ tfd = {}
    /\ thr = [t \in Thread |-> [pc |-> "none", fd |-> 0, buf |-> <<>>]]
    /\ sent = [c \in Client |-> 0] /\ got = [c \in Client |-> 0]
    /\ raced = FALSE
-----------------------------------------------------------------------------
(* accept, and what follows it: the client's loop, or a thread for it.     *)

NewFd == Min(Free)
Accepted ==
    /\ SockAccept(Main)
    /\ sfd_client' = NewFd /\ newest' = Head(queue)
    /\ table' = [table EXCEPT ![NewFd] = Head(queue)]

AcceptServe ==
    /\ main = "accept" /\ prog \in {"tcp", "timeout"} /\ Accepted
    /\ main' = "serve"
    /\ thr' = [thr EXCEPT ![Main].pc = "read", ![Main].fd = NewFd]
    /\ UNCHANGED <<prog, sets, clientVars, raced>>

AcceptThread ==
    /\ main = "accept" /\ prog = "thread" /\ Accepted
    /\ main' = "create"
    /\ UNCHANGED <<prog, sets, thr, clientVars, raced>>

CreateThread ==
    /\ main = "create" /\ main' = "accept"
    /\ thr' = [thr EXCEPT ![newest].pc = "start"]
    /\ UNCHANGED <<sockVars, prog, sfd_client, newest, table, sets, clientVars, raced>>

(* Line 23: the thread takes what main has in sfd_client now.              *)
ThreadStart(c) ==
    /\ thr[c].pc = "start"
    /\ thr' = [thr EXCEPT ![c].pc = "read", ![c].fd = sfd_client]
    /\ raced' = (raced \/ table[sfd_client] # c)
    /\ UNCHANGED <<sockVars, prog, mainVars, table, sets, clientVars>>

(* A call fails, or SIGPIPE: the process ends.                             *)
ProcessEnds ==
    /\ SockExit(Main)
    /\ main' = "off" /\ sfd_client' = 0 /\ newest' = None /\ rfd' = {} /\ tfd' = {}
    /\ table' = [n \in Fd |-> None]
    /\ thr' = [t \in Thread |-> [pc |-> "off", fd |-> 0, buf |-> <<>>]]
    /\ UNCHANGED <<prog, clientVars, raced>>

MainFails == main \in {"accept", "select", "scan", "create"} /\ ProcessEnds
-----------------------------------------------------------------------------
(* select: tfd is set to rfd before each call; the call leaves in it what  *)
(* is ready, which is nothing after three seconds.                         *)

Readable(n) ==
    IF n = ServerFd THEN queue # <<>> ELSE rcv[table[n]] # <<>> \/ AtEnd(table[n])
Ready == {n \in tfd : Readable(n)}

(* Mutant: tfd is not set again before the next select.                    *)
ArmOnce ==
    /\ main = "arm" /\ main' = "select"
    /\ UNCHANGED <<sockVars, prog, sfd_client, newest, table, sets, thr, clientVars, raced>>

Arm ==
    /\ main = "arm" /\ main' = "select"
    /\ tfd' = rfd
    /\ UNCHANGED <<sockVars, prog, sfd_client, newest, table, rfd, thr, clientVars, raced>>

SelectReady ==
    /\ main = "select" /\ Ready # {}
    /\ tfd' = Ready
    /\ main' = IF prog = "multi" THEN "scan" ELSE "accept"
    /\ UNCHANGED <<sockVars, prog, sfd_client, newest, table, rfd, thr, clientVars, raced>>

SelectTimeout ==
    /\ main = "select" /\ Ready = {}
    /\ tfd' = {} /\ main' = "arm"
    /\ UNCHANGED <<sockVars, prog, sfd_client, newest, table, rfd, thr, clientVars, raced>>

(* The pass over the descriptors of EX07-04, in ascending order.           *)
Scanning(n) == main = "scan" /\ tfd # {} /\ n = Min(tfd)

ScanAccept ==
    /\ Scanning(ServerFd) /\ Accepted
    /\ rfd' = rfd \cup {NewFd} /\ tfd' = tfd \ {ServerFd}
    /\ UNCHANGED <<prog, main, thr, clientVars, raced>>

ScanServe ==
    /\ \E n \in Fd : Scanning(n) /\ thr' = [thr EXCEPT ![Main].pc = "read", ![Main].fd = n]
    /\ main' = "serve"
    /\ UNCHANGED <<sockVars, prog, sfd_client, newest, table, sets, clientVars, raced>>

ScanDone ==
    /\ main = "scan" /\ tfd = {} /\ main' = "arm"
    /\ UNCHANGED <<sockVars, prog, sfd_client, newest, table, sets, thr, clientVars, raced>>
-----------------------------------------------------------------------------
(* The loop: for a thread t that serves a descriptor.  In EX07-04 it is    *)
(* left after one read.                                                    *)

Idle == [pc |-> "none", fd |-> 0, buf |-> <<>>]

Read(t) ==
    /\ thr[t].pc = "read" /\ table[thr[t].fd] # None
    /\ \E n \in 1..Bytes :
          /\ SockRead(table[thr[t].fd], n)
          /\ thr' = [thr EXCEPT ![t].pc = "write", ![t].buf = SubSeq(rcv[table[thr[t].fd]], 1, n)]
    /\ UNCHANGED <<prog, mainVars, table, sets, clientVars, raced>>

(* After a write: the next read, or the next descriptor of the pass.       *)
Continue(t) ==
    IF t = Main /\ prog = "multi"
    THEN /\ main' = "scan" /\ tfd' = tfd \ {thr[t].fd}
         /\ thr' = [thr EXCEPT ![t] = Idle]
    ELSE /\ thr' = [thr EXCEPT ![t].pc = "read", ![t].buf = <<>>]
         /\ UNCHANGED <<main, tfd>>

(* A write waits for the client to read.                                   *)
Full(c) == Len(snd[c]) >= Cap

(* Mutant: the first byte only.                                            *)
WriteOne(t) ==
    /\ thr[t].pc = "write" /\ table[thr[t].fd] # None
    /\ LET c == table[thr[t].fd] IN
       /\ c \in shut \/ ~Full(c)
       /\ SockWrite(c, <<thr[t].buf[1]>>)
    /\ Continue(t)
    /\ UNCHANGED <<prog, sfd_client, newest, table, rfd, clientVars, raced>>

Write(t) ==
    /\ thr[t].pc = "write" /\ table[thr[t].fd] # None
    /\ LET c == table[thr[t].fd] IN
       /\ c \in shut \/ ~Full(c)
       /\ SockWrite(c, thr[t].buf)
    /\ Continue(t)
    /\ UNCHANGED <<prog, sfd_client, newest, table, rfd, clientVars, raced>>

(* Another thread has closed the descriptor: EBADF, which is not noticed.  *)
WriteClosed(t) ==
    /\ thr[t].pc = "write" /\ table[thr[t].fd] = None
    /\ Continue(t)
    /\ UNCHANGED <<sockVars, prog, sfd_client, newest, table, rfd, clientVars, raced>>

SigPipe(t) ==
    /\ thr[t].pc = "write" /\ table[thr[t].fd] # None /\ BrokenPipe(table[thr[t].fd])
    /\ ProcessEnds

(* Mutant: no FD_CLR.                                                      *)
CloseStaysSet(t) ==
    /\ thr[t].pc = "read"
    /\ IF table[thr[t].fd] = None
       THEN UNCHANGED sockVars
       ELSE AtEnd(table[thr[t].fd]) /\ CloseConn(Main, table[thr[t].fd])
    /\ table' = [table EXCEPT ![thr[t].fd] = None]
    /\ tfd' = tfd \ {thr[t].fd} /\ UNCHANGED rfd
    /\ thr' = [thr EXCEPT ![t] = IF t = Main THEN Idle ELSE [Idle EXCEPT !.pc = "off"]]
    /\ main' = IF t # Main THEN main ELSE IF prog = "multi" THEN "scan" ELSE Top
    /\ UNCHANGED <<prog, sfd_client, newest, clientVars, raced>>

(* len <= 0: close, also of a descriptor that another thread has closed.   *)
Close(t) ==
    /\ thr[t].pc = "read"
    /\ IF table[thr[t].fd] = None
       THEN UNCHANGED sockVars
       ELSE AtEnd(table[thr[t].fd]) /\ CloseConn(Main, table[thr[t].fd])
    /\ table' = [table EXCEPT ![thr[t].fd] = None]
    /\ rfd' = rfd \ {thr[t].fd} /\ tfd' = tfd \ {thr[t].fd}
    /\ thr' = [thr EXCEPT ![t] = IF t = Main THEN Idle ELSE [Idle EXCEPT !.pc = "off"]]
    /\ main' = IF t # Main THEN main ELSE IF prog = "multi" THEN "scan" ELSE Top
    /\ UNCHANGED <<prog, sfd_client, newest, clientVars, raced>>
-----------------------------------------------------------------------------
(* A client.                                                               *)

Send(c) ==
    /\ sent[c] < Bytes
    /\ ClientWrite(c, <<<<c, sent[c] + 1>>>>)
    /\ sent' = [sent EXCEPT ![c] = @ + 1]
    /\ UNCHANGED <<prog, mainVars, table, sets, thr, got, raced>>

Receive(c) ==
    /\ ClientRead(c, 1)
    /\ got' = [got EXCEPT ![c] = @ + 1]
    /\ UNCHANGED <<prog, mainVars, table, sets, thr, sent, raced>>

ConnectStep(c) ==
    /\ Connect(c) \/ Refused(c) \/ ClientClose(c)
    /\ UNCHANGED <<prog, mainVars, table, sets, thr, clientVars, raced>>

MainStep ==
    \/ AcceptServe \/ AcceptThread \/ CreateThread
    \/ Arm \/ SelectReady \/ SelectTimeout \/ ScanAccept \/ ScanServe \/ ScanDone
Echo(t) == Read(t) \/ Write(t) \/ WriteClosed(t) \/ SigPipe(t) \/ Close(t)

Next ==
    \/ MainStep \/ MainFails
    \/ \E t \in Thread : Echo(t)
    \/ \E c \in Client : ThreadStart(c) \/ Send(c) \/ Receive(c) \/ ConnectStep(c)

Spec == Init /\ [][Next]_vars

(* Threads that can run do; clients need not send, read or close.          *)
FairSpec ==
    /\ Spec
    /\ WF_vars(MainStep \/ Echo(Main))
    /\ \A c \in Client : WF_vars(ThreadStart(c) \/ Echo(c))
-----------------------------------------------------------------------------
(* What is in the loops for client c; without a race at most one has any.  *)
Held(c) ==
    IF \E t \in Thread : thr[t].buf # <<>> /\ table[thr[t].fd] = c
    THEN thr[CHOOSE t \in Thread : thr[t].buf # <<>> /\ table[thr[t].fd] = c].buf
    ELSE <<>>

(* "echo back": a client gets the bytes it sent, in order and once.        *)
EchoBack == \A c \in Client : \A i \in DOMAIN snd[c] : snd[c][i] = <<c, got[c] + i>>

(* Unless a thread has read another client's descriptor it does, and gets  *)
(* all of them: those it has not got yet are on the way back, in a loop or *)
(* on the way there.                                                       *)
WholeEcho ==
    raced \/ \A c \in Client : CanSend(c) =>
        snd[c] \o Held(c) \o rcv[c] = [i \in 1..(sent[c] - got[c]) |-> <<c, got[c] + i>>]

(* A byte is echoed, whatever other clients do, unless its own client does *)
(* not read or the connection ends.  A server with one loop may be held up *)
(* by another client: by its connection if it serves one at a time, and if *)
(* it serves all by one that does not read.                                *)
Echoed(c) == got[c] + Len(snd[c])
HeldUp(c) ==
    \/ prog \in {"tcp", "timeout"} /\ \E d \in Client \ {c} : link[d] = "open"
    \/ prog = "multi" /\ \E d \in Client \ {c} : Full(d)
Served ==
    \A c \in Client, k \in 0..(Bytes - 1) :
        (Echoed(c) = k /\ sent[c] > k) ~>
            (Echoed(c) > k \/ Full(c) \/ HeldUp(c) \/ raced \/ c \in shut \/ link[c] = "over")
=============================================================================
