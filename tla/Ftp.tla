-------------------------------- MODULE Ftp ---------------------------------
(***************************************************************************)
(* EX07-07: a child per client answers QUIT, PWD, LS and GET.  LS and GET  *)
(* go over a data connection: the child listens on a random port, tells    *)
(* the client "OK port", waits in accept, sends, and closes with "OK".     *)
(* Nobody calls srand, so every child draws the same ports.  Descriptors   *)
(* are lost on the way: the socket of a failed bind or listen, the file of *)
(* a GET, the pipe of a failed PWD; at FdMax system calls begin to fail.   *)
(* Unit of the control streams is the line; a client sends one when it has *)
(* its last answer, so that a read returns one line.                       *)
(***************************************************************************)
EXTENDS ForkServer

CONSTANTS
    File, Absent,     \* names in GET; those that cannot be opened
    Rand,             \* the ports rand() gives, in order, from the start again
    Retry,            \* 100 in the code
    FdMax,            \* descriptors a child can have besides stdio
    Inherited,        \* descriptors the server may have been started with
    Script,           \* bound, per client: what it may send first, second, ...
    MaxBusy           \* bound: failures of new_server the model does not explain

Line == {"QUIT", "PWD", "LS", "NOOP"} \cup File
Transfer == {"LS"} \cup File
Port == {Rand[i] : i \in DOMAIN Rand}

ASSUME FtpAssumption ==
    /\ Absent \subseteq File /\ Port \cap {"OK", "ERR"} = {} /\ None \notin Port
    /\ Rand \in Seq(Port) /\ Rand # <<>>
    /\ Retry \in Nat \ {0} /\ FdMax \in Nat \ {0} /\ Inherited \subseteq 0..(FdMax - 1)
    /\ Script \in [Client -> Seq(SUBSET Line)] /\ MaxBusy \in Nat

VARIABLES
    s,            \* per client: the variables of its child, see Session
    cli,          \* per client: what it knows, see User
    inherited,    \* of Inherited
    busy,         \* failures so far
    broken,       \* history: clients whose session broke down or began without a socket
    crossed       \* history: clients whose child served another one

hist == <<inherited, busy, broken, crossed>>
ftpVars == <<sockVars, forkVars, s, cli, hist>>

Data == [from : Client, what : {"list", "empty"} \cup File]

Session == [
    pc : {"read", "run", "new", "listen", "ok", "accept", "send", "sent", "close"},
    line : Line \cup {None},
    retry : 0..Retry,
    drawn : 0..Len(Rand),                     \* calls of rand(), modulo its period
    server : {"none", "bound", "listen", "1"},\* data_server; see OptFails
    queue : Seq(Client),                      \* who waits for accept on data_server
    client : Client \cup {None},              \* data_client
    nfd : 0..FdMax,                           \* open descriptors besides stdio
    lost : 0..FdMax]                          \* history: those that nobody will close

User == [
    asked : Line \cup {None},                 \* the line it waits for an answer to
    asks : Nat,
    told : Port \cup {None},                  \* the port it has to connect to
    data : Data \cup {None}]                  \* whose answer the data connection brought

FtpTypeOK ==
    /\ ForkTypeOK
    /\ s \in [Client -> Session]
    /\ inherited \in Inherited /\ busy \in 0..MaxBusy
    /\ broken \subseteq Client /\ crossed \subseteq Client
    /\ cli \in [Client -> User]

NewSession == [pc |-> "read", line |-> None, retry |-> 0, drawn |-> 0, server |-> "none",
               queue |-> <<>>, client |-> None, nfd |-> 1 + inherited, lost |-> 0]

FtpInit ==
    /\ ForkInit
    /\ inherited \in Inherited
    /\ s = [c \in Client |-> NewSession]
    /\ busy = 0 /\ broken = {} /\ crossed = {}
    /\ cli = [c \in Client |-> [asked |-> None, asks |-> 0, told |-> None, data |-> None]]

At(c, p) == child[c] = "serve" /\ s[c].pc = p
Room(c, n) == s[c].nfd + n <= FdMax
Answer(c, reply) == SockWrite(c, <<reply>>) /\ UNCHANGED <<forkVars, cli, hist>>
Quietly == UNCHANGED <<sockVars, forkVars, cli, hist>>
Leaves(c) ==
    /\ child' = [child EXCEPT ![c] = "done"]
    /\ UNCHANGED <<main, sfd_client, killed, cli, inherited, busy, crossed>>
Breaks(c) ==
    /\ broken' = broken \cup {c} /\ s' = [s EXCEPT ![c] = NewSession]
    /\ UNCHANGED <<cli, inherited, busy, crossed>>
Dies(c) == ChildDies(c) /\ Breaks(c) /\ UNCHANGED killed
-----------------------------------------------------------------------------
(* process_command: the commands without a data connection.                *)

ReceiveLine(c) ==
    /\ At(c, "read") /\ SockRead(c, 1)
    /\ LET l == rcv[c][1] IN
       s' = [s EXCEPT ![c].line = l,
                      ![c].pc = IF l \in Transfer THEN "new" ELSE "run",
                      ![c].retry = IF l \in Transfer THEN Retry ELSE 0]
    /\ UNCHANGED <<forkVars, cli, hist>>

FtpDisconnected(c) == At(c, "read") /\ AtEnd(c) /\ Leaves(c) /\ UNCHANGED <<sockVars, s, broken>>

Quit(c) ==
    /\ At(c, "run") /\ s[c].line = "QUIT"
    /\ SockWrite(c, <<"OK">>) /\ Leaves(c) /\ UNCHANGED <<s, broken>>

(* get_pwd: popen needs two descriptors for a moment.                      *)
Pwd(c) ==
    /\ At(c, "run") /\ s[c].line = "PWD" /\ Room(c, 2) /\ Answer(c, "OK")
    /\ s' = [s EXCEPT ![c].pc = "read", ![c].line = None]

(* Mutant: nothing is written when get_pwd fails.                          *)
PwdFailsSilent(c) ==
    /\ At(c, "run") /\ s[c].line = "PWD" /\ Quietly
    /\ s' = [s EXCEPT ![c].pc = "read", ![c].line = None]

(* popen or pclose fails, or nothing can be read and the pipe stays open.  *)
PwdFails(c) ==
    /\ At(c, "run") /\ s[c].line = "PWD" /\ Answer(c, "ERR")
    /\ \E n \in IF Room(c, 2) THEN {0, 1} ELSE {0} :
          s' = [s EXCEPT ![c].pc = "read", ![c].line = None, ![c].nfd = @ + n, ![c].lost = @ + n]

Ignore(c) ==
    /\ At(c, "run") /\ s[c].line = "NOOP" /\ Quietly
    /\ s' = [s EXCEPT ![c].pc = "read", ![c].line = None]
-----------------------------------------------------------------------------
(* new_server in the loop of LS and GET.                                   *)

Listening(c, p) == s[c].server = "listen" /\ Rand[s[c].drawn] = p
Free(c, p) == \A d \in Client \ {c} : ~Listening(d, p)
Draw(c) == (s[c].drawn % Len(Rand)) + 1

(* Mutant: one try too many.                                               *)
TryingAgain(c) == At(c, "new") /\ s[c].retry >= 0

Trying(c) == At(c, "new") /\ s[c].retry > 0
Busy == busy < MaxBusy /\ busy' = busy + 1 /\ UNCHANGED <<inherited, crossed>>

NoSocket(c) == Trying(c) /\ ~Room(c, 1) /\ Dies(c)

(* SO_REUSEADDR: only a socket that listens keeps others from its port.    *)
Bind(c) ==
    /\ Trying(c) /\ Room(c, 1) /\ Free(c, Rand[Draw(c)]) /\ Quietly
    /\ s' = [s EXCEPT ![c].pc = "listen", ![c].retry = @ - 1, ![c].drawn = Draw(c),
                      ![c].server = "bound", ![c].nfd = @ + 1]

(* return -1 without close.                                                *)
BindFails(c) ==
    /\ Trying(c) /\ Room(c, 1)
    /\ IF Free(c, Rand[Draw(c)]) THEN Busy /\ UNCHANGED broken ELSE UNCHANGED hist
    /\ s' = [s EXCEPT ![c].retry = @ - 1, ![c].drawn = Draw(c),
                      ![c].nfd = @ + 1, ![c].lost = @ + 1]
    /\ UNCHANGED <<sockVars, forkVars, cli>>

(* setsockopt fails: return EXIT_FAILURE, which is 1 and not negative.     *)
OptFails(c) ==
    /\ Trying(c) /\ Room(c, 1) /\ Busy /\ broken' = broken \cup {c}
    /\ s' = [s EXCEPT ![c].pc = "ok", ![c].retry = @ - 1, ![c].drawn = Draw(c),
                      ![c].server = "1", ![c].nfd = @ + 1, ![c].lost = @ + 1]
    /\ UNCHANGED <<sockVars, forkVars, cli>>

(* listen fails if another child that had bound the port, too, was first.  *)
Listen(c) ==
    /\ At(c, "listen") /\ Quietly
    /\ s' = IF Free(c, Rand[s[c].drawn])
            THEN [s EXCEPT ![c].pc = "ok", ![c].server = "listen"]
            ELSE [s EXCEPT ![c].pc = "new", ![c].server = "none", ![c].lost = @ + 1]

NoPort(c) ==
    /\ At(c, "new") /\ s[c].retry = 0 /\ Answer(c, "ERR")
    /\ s' = [s EXCEPT ![c].pc = "read", ![c].line = None]
-----------------------------------------------------------------------------
(* The data connection.                                                    *)

(* Mutant: data_port is computed once, before the loop.                    *)
TellFirstPort(c) ==
    /\ At(c, "ok") /\ Answer(c, Rand[1])
    /\ s' = [s EXCEPT ![c].pc = "accept", ![c].retry = 0]

TellPort(c) ==
    /\ At(c, "ok") /\ Answer(c, Rand[s[c].drawn])
    /\ s' = [s EXCEPT ![c].pc = "accept", ![c].retry = 0]

AcceptData(c) ==
    /\ At(c, "accept") /\ s[c].server = "listen" /\ Room(c, 1)
    /\ s[c].queue # <<>>
    /\ s' = [s EXCEPT ![c].pc = "send", ![c].client = Head(s[c].queue),
                      ![c].queue = Tail(@), ![c].nfd = @ + 1]
    /\ crossed' = IF Head(s[c].queue) = c THEN crossed ELSE crossed \cup {c}
    /\ UNCHANGED <<sockVars, forkVars, cli, inherited, busy, broken>>

(* No descriptor is left, or data_server is stdout: close it and return.   *)
AcceptDataFails(c) ==
    /\ At(c, "accept") /\ (s[c].server = "1" \/ ~Room(c, 1)) /\ Leaves(c)
    /\ s' = [s EXCEPT ![c].server = "none", ![c].queue = <<>>,
                      ![c].nfd = IF s[c].server = "1" THEN @ ELSE @ - 1]
    /\ broken' = broken \cup {c}
    /\ UNCHANGED sockVars

Deliver(c, what) ==
    /\ cli' = [cli EXCEPT ![s[c].client].data = [from |-> c, what |-> what]]
    /\ UNCHANGED <<sockVars, forkVars, hist>>

SendFile(c) ==
    /\ At(c, "send") /\ s[c].line = "LS" /\ Room(c, 2) /\ Deliver(c, "list")
    /\ s' = [s EXCEPT ![c].pc = "sent"]

(* popen returns NULL, for which fread crashes.                            *)
NoPipe(c) == At(c, "send") /\ s[c].line = "LS" /\ ~Room(c, 2) /\ Dies(c)

(* The file stays open.  Without one read returns -1, and a write of       *)
(* length -1 writes nothing.                                               *)
SendPath(c) ==
    /\ At(c, "send") /\ s[c].line \in File
    /\ IF s[c].line \notin Absent /\ Room(c, 1)
       THEN /\ Deliver(c, s[c].line)
            /\ s' = [s EXCEPT ![c].pc = "sent", ![c].nfd = @ + 1, ![c].lost = @ + 1]
       ELSE Deliver(c, "empty") /\ s' = [s EXCEPT ![c].pc = "sent"]

(* close(data_client), then "OK".                                          *)
Final(c) ==
    /\ At(c, "sent") /\ Answer(c, "OK")
    /\ s' = [s EXCEPT ![c].pc = "close", ![c].client = None, ![c].nfd = @ - 1]

(* Mutant: data_server is left open.                                       *)
CloseServerForgotten(c) ==
    /\ At(c, "close") /\ Quietly
    /\ s' = [s EXCEPT ![c].pc = "read", ![c].line = None, ![c].server = "none", ![c].queue = <<>>]

CloseServer(c) ==
    /\ At(c, "close") /\ Quietly
    /\ s' = [s EXCEPT ![c].pc = "read", ![c].line = None, ![c].server = "none",
                      ![c].queue = <<>>, ![c].nfd = @ - 1]

FtpSigPipe(c) ==
    /\ child[c] = "serve"
    /\ \/ BrokenPipe(c) /\ \/ s[c].pc \in {"ok", "sent"}
                           \/ s[c].pc = "run" /\ s[c].line # "NOOP"
                           \/ s[c].pc = "new" /\ s[c].retry = 0
       \/ BrokenPipe(s[c].client) /\ s[c].pc = "send"
    /\ Dies(c)

ProcessLine(c) ==
    \/ ReceiveLine(c) \/ FtpDisconnected(c) \/ Quit(c) \/ Pwd(c) \/ PwdFails(c) \/ Ignore(c)
    \/ NoSocket(c) \/ Bind(c) \/ BindFails(c) \/ OptFails(c) \/ Listen(c) \/ NoPort(c)
    \/ TellPort(c) \/ AcceptData(c) \/ AcceptDataFails(c) \/ SendFile(c) \/ NoPipe(c)
    \/ SendPath(c) \/ Final(c) \/ CloseServer(c) \/ FtpSigPipe(c)
-----------------------------------------------------------------------------
(* A client.                                                               *)

AskLine(c, l) ==
    /\ cli[c].asked = None /\ cli[c].asks < Len(Script[c]) /\ l \in Script[c][cli[c].asks + 1]
    /\ ClientWrite(c, <<l>>)
    /\ cli' = [cli EXCEPT ![c].asked = IF l = "NOOP" THEN None ELSE l, ![c].asks = @ + 1,
                          ![c].data = None]
    /\ UNCHANGED <<forkVars, s, hist>>

GetReply(c) ==
    /\ ClientRead(c, 1)
    /\ cli' = IF snd[c][1] \in Port THEN [cli EXCEPT ![c].told = snd[c][1]]
                                    ELSE [cli EXCEPT ![c].asked = None]
    /\ UNCHANGED <<forkVars, s, hist>>

(* Whoever listens on the port gets the connection.                        *)
ConnectData(c) ==
    /\ cli[c].told # None /\ c \notin shut
    /\ cli' = [cli EXCEPT ![c].told = None]
    /\ s' = [d \in Client |-> IF Listening(d, cli[c].told)
                              THEN [s[d] EXCEPT !.queue = Append(@, c)] ELSE s[d]]
    /\ UNCHANGED <<sockVars, forkVars, hist>>

FtpConnectStep(c) ==
    /\ Connect(c) \/ Refused(c) \/ ClientClose(c)
    /\ UNCHANGED <<forkVars, s, cli, hist>>
ClientReacts(c) == GetReply(c) \/ ConnectData(c)
-----------------------------------------------------------------------------
FtpMain == MainStep /\ UNCHANGED <<s, cli, hist>>
FtpFails == MainFails /\ UNCHANGED <<s, cli, hist>>
FtpChild(c) == ChildStep(c) /\ UNCHANGED <<s, cli, hist>>
KillChild(c) == Kill(c) /\ Breaks(c)

FtpNext ==
    \/ FtpMain \/ FtpFails
    \/ \E c \in Client :
          \/ FtpChild(c) \/ ProcessLine(c) \/ KillChild(c)
          \/ FtpConnectStep(c) \/ ClientReacts(c) \/ \E l \in Line : AskLine(c, l)

FtpSpec == FtpInit /\ [][FtpNext]_ftpVars

(* A process that can run does, and a client reads its answers and makes   *)
(* the data connection it was told to.                                     *)
FtpFairSpec ==
    /\ FtpSpec
    /\ WF_ftpVars(FtpMain)
    /\ \A c \in Client :
          WF_ftpVars(FtpChild(c) \/ ProcessLine(c)) /\ WF_ftpVars(ClientReacts(c))
-----------------------------------------------------------------------------
(* A child knows each of its descriptors by a variable, except those the   *)
(* error paths and GET drop for good; nothing else adds up over a session. *)
DescriptorsAccounted ==
    \A c \in Client : s[c].nfd = 1 + inherited + s[c].lost
        + (IF s[c].server \in {"bound", "listen"} THEN 1 ELSE 0)
        + (IF s[c].client # None THEN 1 ELSE 0)

(* All children draw the same ports, and yet a client is sent what its own *)
(* child sends, whatever becomes of the others, unless its own session     *)
(* broke down (killed, out of descriptors, no socket behind the port it    *)
(* was told) or its child took somebody else for its client; and that      *)
(* happens to nobody before some session has broken down.                  *)
OwnData ==
    /\ \A c \in Client \ (broken \cup crossed) : cli[c].data # None => cli[c].data.from = c
    /\ broken = {} => crossed = {}

(* A line is answered, or the connection ends; other clients, also those   *)
(* that never connect for their data, do not keep it from that.            *)
LineIsAnswered ==
    \A c \in Client : cli[c].asked # None ~>
        (cli[c].asked = None \/ c \in shut \/ link[c] = "over")
=============================================================================
