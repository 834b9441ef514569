----------------------------- MODULE ForkServer -----------------------------
(***************************************************************************)
(* The accept loop of the servers that fork a child per client (EX07-05,   *)
(* EX07-07 and EX07-08; main is the same in all three).  Parent and child  *)
(* each close the descriptor they do not need after fork, at different     *)
(* times.  accept or fork may fail, which ends the parent only, and any    *)
(* process may be killed.  What a child does for its client is left to the *)
(* modules that extend this one; the child of client c is named c.         *)
(***************************************************************************)
EXTENDS TcpSock

CONSTANTS
    None,         \* no client
    MaxKill       \* bound: processes killed

ASSUME ForkAssumption ==
    /\ Process = {Main} \cup Client /\ Main \notin Client
    /\ None \notin Client /\ MaxKill \in Nat

VARIABLES
    main,         \* accept, fork, parent or off
    sfd_client,   \* the client of main's descriptor
    child,        \* per client: none, start, serve, done or off
    killed

forkVars == <<main, sfd_client, child, killed>>

ForkTypeOK ==
    /\ SockTypeOK
    /\ main \in {"accept", "fork", "parent", "off"}
    /\ sfd_client \in Client \cup {None}
    /\ child \in [Client -> {"none", "start", "serve", "done", "off"}]
    /\ killed \in 0..MaxKill

ForkInit ==
    /\ SockInit
    /\ main = "accept" /\ sfd_client = None /\ killed = 0
    /\ child = [c \in Client |-> "none"]

Accept ==
    /\ main = "accept"
    /\ SockAccept(Main)
    /\ main' = "fork" /\ sfd_client' = Head(queue)
    /\ UNCHANGED <<child, killed>>

(* return EXIT_FAILURE; the descriptors go with the process.               *)
MainFails ==
    /\ main \in {"accept", "fork"}
    /\ SockExit(Main)
    /\ main' = "off" /\ sfd_client' = None
    /\ UNCHANGED <<child, killed>>

Fork ==
    /\ main = "fork"
    /\ SockFork(Main, sfd_client)
    /\ child' = [child EXCEPT ![sfd_client] = "start"]
    /\ main' = "parent"
    /\ UNCHANGED <<sfd_client, killed>>

(* Mutant: the parent keeps its copy of the connection.                    *)
CloseForgotten ==
    /\ main = "parent"
    /\ main' = "accept" /\ sfd_client' = None
    /\ UNCHANGED <<sockVars, child, killed>>

(* The parent's half; the number is not used again before accept sets it.  *)
ParentClose ==
    /\ main = "parent"
    /\ CloseConn(Main, sfd_client)
    /\ main' = "accept" /\ sfd_client' = None
    /\ UNCHANGED <<child, killed>>

(* Mutant: the child keeps the listening socket.                           *)
ChildStartHolding(c) ==
    /\ child[c] = "start"
    /\ child' = [child EXCEPT ![c] = "serve"]
    /\ UNCHANGED <<sockVars, main, sfd_client, killed>>

ChildStart(c) ==
    /\ child[c] = "start"
    /\ CloseListen(c)
    /\ child' = [child EXCEPT ![c] = "serve"]
    /\ UNCHANGED <<main, sfd_client, killed>>

(* close(sfd_client) and exit.                                             *)
ChildEnd(c) ==
    /\ child[c] = "done"
    /\ SockExit(c)
    /\ child' = [child EXCEPT ![c] = "off"]
    /\ UNCHANGED <<main, sfd_client, killed>>

(* The child dies at once, of a signal or by exit.                         *)
ChildDies(c) ==
    /\ SockExit(c)
    /\ child' = [child EXCEPT ![c] = "off"]
    /\ UNCHANGED <<main, sfd_client>>

Kill(p) ==
    /\ killed < MaxKill /\ killed' = killed + 1
    /\ \/ /\ p = Main /\ main # "off"
          /\ SockExit(Main)
          /\ main' = "off" /\ sfd_client' = None
          /\ UNCHANGED child
       \/ /\ p \in Client /\ child[p] \in {"start", "serve", "done"}
          /\ ChildDies(p)

MainStep == Accept \/ Fork \/ ParentClose
ChildStep(c) == ChildStart(c) \/ ChildEnd(c)

(* A connection is held by its own child, and by the parent only from      *)
(* accept to its close; the listening socket by the parent and by children *)
(* that have just started.  Otherwise a client would not see the end of    *)
(* its connection, or wait in a queue nobody accepts from.                 *)
OwnDescriptors ==
    /\ \A c \in Client : fds[c] \subseteq {c} \cup (IF sfd_client = c THEN {Main} ELSE {})
    /\ \A c \in Client : c \in lsn => child[c] = "start"
=============================================================================
