---------------------------- MODULE DeviceServer ----------------------------
(***************************************************************************)
(* EX07-08: clients send commands of two words (device, operation) and a   *)
(* child per client carries them out and answers with one word.  All       *)
(* children drive the same LED through the line handles main requested     *)
(* before it forked.  A child takes what one read returns for a command if *)
(* it has exactly two words and drops it otherwise.  Unit of the streams   *)
(* is the word (ntohl and htonl undo what the peer's did); a client asks   *)
(* only when it has its last answer, which is what it can do at most if it *)
(* is to know which command an answer is for.                              *)
(***************************************************************************)
EXTENDS ForkServer, FiniteSets

CONSTANTS
    Word,         \* what clients put into a command
    MaxAsk        \* bound, per client: commands it sends

ASSUME DeviceAssumption ==
    /\ Word \subseteq Nat /\ MaxAsk \in [Client -> Nat]
    /\ None \notin (Word \X Word) \cup {-1, 0, 1}

ID_LED == 1
ID_KEY == 2
CMD_LED_ON == 1
CMD_LED_OFF == 2
CMD_KEY_STATUS == 1
RES_OK == 0
RES_ERROR == -1

Command == Word \X Word
NoCommand == <<>>

VARIABLES
    led,          \* value of line GPIO_LED
    work,         \* per child: the words it read, <<>> when it waits in read
    result,       \* per child: result, None before it has one
    asked,        \* per client: the command it waits for an answer to
    asks,         \* per client: commands sent
    told,         \* per client: the last answer, until it asks again
    done          \* history, per client: the result of the asked command, once carried out

clientVars == <<asked, asks, told>>
deviceVars == <<led, work, result, clientVars, done>>
vars == <<sockVars, forkVars, deviceVars>>

Result == {-1, 0, 1}

TypeOK ==
    /\ ForkTypeOK
    /\ led \in {0, 1}
    /\ work \in [Client -> Command \cup {NoCommand}]
    /\ result \in [Client -> Result \cup {None}]
    /\ done \in [Client -> Result \cup {None}]
    /\ told \in [Client -> Result \cup {None}]
    /\ asked \in [Client -> Command \cup {NoCommand}]
    /\ asks \in [Client -> Nat] /\ \A c \in Client : asks[c] <= MaxAsk[c]
    /\ \A c \in Client : rcv[c] \in Seq(Word) /\ snd[c] \in Seq(Result)

Init ==
    /\ ForkInit
    /\ led = 0
    /\ work = [c \in Client |-> NoCommand] /\ asked = work
    /\ result = [c \in Client |-> None] /\ done = result /\ told = result
    /\ asks = [c \in Client |-> 0]

(* What a command may return, and the value it gives the LED (None: it     *)
(* leaves it).  The ioctl may fail; the key is up or down.                 *)
Failed == [result |-> RES_ERROR, led |-> None]
control_led(on) == {Failed, [result |-> RES_OK, led |-> IF on = 1 THEN 1 ELSE 0]}
read_key == {Failed} \cup {[result |-> k, led |-> None] : k \in {0, 1}}

(* Mutant: a code of its own, define.h:17-18, for what is not known.       *)
OutcomeUnknown(command) ==
    CASE command = <<ID_LED, CMD_LED_OFF>> -> control_led(0)
      [] command = <<ID_LED, CMD_LED_ON>> -> control_led(1)
      [] command = <<ID_KEY, CMD_KEY_STATUS>> -> read_key
      [] OTHER -> {[result |-> -2, led |-> None]}

Outcome(command) ==
    CASE command = <<ID_LED, CMD_LED_OFF>> -> control_led(0)
      [] command = <<ID_LED, CMD_LED_ON>> -> control_led(1)
      [] command = <<ID_KEY, CMD_KEY_STATUS>> -> read_key
      [] OTHER -> {Failed}
-----------------------------------------------------------------------------
(* process_command of the child of c.                                      *)

Reading(c) == child[c] = "serve" /\ work[c] = NoCommand

(* Mutant: rlen is not compared with 8, what the buffer has is used.       *)
ReceiveAny(c) ==
    /\ Reading(c)
    /\ \E n \in 1..2 :
          /\ SockRead(c, n)
          /\ work' = [work EXCEPT ![c] = <<rcv[c][1], rcv[c][n]>>]
    /\ UNCHANGED <<forkVars, led, result, clientVars, done>>

Receive(c) ==
    /\ Reading(c)
    /\ SockRead(c, 2)
    /\ work' = [work EXCEPT ![c] = SubSeq(rcv[c], 1, 2)]
    /\ UNCHANGED <<forkVars, led, result, clientVars, done>>

(* rlen != 8: continue.                                                    *)
Drop(c) ==
    /\ Reading(c)
    /\ \E n \in 1..Len(rcv[c]) : n # 2 /\ SockRead(c, n)
    /\ UNCHANGED <<forkVars, deviceVars>>

Disconnected(c) ==
    /\ Reading(c) /\ AtEnd(c)
    /\ child' = [child EXCEPT ![c] = "done"]
    /\ UNCHANGED <<sockVars, main, sfd_client, killed, deviceVars>>

Do(c) ==
    /\ child[c] = "serve" /\ work[c] # NoCommand /\ result[c] = None
    /\ \E o \in Outcome(work[c]) :
          /\ result' = [result EXCEPT ![c] = o.result]
          /\ done' = [done EXCEPT ![c] = o.result]
          /\ led' = IF o.led = None THEN led ELSE o.led
    /\ UNCHANGED <<sockVars, forkVars, work, clientVars>>

Reply(c) ==
    /\ child[c] = "serve" /\ result[c] # None
    /\ SockWrite(c, <<result[c]>>)
    /\ work' = [work EXCEPT ![c] = NoCommand]
    /\ result' = [result EXCEPT ![c] = None]
    /\ UNCHANGED <<forkVars, led, clientVars, done>>

(* The variables of a process go with it.                                  *)
Forget(P) ==
    /\ work' = [c \in Client |-> IF c \in P THEN NoCommand ELSE work[c]]
    /\ result' = [c \in Client |-> IF c \in P THEN None ELSE result[c]]
    /\ UNCHANGED <<led, clientVars, done>>

SigPipe(c) ==
    /\ child[c] = "serve" /\ result[c] # None /\ BrokenPipe(c)
    /\ ChildDies(c) /\ Forget({c})
    /\ UNCHANGED killed

KillProcess(p) == Kill(p) /\ Forget({p})

ServerMain == MainStep /\ UNCHANGED deviceVars
ServerFails == MainFails /\ UNCHANGED deviceVars
ServerChild(c) == ChildStep(c) /\ UNCHANGED deviceVars
ProcessCommand(c) ==
    Receive(c) \/ Drop(c) \/ Do(c) \/ Reply(c) \/ Disconnected(c)
-----------------------------------------------------------------------------
(* A client.                                                               *)

Ask(c, command) ==
    /\ asked[c] = NoCommand /\ asks[c] < MaxAsk[c]
    /\ ClientWrite(c, command)
    /\ asked' = [asked EXCEPT ![c] = command]
    /\ asks' = [asks EXCEPT ![c] = @ + 1]
    /\ told' = [told EXCEPT ![c] = None]
    /\ UNCHANGED <<forkVars, led, work, result, done>>

Answered(c) ==
    /\ ClientRead(c, 1)
    /\ told' = [told EXCEPT ![c] = snd[c][1]]
    /\ asked' = [asked EXCEPT ![c] = NoCommand]
    /\ done' = [done EXCEPT ![c] = None]
    /\ UNCHANGED <<forkVars, led, work, result, asks>>

ConnectStep(c) == (Connect(c) \/ Refused(c) \/ ClientClose(c)) /\ UNCHANGED <<forkVars, deviceVars>>

Next ==
    \/ ServerMain \/ ServerFails
    \/ \E c \in Client :
          ServerChild(c) \/ ProcessCommand(c) \/ SigPipe(c) \/ ConnectStep(c) \/ Answered(c)
    \/ \E c \in Client, command \in Command : Ask(c, command)
    \/ \E p \in Process : KillProcess(p)

Spec == Init /\ [][Next]_vars

(* A process that can run does; of a running server, accept and fork need  *)
(* not succeed, but something becomes of each call.  A client reads.       *)
FairSpec ==
    /\ Spec
    /\ WF_vars(ServerMain)
    /\ \A c \in Client :
          WF_vars(ServerChild(c) \/ ProcessCommand(c)) /\ WF_vars(Answered(c))
-----------------------------------------------------------------------------
(* A connection is held by its own child and, until it has closed it, the  *)
(* parent; a child that serves does not hold the listening socket.         *)
OwnConnection == OwnDescriptors

(* The words of the command were dropped: the child has none of them.      *)
Dropped(c) == Len(rcv[c]) < 2 /\ work[c] = NoCommand /\ done[c] = None

(* A client that has asked gets its answer, unless its words came in parts *)
(* (then it waits for ever), it gives up, or its connection ends; whatever *)
(* the parent and the other clients do, also when the parent is gone.      *)
AskedIsAnswered ==
    \A c \in Client : asked[c] # NoCommand ~>
        (asked[c] = NoCommand \/ Dropped(c) \/ c \in shut \/ link[c] = "over")

Device == INSTANCE RemoteDevice WITH
    asked <- [c \in Client |-> IF asked[c] = NoCommand THEN None ELSE asked[c]],
    result <- done

(* Each command is carried out at most once and answered with its own      *)
(* result, with the LED shared by all children and processes dying.        *)
ImplementsDevice == Device!Spec
=============================================================================
