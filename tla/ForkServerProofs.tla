-------------------------- MODULE ForkServerProofs --------------------------
(***************************************************************************)
(* Safety of the servers that fork, DeviceServer and Ftp, for any clients, *)
(* commands and bounds.  For both: types, and who holds which descriptor   *)
(* (facts about ForkServer).  DeviceServer implements RemoteDevice; in Ftp *)
(* descriptors are accounted for, and clients are sent their own data.     *)
(***************************************************************************)
EXTENDS DeviceServer, Ftp, SequenceTheorems, TLAPS

(* main has a client's descriptor exactly from accept to its close.        *)
MainInv == sfd_client # None <=> main \in {"fork", "parent"}
ForkInv == ForkTypeOK /\ OwnDescriptors /\ MainInv

LEMMA ForkInitHolds == ForkInit => ForkInv
BY SockAssumption, ForkAssumption
   DEF ForkInit, SockInit, ForkInv, ForkTypeOK, SockTypeOK, OwnDescriptors, MainInv

(* Whatever the holders become, the sockets keep their types.              *)
LEMMA HoldTypes ==
    ASSUME SockTypeOK, NEW l \in SUBSET Process,
           NEW f \in [Client -> SUBSET Process], Hold(l, f)
    PROVE  SockTypeOK' /\ lsn' = l /\ fds' = f
<1>1. queue' \in Seq(Client)
  BY DEF Hold, SockTypeOK
<1>2. link' \in [Client -> {"new", "queued", "open", "over"}]
  BY DEF Hold, SockTypeOK
<1> QED
  BY <1>1, <1>2 DEF Hold, SockTypeOK

(* The end of a process p that is not, or no longer, main.                 *)
LEMMA ChildGone ==
    ASSUME ForkInv, NEW c \in Client, SockExit(c), main' = main, sfd_client' = sfd_client,
           child' = [child EXCEPT ![c] = "off"], killed' \in 0 .. MaxKill
    PROVE  ForkInv'
<1> USE DEF ForkInv, ForkTypeOK
<1>1. (lsn \ {c}) \in SUBSET Process
  BY DEF SockTypeOK
<1>2. [d \in Client |-> fds[d] \ {c}] \in [Client -> SUBSET Process]
  BY DEF SockTypeOK
<1>3. SockTypeOK' /\ lsn' = lsn \ {c} /\ fds' = [d \in Client |-> fds[d] \ {c}]
  BY <1>1, <1>2, HoldTypes DEF SockExit
<1>4. OwnDescriptors'
  BY <1>3 DEF OwnDescriptors
<1> QED
  BY <1>3, <1>4 DEF MainInv

LEMMA MainGone ==
    ASSUME ForkInv, SockExit(Main), main' = "off", sfd_client' = None, child' = child,
           killed' \in 0 .. MaxKill
    PROVE  ForkInv'
<1> USE DEF ForkInv, ForkTypeOK
<1>1. (lsn \ {Main}) \in SUBSET Process
  BY DEF SockTypeOK
<1>2. [d \in Client |-> fds[d] \ {Main}] \in [Client -> SUBSET Process]
  BY DEF SockTypeOK
<1>3. SockTypeOK' /\ lsn' = lsn \ {Main} /\ fds' = [d \in Client |-> fds[d] \ {Main}]
  BY <1>1, <1>2, HoldTypes DEF SockExit
<1>4. OwnDescriptors'
  BY <1>3, ForkAssumption DEF OwnDescriptors, MainInv
<1> QED
  BY <1>3, <1>4 DEF MainInv

LEMMA ForkMain == ASSUME ForkInv, MainStep PROVE ForkInv'
<1> USE DEF ForkInv, ForkTypeOK
<1>1. CASE Accept
  <2>1. Head(queue) \in Client /\ Tail(queue) \in Seq(Client)
    BY <1>1 DEF Accept, SockAccept, SockTypeOK
  <2>2. SockTypeOK'
    BY <1>1, <2>1, SockAssumption DEF Accept, SockAccept, SockTypeOK
  <2>3. OwnDescriptors'
    BY <1>1, <2>1, ForkAssumption DEF Accept, SockAccept, SockTypeOK, OwnDescriptors, MainInv
  <2> QED
    BY <1>1, <2>1, <2>2, <2>3, ForkAssumption DEF Accept, MainInv
<1>2. CASE Fork
  <2> DEFINE l == IF Main \in lsn THEN lsn \cup {sfd_client} ELSE lsn
             f == [c \in Client |-> IF Main \in fds[c] THEN fds[c] \cup {sfd_client} ELSE fds[c]]
  <2>1. sfd_client \in Client /\ sfd_client \in Process
    BY <1>2, ForkAssumption DEF Fork, MainInv
  <2>2. l \in SUBSET Process /\ f \in [Client -> SUBSET Process]
    BY <2>1 DEF SockTypeOK
  <2>3. SockTypeOK' /\ lsn' = l /\ fds' = f
    BY <1>2, <2>2, HoldTypes DEF Fork, SockFork
  <2>4. \A c \in Client : Main \in fds[c] => c = sfd_client
    BY ForkAssumption DEF OwnDescriptors
  <2>5. OwnDescriptors'
    BY <1>2, <2>1, <2>3, <2>4, ForkAssumption DEF Fork, OwnDescriptors
  <2> QED
    BY <1>2, <2>1, <2>3, <2>5 DEF Fork, MainInv
<1>3. CASE ParentClose
  <2> DEFINE f == [fds EXCEPT ![sfd_client] = @ \ {Main}]
  <2>1. sfd_client \in Client
    BY <1>3 DEF ParentClose, MainInv
  <2>2. lsn \in SUBSET Process /\ f \in [Client -> SUBSET Process]
    BY <2>1 DEF SockTypeOK
  <2>3. SockTypeOK' /\ lsn' = lsn /\ fds' = f
    BY <1>3, <2>2, HoldTypes DEF ParentClose, CloseConn
  <2>4. OwnDescriptors'
    BY <1>3, <2>1, <2>3, ForkAssumption DEF ParentClose, OwnDescriptors, SockTypeOK
  <2> QED
    BY <1>3, <2>3, <2>4 DEF ParentClose, MainInv
<1> QED
  BY <1>1, <1>2, <1>3 DEF MainStep

LEMMA ForkChild == ASSUME ForkInv, NEW c \in Client, ChildStep(c) PROVE ForkInv'
<1> USE DEF ForkInv, ForkTypeOK
<1>1. CASE ChildStart(c)
  <2>1. (lsn \ {c}) \in SUBSET Process /\ fds \in [Client -> SUBSET Process]
    BY DEF SockTypeOK
  <2>2. SockTypeOK' /\ lsn' = lsn \ {c} /\ fds' = fds
    BY <1>1, <2>1, HoldTypes DEF ChildStart, CloseListen
  <2>3. OwnDescriptors'
    BY <1>1, <2>2 DEF ChildStart, OwnDescriptors
  <2> QED
    BY <1>1, <2>2, <2>3 DEF ChildStart, MainInv
<1>2. CASE ChildEnd(c)
  BY <1>2, ChildGone DEF ChildEnd
<1> QED
  BY <1>1, <1>2 DEF ChildStep

LEMMA ForkFaults ==
    ASSUME ForkInv, MainFails \/ (\E p \in Process : Kill(p))
    PROVE  ForkInv'
<1>1. CASE MainFails
  BY <1>1, MainGone DEF MainFails, ForkInv, ForkTypeOK
<1>2. ASSUME NEW p \in Process, Kill(p) PROVE ForkInv'
  <2>1. killed' \in 0 .. MaxKill
    BY <1>2, ForkAssumption DEF Kill, ForkInv, ForkTypeOK
  <2> QED
    BY <1>2, <2>1, ChildGone, MainGone, ForkAssumption DEF Kill, ChildDies
<1> QED
  BY <1>1, <1>2

(* A client connects or closes.                                            *)
LEMMA ForkConnect ==
    ASSUME ForkInv, NEW c \in Client, Connect(c) \/ Refused(c) \/ ClientClose(c),
           UNCHANGED forkVars
    PROVE  ForkInv'
<1> USE DEF ForkInv, ForkTypeOK
<1>1. SockTypeOK'
  <2>1. CASE Connect(c)
    BY <2>1 DEF Connect, SockTypeOK
  <2>2. CASE Refused(c)
    BY <2>2 DEF Refused, SockTypeOK
  <2>3. CASE ClientClose(c)
    BY <2>3 DEF ClientClose, SockTypeOK, ends
  <2> QED
    BY <2>1, <2>2, <2>3
<1>2. UNCHANGED <<lsn, fds, forkVars>>
  BY DEF Connect, Refused, ClientClose, ends
<1> QED
  BY <1>1, <1>2 DEF forkVars, OwnDescriptors, MainInv

(* Reading and writing touch no descriptor.                                *)
LEMMA ForkStream == ASSUME ForkInv, UNCHANGED <<ends, shut, forkVars>> PROVE ForkInv'
BY DEF ForkInv, ForkTypeOK, SockTypeOK, ends, forkVars, OwnDescriptors, MainInv
-----------------------------------------------------------------------------
(* Sequences of one and of two, and what is left when they are read.       *)
LEMMA PairParts ==
    ASSUME NEW S, NEW a \in S, NEW b \in S
    PROVE  /\ SubSeq(<<a, b>>, 1, 2) = <<a, b>> /\ SubSeq(<<a, b>>, 3, 2) = <<>>
           /\ SubSeq(<<a, b>>, 2, 2) = <<b>> /\ <<a, b>> # <<>> /\ Len(<<a, b>>) = 2
<1>1. <<a, b>> \in Seq(S) /\ Len(<<a, b>>) = 2 /\ <<a, b>>[2] = b
  OBVIOUS
<1>2. SubSeq(<<a, b>>, 1, Len(<<a, b>>)) = <<a, b>>
  BY <1>1, SubSeqFull
<1>3. SubSeq(<<a, b>>, 3, 2) = <<>>
  BY SubSeqEmpty
<1>4. SubSeq(<<a, b>>, 2, 2) = <<b>>
  <2>1. /\ SubSeq(<<a, b>>, 2, 2) \in Seq(S) /\ Len(SubSeq(<<a, b>>, 2, 2)) = 1
        /\ SubSeq(<<a, b>>, 2, 2)[1] = b
    <3>1. \A i \in 2 .. 2 : <<a, b>>[i] \in S
      BY <1>1
    <3>2. 2 \in Int /\ 1 \in 1 .. 2 - 2 + 1
      OBVIOUS
    <3> QED
      BY <3>1, <3>2, <1>1, SubSeqProperties
  <2>2. <<b>> \in Seq(S) /\ Len(<<b>>) = 1 /\ <<b>>[1] = b
    OBVIOUS
  <2>3. \A i \in 1 .. Len(SubSeq(<<a, b>>, 2, 2)) : SubSeq(<<a, b>>, 2, 2)[i] = <<b>>[i]
    BY <2>1, <2>2
  <2> QED
    BY <2>1, <2>2, <2>3, SeqEqual
<1>5. <<a, b>> # <<>>
  BY <1>1
<1> QED
  BY <1>1, <1>2, <1>3, <1>4, <1>5

LEMMA OneParts ==
    ASSUME NEW a
    PROVE  SubSeq(<<a>>, 2, 1) = <<>> /\ <<a>>[1] = a /\ Len(<<a>>) = 1 /\ <<a>> # <<>>
<1>1. <<a>> \in Seq({a})
  OBVIOUS
<1> QED
  BY <1>1, SubSeqEmpty

LEMMA ShortSeqs == ASSUME NEW S PROVE <<>> \in Seq(S) /\ (\A e \in S : <<e>> \in Seq(S))
OBVIOUS

LEMMA LongSeq ==
    ASSUME NEW S, NEW q \in Seq(S), 2 \in 1 .. Len(q)
    PROVE  q # <<>> /\ Len(q) # 1
<1>1. Len(q) \in Nat
  BY LenProperties
<1>2. Len(q) # 1
  <2>1. \A n \in Nat : 2 \in 1 .. n => n # 1
    OBVIOUS
  <2> QED
    BY <1>1, <2>1
<1>3. q # <<>>
  BY <1>1, EmptySeq
<1> QED
  BY <1>2, <1>3
-----------------------------------------------------------------------------
(* The streams carry words of commands and results.                        *)
Streams == rcv \in [Client -> Seq(Word)] /\ snd \in [Client -> Seq(Result)]

(* What is underway for a client that has asked: the words of its command  *)
(* that were not read yet, or the command in its child, or the answer.     *)
Underway(c) ==
    /\ \/ rcv[c] = <<>>
       \/ /\ asked[c] # NoCommand /\ work[c] = NoCommand /\ done[c] = None
          /\ rcv[c] = asked[c] \/ rcv[c] = <<asked[c][2]>>
    /\ work[c] # NoCommand => work[c] = asked[c]
    /\ result[c] # None => work[c] # NoCommand /\ done[c] = result[c]
    /\ work[c] # NoCommand /\ result[c] = None => done[c] = None
    /\ done[c] # None => asked[c] # NoCommand
    /\ snd[c] = <<>> \/ (done[c] # None /\ work[c] = NoCommand /\ snd[c] = <<done[c]>>)

CommandTypes ==
    /\ led \in {0, 1}
    /\ work \in [Client -> Command \cup {NoCommand}]
    /\ result \in [Client -> Result \cup {None}]
    /\ done \in [Client -> Result \cup {None}]
    /\ told \in [Client -> Result \cup {None}]
    /\ asked \in [Client -> Command \cup {NoCommand}]
    /\ asks \in [Client -> Nat] /\ \A c \in Client : asks[c] <= MaxAsk[c]

CommandInv == Streams /\ CommandTypes /\ \A c \in Client : Underway(c)
IInv == ForkInv /\ CommandInv

(* A command is a sequence of two words, and not the empty one.            *)
LEMMA CommandIsTwo ==
    ASSUME NEW t \in Command
    PROVE  /\ t \in Seq(Word) /\ Len(t) = 2 /\ t # NoCommand
           /\ t[1] \in Word /\ t[2] \in Word /\ t = <<t[1], t[2]>>
<1>1. PICK a \in Word, b \in Word : t = <<a, b>>
  BY DEF Command
<1>2. <<a, b>> \in Seq(Word) /\ Len(<<a, b>>) = 2
  OBVIOUS
<1>3. <<a, b>> # <<>>
  BY <1>2
<1> QED
  BY <1>1, <1>2, <1>3 DEF NoCommand

(* Every outcome is a result, and a value of the LED if it has one.        *)
LEMMA OutcomeTypes ==
    ASSUME NEW t \in Command, NEW o \in Outcome(t)
    PROVE  o.result \in Result /\ (o.led = None \/ o.led \in {0, 1})
BY DEF Outcome, control_led, read_key, Failed, RES_ERROR, RES_OK, Result

LEMMA CommandInit == Init => CommandInv
BY DeviceAssumption
   DEF Init, ForkInit, SockInit, CommandInv, Streams, CommandTypes, Underway, NoCommand, Result

(* The steps of process_command, of the clients and of faults keep it.     *)
LEMMA StreamReceive == ASSUME CommandInv, NEW c \in Client, Receive(c) PROVE CommandInv'
<1> USE DEF CommandInv
<1>1. rcv[c] \in Seq(Word) /\ 2 \in 1 .. Len(rcv[c])
  BY DEF Receive, SockRead, Streams
<1>2. rcv[c] = asked[c] /\ asked[c] \in Command /\ work[c] = NoCommand /\ done[c] = None
  <2>1. rcv[c] # <<>> /\ Len(rcv[c]) # 1
    BY <1>1, LongSeq
  <2>2. asked[c] \in Command
    BY <2>1 DEF Underway, CommandTypes
  <2>3. Len(<<asked[c][2]>>) = 1
    BY OneParts
  <2> QED
    BY <2>1, <2>2, <2>3 DEF Underway
<1>3. SubSeq(rcv[c], 1, 2) = asked[c] /\ SubSeq(rcv[c], 2 + 1, Len(rcv[c])) = <<>>
  <2>1. PICK a \in Word, b \in Word : asked[c] = <<a, b>>
    BY <1>2 DEF Command
  <2>2. 2 + 1 = 3 /\ Len(<<a, b>>) = 2
    BY PairParts
  <2> QED
    BY <1>2, <2>1, <2>2, PairParts
<1>4. rcv' = [rcv EXCEPT ![c] = <<>>] /\ work' = [work EXCEPT ![c] = asked[c]]
  <2>1. rcv' = [rcv EXCEPT ![c] = SubSeq(rcv[c], 2 + 1, Len(rcv[c]))]
    BY DEF Receive, SockRead
  <2>2. work' = [work EXCEPT ![c] = SubSeq(rcv[c], 1, 2)]
    BY DEF Receive
  <2> QED
    BY <1>3, <2>1, <2>2
<1>5. UNCHANGED <<snd, led, result, done, clientVars>>
  BY DEF Receive, SockRead
<1>6. Streams' /\ CommandTypes'
  BY <1>2, <1>4, <1>5 DEF Streams, CommandTypes, clientVars
<1>7. result[c] = None /\ snd[c] = <<>>
  BY <1>2 DEF Underway
<1>8. ASSUME NEW d \in Client PROVE Underway(d)'
  BY <1>2, <1>4, <1>5, <1>7, CommandIsTwo DEF Underway, Streams, CommandTypes, clientVars
<1> QED
  BY <1>6, <1>8

LEMMA StreamDrop == ASSUME CommandInv, NEW c \in Client, Drop(c) PROVE CommandInv'
<1> USE DEF CommandInv
<1>1. PICK n \in 1 .. Len(rcv[c]) : n # 2 /\ SockRead(c, n)
  BY DEF Drop
<1>2. rcv[c] \in Seq(Word) /\ rcv[c] # <<>>
  BY <1>1 DEF Streams
<1>3. asked[c] \in Command
  BY <1>2 DEF Underway, CommandTypes
<1>4. asked[c] = <<asked[c][1], asked[c][2]>> /\ asked[c][2] \in Word
  BY <1>3, CommandIsTwo
<1>5. rcv[c] = <<asked[c][1], asked[c][2]>> \/ rcv[c] = <<asked[c][2]>>
  BY <1>2, <1>4 DEF Underway
<1>6. SubSeq(rcv[c], n + 1, Len(rcv[c])) \in {<<>>, <<asked[c][2]>>}
  <2>1. PICK a \in Word, b \in Word : asked[c] = <<a, b>>
    BY <1>3 DEF Command
  <2>2. asked[c][2] = b
    BY <2>1
  <2>3. CASE rcv[c] = <<a, b>>
    <3>1. Len(rcv[c]) = 2
      BY <2>3, PairParts
    <3>2. n = 1
      BY <1>1, <3>1
    <3>3. n + 1 = 2
      BY <3>2
    <3> QED
      BY <2>2, <2>3, <3>1, <3>3, PairParts
  <2>4. CASE rcv[c] = <<b>>
    <3>1. Len(rcv[c]) = 1
      BY <2>4, OneParts
    <3>2. n + 1 = 2
      BY <1>1, <3>1
    <3> QED
      BY <2>4, <3>1, <3>2, OneParts
  <2> QED
    BY <1>5, <2>1, <2>2, <2>3, <2>4
<1>7. PICK rest \in {<<>>, <<asked[c][2]>>} : rcv' = [rcv EXCEPT ![c] = rest]
  BY <1>1, <1>6 DEF SockRead
<1>8. UNCHANGED <<snd, led, work, result, done, clientVars>>
  BY DEF Drop, SockRead, deviceVars
<1>9. rest \in Seq(Word)
  BY <1>4, ShortSeqs
<1>10. Streams' /\ CommandTypes'
  BY <1>7, <1>8, <1>9 DEF Streams, CommandTypes, clientVars
<1>11. ASSUME NEW d \in Client PROVE Underway(d)'
  BY <1>2, <1>7, <1>8 DEF Underway, Streams, clientVars
<1> QED
  BY <1>10, <1>11

LEMMA CommandDo ==
    ASSUME CommandInv, NEW c \in Client, Do(c)
    PROVE  CommandInv' /\ asked[c] = work[c] /\ asked[c] \in Command /\ done[c] = None
<1> USE DEF CommandInv
<1>1. work[c] \in Command /\ asked[c] = work[c] /\ done[c] = None
  BY DEF Do, Underway, CommandTypes
<1>2. PICK o \in Outcome(work[c]) :
          /\ result' = [result EXCEPT ![c] = o.result]
          /\ done' = [done EXCEPT ![c] = o.result]
          /\ led' = IF o.led = None THEN led ELSE o.led
  BY DEF Do
<1>3. o.result \in Result /\ led' \in {0, 1} /\ o.result # None
  <2>1. o.result \in Result /\ (o.led = None \/ o.led \in {0, 1})
    BY <1>1, OutcomeTypes
  <2> QED
    BY <1>2, <2>1, DeviceAssumption DEF CommandTypes, Result
<1>4. UNCHANGED <<rcv, snd, work, clientVars>>
  BY DEF Do, sockVars
<1>5. Streams' /\ CommandTypes'
  BY <1>2, <1>3, <1>4 DEF Streams, CommandTypes, clientVars
<1>6. rcv[c] = <<>> /\ snd[c] = <<>>
  BY <1>1, CommandIsTwo DEF Underway
<1>7. ASSUME NEW d \in Client PROVE Underway(d)'
  BY <1>1, <1>2, <1>3, <1>4, <1>6, CommandIsTwo DEF Underway, CommandTypes, clientVars
<1> QED
  BY <1>1, <1>5, <1>7

LEMMA CommandReply == ASSUME CommandInv, NEW c \in Client, Reply(c) PROVE CommandInv'
<1> USE DEF CommandInv
<1>1. /\ result[c] \in Result /\ work[c] # NoCommand /\ done[c] = result[c]
      /\ done[c] # None /\ rcv[c] = <<>> /\ snd[c] = <<>>
  BY DEF Reply, Underway, CommandTypes
<1>2. PICK answer \in {<<>>, <<done[c]>>} : snd' = [snd EXCEPT ![c] = answer]
  <2>1. <<>> \o <<result[c]>> = <<result[c]>>
    BY <1>1
  <2> QED
    BY <1>1, <2>1 DEF Reply, SockWrite
<1>3. /\ work' = [work EXCEPT ![c] = NoCommand] /\ result' = [result EXCEPT ![c] = None]
      /\ UNCHANGED <<rcv, led, done, clientVars>>
  BY DEF Reply, SockWrite
<1>4. answer \in Seq(Result)
  BY <1>1, ShortSeqs
<1>5. Streams' /\ CommandTypes'
  BY <1>2, <1>3, <1>4 DEF Streams, CommandTypes, clientVars
<1>6. ASSUME NEW d \in Client PROVE Underway(d)'
  BY <1>1, <1>2, <1>3 DEF Underway, Streams, CommandTypes, clientVars
<1> QED
  BY <1>5, <1>6

(* A process dies and its command with it.                                 *)
LEMMA CommandForget ==
    ASSUME CommandInv, NEW P, Forget(P), UNCHANGED <<rcv, snd>>
    PROVE  CommandInv'
<1> USE DEF CommandInv
<1>1. Streams' /\ CommandTypes'
  BY DEF Forget, Streams, CommandTypes, clientVars
<1>2. ASSUME NEW d \in Client PROVE Underway(d)'
  BY DEF Forget, Underway, clientVars
<1> QED
  BY <1>1, <1>2

LEMMA CommandAsk ==
    ASSUME CommandInv, NEW c \in Client, NEW t \in Command, Ask(c, t)
    PROVE  CommandInv'
<1> USE DEF CommandInv
<1>1. asked[c] = NoCommand /\ asks[c] < MaxAsk[c] /\ asks[c] \in Nat
  BY DEF Ask, CommandTypes
<1>2. rcv[c] = <<>> /\ snd[c] = <<>> /\ done[c] = None /\ work[c] = NoCommand /\ result[c] = None
  <2>1. rcv[c] = <<>> /\ done[c] = None
    BY <1>1 DEF Underway
  <2>2. work[c] = NoCommand
    BY <1>1 DEF Underway
  <2> QED
    BY <2>1, <2>2 DEF Underway
<1>3. t \in Seq(Word) /\ t # NoCommand /\ <<>> \o t = t
  BY CommandIsTwo
<1>4. /\ rcv' = [rcv EXCEPT ![c] = t] /\ asked' = [asked EXCEPT ![c] = t]
      /\ asks' = [asks EXCEPT ![c] = asks[c] + 1] /\ told' = [told EXCEPT ![c] = None]
      /\ UNCHANGED <<snd, led, work, result, done>>
  BY <1>2, <1>3 DEF Ask, ClientWrite
<1>5. Streams'
  BY <1>3, <1>4 DEF Streams
<1>6. CommandTypes'
  <2>1. asks' \in [Client -> Nat]
    BY <1>1, <1>4 DEF CommandTypes
  <2>2. ASSUME NEW d \in Client PROVE asks'[d] <= MaxAsk[d]
    <3>1. MaxAsk[d] \in Nat /\ asks[d] \in Nat /\ asks[d] <= MaxAsk[d]
      BY DeviceAssumption DEF CommandTypes
    <3>2. CASE d = c
      <4>1. asks'[d] = asks[d] + 1
        BY <1>4, <3>2 DEF CommandTypes
      <4> QED
        BY <1>1, <3>1, <3>2, <4>1
    <3>3. CASE d # c
      <4>1. asks'[d] = asks[d]
        BY <1>4, <3>3 DEF CommandTypes
      <4> QED
        BY <3>1, <4>1
    <3> QED
      BY <3>2, <3>3
  <2>3. /\ work' \in [Client -> Command \cup {NoCommand}] /\ led' \in {0, 1}
        /\ asked' \in [Client -> Command \cup {NoCommand}]
    BY <1>4 DEF CommandTypes
  <2>4. /\ result' \in [Client -> Result \cup {None}] /\ done' \in [Client -> Result \cup {None}]
        /\ told' \in [Client -> Result \cup {None}]
    BY <1>4 DEF CommandTypes
  <2> QED
    BY <2>1, <2>2, <2>3, <2>4 DEF CommandTypes
<1>7. ASSUME NEW d \in Client PROVE Underway(d)'
  BY <1>2, <1>3, <1>4 DEF Underway, Streams, CommandTypes
<1> QED
  BY <1>5, <1>6, <1>7

LEMMA CommandAnswered ==
    ASSUME CommandInv, NEW c \in Client, Answered(c)
    PROVE  CommandInv' /\ done[c] # None /\ snd[c][1] = done[c] /\ asked[c] \in Command
<1> USE DEF CommandInv
<1>1. PICK n \in 1 .. Len(snd[c]) : n = 1
  BY DEF Answered, ClientRead
<1>2. snd[c] # <<>>
  BY <1>1
<1>3. /\ snd[c] = <<done[c]>> /\ done[c] \in Result /\ done[c] # None /\ asked[c] \in Command
      /\ work[c] = NoCommand /\ result[c] = None /\ rcv[c] = <<>>
  BY <1>2 DEF Underway, CommandTypes
<1>4. snd[c][1] = done[c] /\ SubSeq(snd[c], 1 + 1, Len(snd[c])) = <<>>
  <2>1. 1 + 1 = 2
    OBVIOUS
  <2> QED
    BY <1>3, <2>1, OneParts
<1>5. /\ snd' = [snd EXCEPT ![c] = <<>>] /\ told' = [told EXCEPT ![c] = done[c]]
      /\ asked' = [asked EXCEPT ![c] = NoCommand] /\ done' = [done EXCEPT ![c] = None]
      /\ UNCHANGED <<rcv, led, work, result, asks>>
  <2>1. snd' = [snd EXCEPT ![c] = SubSeq(snd[c], 1 + 1, Len(snd[c]))]
    BY DEF Answered, ClientRead
  <2> QED
    BY <1>4, <2>1 DEF Answered, ClientRead
<1>6. Streams' /\ CommandTypes'
  BY <1>3, <1>5 DEF Streams, CommandTypes
<1>7. ASSUME NEW d \in Client PROVE Underway(d)'
  BY <1>3, <1>5 DEF Underway, Streams, CommandTypes
<1> QED
  BY <1>3, <1>4, <1>6, <1>7

(* The client closes, and what was on its way to it is lost.               *)
LEMMA CommandConnect ==
    ASSUME CommandInv, NEW c \in Client, ConnectStep(c)
    PROVE  CommandInv'
<1> USE DEF CommandInv
<1>1. UNCHANGED <<rcv, deviceVars>>
  BY DEF ConnectStep, Connect, Refused, ClientClose
<1>2. snd' = snd \/ snd' = [snd EXCEPT ![c] = <<>>]
  BY DEF ConnectStep, Connect, Refused, ClientClose
<1>3. Streams' /\ CommandTypes'
  <2>1. snd' \in [Client -> Seq(Result)]
    <3>1. <<>> \in Seq(Result) /\ snd \in [Client -> Seq(Result)]
      BY ShortSeqs DEF Streams
    <3> QED
      BY <1>2, <3>1
  <2>2. CommandTypes'
    BY <1>1 DEF CommandTypes, deviceVars, clientVars
  <2> QED
    BY <1>1, <2>1, <2>2 DEF Streams
<1>4. ASSUME NEW d \in Client PROVE Underway(d)'
  BY <1>1, <1>2 DEF Underway, Streams, deviceVars, clientVars
<1> QED
  BY <1>3, <1>4

LEMMA CommandSame ==
    ASSUME CommandInv, UNCHANGED <<rcv, snd, deviceVars>>
    PROVE  CommandInv'
BY DEF CommandInv, Streams, CommandTypes, Underway, deviceVars, clientVars
-----------------------------------------------------------------------------
(* What the steps of processes leave alone.                                *)
LEMMA ForkSame ==
    ASSUME MainStep \/ MainFails \/ (\E c \in Client : ChildStep(c) \/ ChildDies(c))
           \/ (\E p \in Process : Kill(p))
    PROVE  UNCHANGED <<rcv, snd>>
BY DEF MainStep, Accept, Fork, ParentClose, MainFails, ChildStep, ChildStart, ChildEnd,
       ChildDies, Kill, SockAccept, SockFork, SockExit, CloseConn, CloseListen, Hold

LEMMA InitHolds == Init => IInv
BY ForkInitHolds, CommandInit DEF Init, IInv

(* One step of the system, by the actions of Next.                         *)
LEMMA StepHolds == IInv /\ [Next]_vars => IInv'
<1> SUFFICES ASSUME ForkInv, CommandInv, [Next]_vars PROVE ForkInv' /\ CommandInv'
  BY DEF IInv
<1>1. CASE ServerMain
  BY <1>1, ForkMain, ForkSame, CommandSame DEF ServerMain
<1>2. CASE ServerFails
  BY <1>2, ForkFaults, ForkSame, CommandSame DEF ServerFails
<1>3. ASSUME NEW c \in Client, ServerChild(c) PROVE ForkInv' /\ CommandInv'
  BY <1>3, ForkChild, ForkSame, CommandSame DEF ServerChild
<1>4. ASSUME NEW c \in Client, Receive(c) PROVE ForkInv' /\ CommandInv'
  BY <1>4, ForkStream, StreamReceive DEF Receive, SockRead
<1>5. ASSUME NEW c \in Client, Drop(c) PROVE ForkInv' /\ CommandInv'
  BY <1>5, ForkStream, StreamDrop DEF Drop, SockRead
<1>6. ASSUME NEW c \in Client, Do(c) PROVE ForkInv' /\ CommandInv'
  BY <1>6, ForkStream, CommandDo DEF Do, sockVars, ends
<1>7. ASSUME NEW c \in Client, Reply(c) PROVE ForkInv' /\ CommandInv'
  BY <1>7, ForkStream, CommandReply DEF Reply, SockWrite
<1>8. ASSUME NEW c \in Client, Disconnected(c) PROVE ForkInv' /\ CommandInv'
  <2>1. CommandInv'
    BY <1>8, CommandSame DEF Disconnected, sockVars
  <2>2. ForkInv'
    BY <1>8 DEF Disconnected, Reading, sockVars, ForkInv, ForkTypeOK, SockTypeOK,
                OwnDescriptors, MainInv
  <2> QED
    BY <2>1, <2>2
<1>9. ASSUME NEW c \in Client, SigPipe(c) PROVE ForkInv' /\ CommandInv'
  <2>1. CommandInv'
    BY <1>9, ForkSame, CommandForget DEF SigPipe
  <2>2. ForkInv'
    BY <1>9, ChildGone DEF SigPipe, ChildDies, ForkInv, ForkTypeOK
  <2> QED
    BY <2>1, <2>2
<1>10. ASSUME NEW c \in Client, ConnectStep(c) PROVE ForkInv' /\ CommandInv'
  BY <1>10, ForkConnect, CommandConnect DEF ConnectStep
<1>11. ASSUME NEW c \in Client, Answered(c) PROVE ForkInv' /\ CommandInv'
  BY <1>11, ForkStream, CommandAnswered DEF Answered, ClientRead
<1>12. ASSUME NEW c \in Client, NEW t \in Command, Ask(c, t) PROVE ForkInv' /\ CommandInv'
  BY <1>12, ForkStream, CommandAsk DEF Ask, ClientWrite
<1>13. ASSUME NEW p \in Process, KillProcess(p) PROVE ForkInv' /\ CommandInv'
  BY <1>13, ForkFaults, ForkSame, CommandForget DEF KillProcess
<1>14. CASE UNCHANGED vars
  BY <1>14, ForkStream, CommandSame DEF vars, sockVars, ends
<1> QED
  BY <1>1, <1>2, <1>3, <1>4, <1>5, <1>6, <1>7, <1>8, <1>9, <1>10, <1>11, <1>12, <1>13, <1>14
     DEF Next, ProcessCommand

THEOREM DeviceInvariant == Spec => []IInv
BY InitHolds, StepHolds, PTL DEF Spec

(* Types and bounds hold throughout: the LED is on or off, no client asks  *)
(* more than it may, and the streams carry words and results.              *)
THEOREM DeviceTypeOK == Spec => []TypeOK
<1>1. IInv => TypeOK
  BY DEF IInv, ForkInv, CommandInv, Streams, CommandTypes, TypeOK
<1> QED
  BY <1>1, DeviceInvariant, PTL

(* However accept, fork, exit and kill interleave, no connection is held   *)
(* by another client's child, nor by the parent but from accept to its     *)
(* close (device_server_bd.c:237-268).                                     *)
THEOREM DeviceOwnConnection == Spec => []OwnConnection
<1>1. IInv => OwnConnection
  BY DEF IInv, ForkInv, OwnConnection
<1> QED
  BY <1>1, DeviceInvariant, PTL
-----------------------------------------------------------------------------
(* The refinement: what it maps, and that a step is Do, Answer, Ask or     *)
(* changes none of it.                                                     *)
Same == UNCHANGED <<led, asked, done, told>>

LEMMA SameIsStutter == Same => UNCHANGED Device!vars
BY DEF Same, Device!vars

LEMMA StepImplements == IInv /\ [Next]_vars => [Device!Next]_(Device!vars)
<1> SUFFICES ASSUME IInv, [Next]_vars
             PROVE  Device!Next \/ Same
  BY SameIsStutter
<1> USE DEF IInv
<1>1. ASSUME NEW c \in Client, Do(c) PROVE Device!Do(c)
  <2>1. asked[c] = work[c] /\ asked[c] \in Command /\ done[c] = None
    BY <1>1, CommandDo
  <2>2. asked[c] # None /\ asked[c] # NoCommand
    BY <2>1, CommandIsTwo, DeviceAssumption DEF Command
  <2>3. UNCHANGED <<asked, told>>
    BY <1>1 DEF Do, clientVars
  <2> QED
    BY <1>1, <2>1, <2>2, <2>3 DEF Do, Device!Do
<1>2. ASSUME NEW c \in Client, Answered(c) PROVE Device!Answer(c)
  <2>1. done[c] # None /\ snd[c][1] = done[c] /\ asked[c] \in Command
    BY <1>2, CommandAnswered
  <2>2. asked \in [Client -> Command \cup {NoCommand}] /\ done \in [Client -> Result \cup {None}]
    BY DEF CommandInv, CommandTypes
  <2> QED
    BY <1>2, <2>1, <2>2 DEF Answered, Device!Answer
<1>3. ASSUME NEW c \in Client, NEW t \in Command, Ask(c, t) PROVE Device!Ask(c, t)
  <2>1. asked[c] = NoCommand /\ t # NoCommand
    BY <1>3, CommandIsTwo DEF Ask
  <2>2. asked \in [Client -> Command \cup {NoCommand}]
    BY DEF CommandInv, CommandTypes
  <2> QED
    BY <1>3, <2>1, <2>2 DEF Ask, Device!Ask
<1>4. ASSUME NEW c \in Client, ProcessCommand(c), ~ Do(c) PROVE Same
  BY <1>4 DEF ProcessCommand, Receive, Drop, Reply, Disconnected, deviceVars, clientVars, Same
<1>5. ASSUME ServerMain \/ ServerFails \/ (\E c \in Client : ServerChild(c) \/ ConnectStep(c))
      PROVE  Same
  BY <1>5 DEF ServerMain, ServerFails, ServerChild, ConnectStep, deviceVars, clientVars, Same
<1>6. ASSUME (\E c \in Client : SigPipe(c)) \/ (\E p \in Process : KillProcess(p)) PROVE Same
  BY <1>6 DEF SigPipe, KillProcess, Forget, clientVars, Same
<1>7. CASE UNCHANGED vars
  BY <1>7 DEF vars, deviceVars, clientVars, Same
<1> QED
  BY <1>1, <1>2, <1>3, <1>4, <1>5, <1>6, <1>7 DEF Next, Device!Next

(* For any number of clients, whatever they ask and whenever they or the   *)
(* processes end: a command is carried out at most once, never before it   *)
(* is asked, and answered with its own result (device_server_bd.c:140-180).*)
THEOREM DeviceImplements == Spec => ImplementsDevice
<1>1. Init => Device!Init
  BY DEF Init, Device!Init
<1>2. IInv /\ [Next]_vars => [Device!Next]_(Device!vars)
  BY StepImplements
<1> QED
  BY <1>1, <1>2, DeviceInvariant, PTL DEF Spec, ImplementsDevice, Device!Spec
-----------------------------------------------------------------------------
(***************************************************************************)
(* EX07-07.  A connection is accepted once and its child is started once,  *)
(* so that a child begins with a new session; what a session holds follows *)
(* from where it is in process_command; and unless the session of a client *)
(* broke down or its child took another client, of the port the child has  *)
(* told it there is one copy: on the way, with the client, or turned into  *)
(* the client's place in the child's queue.                                *)
(***************************************************************************)
OnceInv ==
    /\ \A i, j \in 1 .. Len(queue) : queue[i] = queue[j] => i = j
    /\ \A i \in 1 .. Len(queue) : link[queue[i]] = "queued"
    /\ \A c \in Client : child[c] # "none" => link[c] \in {"open", "over"}
    /\ main = "fork" => child[sfd_client] = "none" /\ link[sfd_client] \in {"open", "over"}

FtpReply == {"OK", "ERR"} \cup Port
FtpStreams == rcv \in [Client -> Seq(Line)] /\ snd \in [Client -> Seq(FtpReply)]

InPhase(r) ==
    /\ r.pc \in {"read", "run", "new"} => r.server = "none"
    /\ r.pc = "listen" => r.server = "bound"
    /\ r.pc \in {"ok", "accept"} => r.server \in {"listen", "1"}
    /\ r.pc \in {"send", "sent", "close"} => r.server = "listen"
    /\ r.pc \in {"send", "sent"} <=> r.client # None
    /\ r.server # "none" => r.drawn # 0
Balance(r, i) ==
    r.nfd = 1 + i + r.lost + (IF r.server \in {"bound", "listen"} THEN 1 ELSE 0)
                           + (IF r.client # None THEN 1 ELSE 0)

(* What a child leaves in s when it ends is not read again.                *)
Phases == \A c \in Client : child[c] \in {"none", "start", "serve"} => InPhase(s[c])
Balances == \A c \in Client : Balance(s[c], inherited)
PortsApart ==
    \A c, d \in Client :
        s[c].server = "listen" /\ s[d].server = "listen" /\ Rand[s[c].drawn] = Rand[s[d].drawn]
        => c = d
SessionTypes ==
    /\ s \in [Client -> Session] /\ cli \in [Client -> User]
    /\ inherited \in Inherited /\ busy \in 0 .. MaxBusy
    /\ broken \subseteq Client /\ crossed \subseteq Client
Sessions == SessionTypes /\ Phases /\ Balances /\ PortsApart

(* c is in the queue of the child of d.                                    *)
Queued(c, d) == \E i \in 1 .. Len(s[d].queue) : s[d].queue[i] = c

(* The child of c is in accept, and c has not connected to its port p.     *)
Waits(c, p) ==
    /\ child[c] = "serve" /\ s[c].pc = "accept" /\ ~ Queued(c, c)
    /\ s[c].server = "listen" /\ Rand[s[c].drawn] = p
PortIsKept(c) ==
    /\ cli[c].told # None => Waits(c, cli[c].told)
    /\ \A i \in 1 .. Len(snd[c]) : snd[c][i] \in Port =>
          Waits(c, snd[c][i]) /\ cli[c].told = None
    /\ \A i, j \in 1 .. Len(snd[c]) : snd[c][i] \in Port /\ snd[c][j] \in Port => i = j
OwnSession(c) ==
    /\ \A d \in Client : Queued(c, d) => d = c /\ s[c].pc = "accept"
    /\ \A i, j \in 1 .. Len(s[c].queue) : s[c].queue[i] = c /\ s[c].queue[j] = c => i = j
    /\ \A d \in Client : s[d].client = c => d = c
    /\ cli[c].data # None => cli[c].data.from = c
    /\ c \notin shut => PortIsKept(c)
Astray == broken \cup crossed
OwnInv ==
    /\ \A c \in Client : s[c].server = "1" => c \in broken
    /\ broken = {} => crossed = {}
    /\ \A c \in Client \ Astray : OwnSession(c)

FtpInv == ForkInv /\ OnceInv /\ FtpStreams /\ Sessions /\ OwnInv

(* A process that forks and one that ends, seen from the queue.            *)
LEMMA OnceHold ==
    ASSUME SockTypeOK, OnceInv, NEW l, NEW f, Hold(l, f)
    PROVE  /\ \A i, j \in 1 .. Len(queue') : queue'[i] = queue'[j] => i = j
           /\ \A i \in 1 .. Len(queue') : link'[queue'[i]] = "queued"
           /\ \A c \in Client : link[c] \in {"open", "over"} => link'[c] \in {"open", "over"}
<1>1. CASE l = {}
  <2>1. queue' = <<>> /\ Len(<<>>) = 0
    BY <1>1 DEF Hold
  <2> QED
    BY <2>1 DEF Hold
<1>2. CASE l # {}
  <2>1. queue' = queue
    BY <1>2 DEF Hold
  <2>2. \A i \in 1 .. Len(queue) : queue[i] \in Client
    BY DEF SockTypeOK
  <2> QED
    BY <1>2, <2>1, <2>2 DEF Hold, OnceInv
<1> QED
  BY <1>1, <1>2

LEMMA OnceMain == ASSUME ForkInv, OnceInv, MainStep PROVE OnceInv'
<1> USE DEF ForkInv, ForkTypeOK
<1>1. CASE Accept
  <2>1. queue \in Seq(Client) /\ queue # <<>>
    BY <1>1 DEF Accept, SockAccept, SockTypeOK
  <2>2. PICK q \in Seq(Client) : q = queue
    BY <2>1
  <2>3. /\ Head(q) = q[1] /\ Len(q) \in Nat /\ Len(q) >= 1 /\ Tail(q) \in Seq(Client)
        /\ Len(Tail(q)) = Len(q) - 1
        /\ \A i \in 1 .. Len(Tail(q)) : Tail(q)[i] = q[i + 1]
    BY <2>1, <2>2
  <2>4. \A i \in 1 .. Len(Tail(q)) : i + 1 \in 1 .. Len(q) /\ i + 1 # 1 /\ q[i + 1] \in Client
    BY <2>3
  <2>5. 1 \in 1 .. Len(q) /\ q[1] \in Client
    BY <2>3
  <2>6. link[q[1]] = "queued" /\ child[q[1]] = "none"
    BY <2>2, <2>5 DEF OnceInv
  <2>7. /\ link' = [link EXCEPT ![q[1]] = "open"] /\ queue' = Tail(q)
        /\ sfd_client' = q[1] /\ child' = child
    BY <1>1, <2>2, <2>3 DEF Accept, SockAccept
  <2>8. \A i, j \in 1 .. Len(Tail(q)) : Tail(q)[i] = Tail(q)[j] => i = j
    <3> TAKE i, j \in 1 .. Len(Tail(q))
    <3> HAVE Tail(q)[i] = Tail(q)[j]
    <3>1. q[i + 1] = q[j + 1]
      BY <2>3
    <3>2. i + 1 = j + 1
      BY <2>2, <2>4, <3>1 DEF OnceInv
    <3> QED
      BY <2>3, <3>2
  <2>9. \A i \in 1 .. Len(Tail(q)) : Tail(q)[i] # q[1] /\ link[Tail(q)[i]] = "queued"
    BY <2>2, <2>3, <2>4, <2>5 DEF OnceInv
  <2>10. \A i \in 1 .. Len(queue') : link'[queue'[i]] = "queued"
    BY <2>3, <2>4, <2>7, <2>9 DEF SockTypeOK
  <2>11. \A c \in Client : child'[c] # "none" => link'[c] \in {"open", "over"}
    BY <2>5, <2>7 DEF OnceInv, SockTypeOK
  <2>12. child'[sfd_client'] = "none" /\ link'[sfd_client'] \in {"open", "over"}
    BY <2>5, <2>6, <2>7 DEF SockTypeOK
  <2> QED
    BY <2>7, <2>8, <2>10, <2>11, <2>12 DEF OnceInv
<1>2. CASE Fork
  <2>1. PICK l, f : Hold(l, f)
    BY <1>2 DEF Fork, SockFork
  <2>2. sfd_client \in Client
    BY <1>2 DEF Fork, MainInv
  <2> QED
    BY <1>2, <2>1, <2>2, OnceHold DEF Fork, OnceInv
<1>3. CASE ParentClose
  <2>1. PICK l, f : Hold(l, f)
    BY <1>3 DEF ParentClose, CloseConn
  <2> QED
    BY <1>3, <2>1, OnceHold DEF ParentClose, OnceInv
<1> QED
  BY <1>1, <1>2, <1>3 DEF MainStep

(* A child that has been started goes on or ends.                          *)
LEMMA OnceChild ==
    ASSUME ForkInv, OnceInv, NEW c \in Client, child[c] # "none",
           NEW l, NEW f, Hold(l, f), NEW e, child' = [child EXCEPT ![c] = e],
           UNCHANGED <<main, sfd_client>>
    PROVE  OnceInv'
<1>1. main = "fork" => child'[sfd_client] = "none" /\ sfd_client \in Client
  BY DEF OnceInv, ForkInv, ForkTypeOK, MainInv
<1> QED
  BY <1>1, OnceHold DEF OnceInv, ForkInv, ForkTypeOK

LEMMA OnceMainGone ==
    ASSUME ForkInv, OnceInv, SockExit(Main), main' = "off", child' = child
    PROVE  OnceInv'
BY OnceHold DEF OnceInv, SockExit, ForkInv, ForkTypeOK

LEMMA OnceConnect ==
    ASSUME ForkInv, OnceInv, NEW c \in Client, Connect(c) \/ Refused(c) \/ ClientClose(c),
           UNCHANGED forkVars
    PROVE  OnceInv'
<1> USE DEF ForkInv, ForkTypeOK, SockTypeOK
<1>1. /\ queue \in Seq(Client) /\ Len(queue) \in Nat
      /\ main = "fork" => sfd_client \in Client
      /\ \A i \in 1 .. Len(queue) : queue[i] \in Client
  BY DEF MainInv
<1>2. CASE Connect(c)
  <2>1. PICK q \in Seq(Client) : q = queue
    BY <1>1
  <2>2. /\ Len(Append(q, c)) = Len(q) + 1 /\ Append(q, c)[Len(q) + 1] = c
        /\ \A i \in 1 .. Len(q) : Append(q, c)[i] = q[i] /\ q[i] \in Client
    OBVIOUS
  <2>3. link[c] = "new" /\ link' = [link EXCEPT ![c] = "queued"] /\ queue' = Append(q, c)
    BY <1>2, <2>1 DEF Connect
  <2>4. \A i \in 1 .. Len(q) : q[i] # c /\ link'[q[i]] = "queued"
    BY <2>1, <2>2, <2>3 DEF OnceInv
  <2>5. \A i \in 1 .. Len(q) + 1 : i \in 1 .. Len(q) \/ i = Len(q) + 1
    BY <1>1, <2>1
  <2>6. \A i \in 1 .. Len(queue') : link'[queue'[i]] = "queued"
    BY <2>2, <2>3, <2>4, <2>5
  <2>7. \A i, j \in 1 .. Len(queue') : queue'[i] = queue'[j] => i = j
    BY <2>1, <2>2, <2>3, <2>4, <2>5 DEF OnceInv
  <2>8. /\ \A d \in Client : child'[d] # "none" => link'[d] \in {"open", "over"}
        /\ main' = "fork" => child'[sfd_client'] = "none" /\ link'[sfd_client'] \in {"open", "over"}
    BY <1>1, <2>3 DEF OnceInv, forkVars
  <2> QED
    BY <2>6, <2>7, <2>8 DEF OnceInv
<1>3. CASE Refused(c)
  BY <1>1, <1>3 DEF OnceInv, Refused, forkVars
<1>4. CASE ClientClose(c)
  BY <1>4 DEF OnceInv, ClientClose, ends, forkVars
<1> QED
  BY <1>2, <1>3, <1>4

LEMMA OnceStream == ASSUME OnceInv, UNCHANGED <<ends, forkVars>> PROVE OnceInv'
BY DEF OnceInv, ends, forkVars

(* The ports a child can draw.                                             *)
LEMMA RandTypes ==
    /\ Len(Rand) \in Nat \ {0} /\ \A i \in 1 .. Len(Rand) : Rand[i] \in Port
    /\ Rand \in Seq(Port)
BY FtpAssumption DEF Port

LEMMA DrawTypes ==
    ASSUME NEW c \in Client, s \in [Client -> Session]
    PROVE  Draw(c) \in 1 .. Len(Rand)
<1>1. s[c].drawn \in Nat
  BY RandTypes DEF Session
<1> QED
  BY <1>1, RandTypes DEF Draw

LEMMA BusyTypes == ASSUME busy \in 0 .. MaxBusy, Busy PROVE busy' \in 0 .. MaxBusy
BY FtpAssumption DEF Busy

(* What is written, and what is left of a stream after one line was read.  *)
LEMMA AppendOne ==
    ASSUME NEW S, NEW q \in Seq(S), NEW e \in S
    PROVE  /\ q \o <<e>> \in Seq(S) /\ Len(q \o <<e>>) = Len(q) + 1 /\ Len(q) \in Nat
           /\ \A i \in 1 .. Len(q) : (q \o <<e>>)[i] = q[i] /\ (q \o <<e>>)[Len(q) + 1] = e
OBVIOUS

LEMMA DropOne ==
    ASSUME NEW S, NEW q \in Seq(S), 1 \in 1 .. Len(q)
    PROVE  /\ SubSeq(q, 1 + 1, Len(q)) \in Seq(S) /\ q[1] \in S /\ Len(q) \in Nat
           /\ Len(SubSeq(q, 1 + 1, Len(q))) = Len(q) - 1
           /\ \A i \in 1 .. Len(q) - 1 :
                 SubSeq(q, 1 + 1, Len(q))[i] = q[i + 1] /\ i + 1 \in 1 .. Len(q)
OBVIOUS

(* s, of which one session changes.                                        *)
LEMMA SessionsStep ==
    ASSUME Sessions, NEW c \in Client, NEW r \in Session, s' = [s EXCEPT ![c] = r],
           \A d \in Client \ {c} :
               child'[d] \in {"none", "start", "serve"} => child[d] \in {"none", "start", "serve"},
           child'[c] \in {"none", "start", "serve"} => InPhase(r),
           Balance(r, inherited),
           r.server = "listen" =>
               (s[c].server = "listen" /\ r.drawn = s[c].drawn) \/ Free(c, Rand[r.drawn]),
           inherited' = inherited, cli' \in [Client -> User],
           busy' \in 0 .. MaxBusy, broken' \subseteq Client /\ crossed' \subseteq Client
    PROVE  Sessions'
<1> USE DEF Sessions
<1>1. s' \in [Client -> Session] /\ s'[c] = r /\ \A d \in Client \ {c} : s'[d] = s[d]
  BY DEF SessionTypes
<1>2. SessionTypes'
  BY <1>1 DEF SessionTypes
<1>3. Phases' /\ Balances'
  BY <1>1 DEF Phases, Balances
<1>4. PortsApart'
  BY <1>1 DEF PortsApart, Free, Listening
<1> QED
  BY <1>2, <1>3, <1>4

(* A session is as good as it was for a client whose own part, and what is *)
(* on its way to it, do not change, if nobody else gets to know it.        *)
LEMMA OwnKept ==
    ASSUME NEW d \in Client, OwnSession(d), cli'[d] = cli[d], snd'[d] = snd[d],
           child[d] = "serve" => child'[d] = "serve", shut' = shut,
           s'[d].pc = s[d].pc, s'[d].server = s[d].server, s'[d].drawn = s[d].drawn,
           \A i, j \in 1 .. Len(s'[d].queue) :
               s'[d].queue[i] = d /\ s'[d].queue[j] = d => i = j,
           \A e \in Client : Queued(d, e)' => Queued(d, e),
           \A e \in Client : s'[e].client = d => s[e].client = d
    PROVE  OwnSession(d)'
<1>1. \A p : Waits(d, p) => Waits(d, p)'
  BY DEF Waits
<1>2. PortIsKept(d) => PortIsKept(d)'
  BY <1>1 DEF PortIsKept
<1> QED
  BY <1>2 DEF OwnSession

(* The same for the others when the child of c moves.                      *)
LEMMA OthersKept ==
    ASSUME NEW c \in Client, NEW d \in Client \ {c}, OwnSession(d), NEW r,
           s \in [Client -> Session], s' = [s EXCEPT ![c] = r],
           (\E i \in 1 .. Len(r.queue) : r.queue[i] = d) => Queued(d, c),
           r.client = d => s[c].client = d,
           cli'[d] = cli[d], snd'[d] = snd[d], child[d] = "serve" => child'[d] = "serve",
           shut' = shut
    PROVE  OwnSession(d)'
<1>1. s'[c] = r /\ \A e \in Client \ {c} : s'[e] = s[e]
  OBVIOUS
<1>2. \A e \in Client : Queued(d, e)' => Queued(d, e)
  BY <1>1 DEF Queued
<1>3. \A i, j \in 1 .. Len(s'[d].queue) : s'[d].queue[i] = d /\ s'[d].queue[j] = d => i = j
  BY <1>1 DEF OwnSession
<1> QED
  BY <1>1, <1>2, <1>3, OwnKept

(* The same when no child moves.                                           *)
LEMMA StillKept ==
    ASSUME NEW d \in Client, OwnSession(d), s' = s, cli'[d] = cli[d], snd'[d] = snd[d],
           child[d] = "serve" => child'[d] = "serve", shut' = shut
    PROVE  OwnSession(d)'
<1>1. \A e \in Client : Queued(d, e)' => Queued(d, e)
  BY DEF Queued
<1>2. \A i, j \in 1 .. Len(s'[d].queue) : s'[d].queue[i] = d /\ s'[d].queue[j] = d => i = j
  BY DEF OwnSession
<1> QED
  BY <1>1, <1>2, OwnKept

LEMMA NoneQueued == \A e : ~ \E i \in 1 .. Len(<<>>) : <<>>[i] = e
<1>1. Len(<<>>) = 0
  OBVIOUS
<1> QED
  BY <1>1

(* Outside accept nothing is told, and nothing but a port matters.         *)
LEMMA NothingTold ==
    ASSUME NEW c \in Client, OwnSession(c), c \notin shut, ~ (child[c] = "serve" /\ s[c].pc = "accept")
    PROVE  cli[c].told = None /\ \A i \in 1 .. Len(snd[c]) : snd[c][i] \notin Port
BY DEF OwnSession, PortIsKept, Waits

(* A step of a child outside accept that may write an answer: what its     *)
(* client is told and sent, and the rest of the invariant.                 *)
LEMMA BusyOwn ==
    ASSUME FtpInv, NEW c \in Client, s[c].pc # "accept" \/ c \in broken',
           NEW r \in Session, s' = [s EXCEPT ![c] = r],
           r.server = "1" => s[c].server = "1" \/ c \in broken',
           r.queue = s[c].queue \/ r.queue = <<>>, r.client \in {s[c].client, None},
           NEW e \in {"OK", "ERR"}, snd' = snd \/ snd' = [snd EXCEPT ![c] = snd[c] \o <<e>>],
           \A d \in Client \ {c} : child'[d] = child[d], UNCHANGED <<cli, shut, crossed>>,
           broken' \in {broken, broken \cup {c}}
    PROVE  OwnInv'
<1>1. s'[c] = r /\ (\A d \in Client \ {c} : s'[d] = s[d]) /\ s \in [Client -> Session]
  BY DEF FtpInv, Sessions, SessionTypes
<1>2. snd \in [Client -> Seq(FtpReply)] /\ snd[c] \in Seq(FtpReply)
  BY DEF FtpInv, FtpStreams
<1>3. \A d \in Client : s'[d].server = "1" => d \in broken'
  BY <1>1 DEF FtpInv, OwnInv
<1>4. broken' = {} => crossed' = {}
  BY DEF FtpInv, OwnInv
<1>5. None \notin Client
  BY ForkAssumption
<1>6. ASSUME NEW d \in Client \ Astray', d # c PROVE OwnSession(d)'
  <2>1. OwnSession(d) /\ snd'[d] = snd[d] /\ child'[d] = child[d]
    BY <1>2, <1>6 DEF FtpInv, OwnInv, Astray
  <2>2. (\E i \in 1 .. Len(r.queue) : r.queue[i] = d) => Queued(d, c)
    BY NoneQueued DEF Queued
  <2>3. r.client = d => s[c].client = d
    BY <1>5
  <2> QED
    BY <1>1, <1>6, <2>1, <2>2, <2>3, OthersKept
<1>7. ASSUME c \notin Astray' PROVE OwnSession(c)'
  <2>1. OwnSession(c) /\ s[c].pc # "accept" /\ ~ Queued(c, c)
    BY <1>7 DEF FtpInv, OwnInv, Astray, OwnSession
  <2>2. ~ Queued(c, c)'
    BY <1>1, <2>1, NoneQueued DEF Queued
  <2>3. \A d \in Client : (Queued(c, d)' => d = c /\ s'[c].pc = "accept") /\ (s'[d].client = c => d = c)
    BY <1>1, <2>1, <2>2 DEF OwnSession, Queued
  <2>4. ASSUME c \notin shut PROVE PortIsKept(c)'
    <3>1. cli[c].told = None /\ \A i \in 1 .. Len(snd[c]) : snd[c][i] \notin Port
      BY <2>1, <2>4, NothingTold
    <3>2. e \notin Port /\ e \in FtpReply
      BY FtpAssumption DEF FtpReply
    <3>3. CASE snd' = snd
      BY <3>1, <3>3 DEF PortIsKept
    <3>4. CASE snd' = [snd EXCEPT ![c] = snd[c] \o <<e>>]
      <4>1. PICK q \in Seq(FtpReply) : q = snd[c]
        BY <1>2
      <4>2. snd'[c] = q \o <<e>>
        BY <1>2, <3>4, <4>1
      <4>3. \A i \in 1 .. Len(q \o <<e>>) : i \in 1 .. Len(q) \/ i = Len(q) + 1
        BY <3>2, AppendOne
      <4>4. \A i \in 1 .. Len(snd'[c]) : snd'[c][i] \notin Port
        BY <3>1, <3>2, <4>1, <4>2, <4>3, AppendOne
      <4> QED
        BY <3>1, <4>4 DEF PortIsKept
    <3> QED
      BY <3>3, <3>4
  <2>5. \A i, j \in 1 .. Len(s'[c].queue) : s'[c].queue[i] = c /\ s'[c].queue[j] = c => i = j
    BY <2>2 DEF Queued
  <2> QED
    BY <2>1, <2>3, <2>4, <2>5 DEF OwnSession
<1> QED
  BY <1>3, <1>4, <1>6, <1>7 DEF OwnInv

LEMMA BusyStep ==
    ASSUME FtpInv, NEW c \in Client, child[c] = "serve", s[c].pc # "accept",
           NEW r \in Session, s' = [s EXCEPT ![c] = r],
           InPhase(r), Balance(r, inherited),
           r.server = "listen" =>
               (s[c].server = "listen" /\ r.drawn = s[c].drawn) \/ Free(c, Rand[r.drawn]),
           r.server = "1" => s[c].server = "1" \/ c \in broken',
           broken' \in {broken, broken \cup {c}},
           r.queue = s[c].queue \/ r.queue = <<>>, r.client \in {s[c].client, None},
           NEW e \in {"OK", "ERR"}, snd' = snd \/ snd' = [snd EXCEPT ![c] = snd[c] \o <<e>>],
           rcv' \in [Client -> Seq(Line)],
           UNCHANGED <<ends, shut, forkVars, cli, inherited, crossed>>, busy' \in 0 .. MaxBusy
    PROVE  FtpInv'
<1> USE DEF FtpInv
<1>1. ForkInv' /\ OnceInv'
  BY ForkStream, OnceStream
<1>2. FtpStreams'
  <2>1. snd[c] \in Seq(FtpReply) /\ e \in FtpReply
    BY DEF FtpStreams, FtpReply
  <2>2. snd[c] \o <<e>> \in Seq(FtpReply)
    BY <2>1, AppendOne
  <2> QED
    BY <2>1, <2>2 DEF FtpStreams
<1>3. child' = child /\ cli' \in [Client -> User] /\ broken' \subseteq Client /\ crossed' \subseteq Client
  BY DEF forkVars, Sessions, SessionTypes
<1>4. Sessions'
  BY <1>3, SessionsStep
<1>5. OwnInv'
  BY <1>3, BusyOwn
<1> QED
  BY <1>1, <1>2, <1>4, <1>5
-----------------------------------------------------------------------------
(* The steps of process_command that keep within BusyStep.  Each picks the *)
(* session r that the step leaves behind.                                  *)
LEMMA Serving ==
    ASSUME FtpInv, NEW c \in Client, child[c] = "serve"
    PROVE  /\ s \in [Client -> Session] /\ s[c] \in Session /\ InPhase(s[c])
           /\ Balance(s[c], inherited) /\ inherited \in Nat /\ busy \in 0 .. MaxBusy
           /\ rcv \in [Client -> Seq(Line)] /\ snd \in [Client -> Seq(FtpReply)]
           /\ cli \in [Client -> User] /\ Retry \in Nat /\ FdMax \in Nat
BY FtpAssumption DEF FtpInv, Sessions, SessionTypes, Phases, Balances, FtpStreams

(* The numbers of descriptors of a child that serves.                      *)
LEMMA Counted ==
    ASSUME FtpInv, NEW c \in Client, child[c] = "serve"
    PROVE  /\ s[c].nfd \in Nat /\ s[c].nfd <= FdMax /\ FdMax \in Nat
           /\ s[c].lost \in Nat /\ s[c].lost <= FdMax /\ inherited \in Nat
           /\ s[c].nfd = 1 + inherited + s[c].lost
                         + (IF s[c].server \in {"bound", "listen"} THEN 1 ELSE 0)
                         + (IF s[c].client # None THEN 1 ELSE 0)
<1>1. s[c] \in Session /\ Balance(s[c], inherited) /\ FdMax \in Nat /\ inherited \in Nat
  BY Serving
<1>2. s[c].nfd \in 0 .. FdMax /\ s[c].lost \in 0 .. FdMax
  BY <1>1, Zenon DEF Session
<1>3. /\ s[c].nfd \in Nat /\ s[c].nfd <= FdMax
      /\ s[c].lost \in Nat /\ s[c].lost <= FdMax
  BY <1>1, <1>2
<1> QED
  BY <1>1, <1>3, Zenon DEF Balance

LEMMA Answers ==
    ASSUME FtpStreams, NEW c \in Client, NEW e, Answer(c, e)
    PROVE  /\ snd' = snd \/ snd' = [snd EXCEPT ![c] = snd[c] \o <<e>>]
           /\ rcv' \in [Client -> Seq(Line)]
           /\ UNCHANGED <<ends, shut, forkVars, cli, inherited, busy, broken, crossed>>
BY DEF Answer, SockWrite, FtpStreams, hist

LEMMA QuietStep ==
    ASSUME FtpStreams, Quietly
    PROVE  /\ snd' = snd /\ rcv' \in [Client -> Seq(Line)]
           /\ UNCHANGED <<ends, shut, forkVars, cli, inherited, busy, broken, crossed>>
BY DEF Quietly, FtpStreams, sockVars, ends, hist

LEMMA FtpReceive == ASSUME FtpInv, NEW c \in Client, ReceiveLine(c) PROVE FtpInv'
<1>1. child[c] = "serve" /\ s[c].pc = "read"
  BY DEF ReceiveLine, At
<1>2. 1 \in 1 .. Len(rcv[c]) /\ rcv[c] \in Seq(Line) /\ s[c] \in Session
  BY <1>1, Serving DEF ReceiveLine, SockRead
<1>3. SubSeq(rcv[c], 1 + 1, Len(rcv[c])) \in Seq(Line) /\ rcv[c][1] \in Line
  BY <1>2, DropOne
<1> DEFINE l == rcv[c][1]
           p == IF l \in Transfer THEN "new" ELSE "run"
           n == IF l \in Transfer THEN Retry ELSE 0
           q == [s[c] EXCEPT !.line = l, !.pc = p, !.retry = n]
<1>4. p \in {"new", "run"} /\ n \in 0 .. Retry
  BY <1>1, Serving
<1>5. s' = [s EXCEPT ![c] = q]
  BY Zenon DEF ReceiveLine
<1>6. q \in Session
  <2> HIDE DEF l, p, n
  <2> QED
    BY <1>2, <1>3, <1>4, Zenon DEF Session, l
<1>7. /\ q.pc = p /\ q.server = s[c].server /\ q.client = s[c].client /\ q.queue = s[c].queue
      /\ q.nfd = s[c].nfd /\ q.lost = s[c].lost /\ q.drawn = s[c].drawn
  BY <1>2, Zenon DEF Session
<1>8. PICK r \in Session :
          /\ s' = [s EXCEPT ![c] = r] /\ r.pc \in {"new", "run"}
          /\ r.server = s[c].server /\ r.client = s[c].client /\ r.queue = s[c].queue
          /\ r.nfd = s[c].nfd /\ r.lost = s[c].lost /\ r.drawn = s[c].drawn
  <2> HIDE DEF p, q
  <2> QED
    BY <1>4, <1>5, <1>6, <1>7
<1>9. InPhase(r) /\ Balance(r, inherited) /\ s[c].server = "none"
  BY <1>1, <1>8, Serving DEF InPhase, Balance
<1>10. rcv' \in [Client -> Seq(Line)] /\ snd' = snd
  BY <1>1, <1>3, Serving DEF ReceiveLine, SockRead
<1>11. UNCHANGED <<ends, shut, forkVars, cli, inherited, busy, broken, crossed>>
  BY DEF ReceiveLine, SockRead, hist
<1> QED
  BY <1>1, <1>8, <1>9, <1>10, <1>11, Serving, BusyStep

(* Back to read: the line is dealt with.                                   *)
LEMMA DoneLine ==
    ASSUME FtpInv, NEW c \in Client, child[c] = "serve",
           s' = [s EXCEPT ![c].pc = "read", ![c].line = None]
    PROVE  \E r \in Session :
             /\ s' = [s EXCEPT ![c] = r] /\ r.pc = "read"
             /\ r.server = s[c].server /\ r.client = s[c].client /\ r.queue = s[c].queue
             /\ r.nfd = s[c].nfd /\ r.lost = s[c].lost /\ r.drawn = s[c].drawn
<1> DEFINE q == [s[c] EXCEPT !.pc = "read", !.line = None]
<1>1. s' = [s EXCEPT ![c] = q]
  BY Zenon
<1>2. s[c] \in Session
  BY Serving
<1>3. q \in Session
  BY <1>2, Zenon DEF Session
<1>4. /\ q.pc = "read" /\ q.server = s[c].server /\ q.client = s[c].client /\ q.queue = s[c].queue
      /\ q.nfd = s[c].nfd /\ q.lost = s[c].lost /\ q.drawn = s[c].drawn
  BY <1>2, Zenon DEF Session
<1> HIDE DEF q
<1> QED
  BY <1>1, <1>3, <1>4

LEMMA FtpCommand ==
    ASSUME FtpInv, NEW c \in Client, Pwd(c) \/ Ignore(c) \/ NoPort(c)
    PROVE  FtpInv'
<1>1. child[c] = "serve" /\ s[c].pc \in {"run", "new"}
      /\ s' = [s EXCEPT ![c].pc = "read", ![c].line = None]
  BY DEF Pwd, Ignore, NoPort, At
<1>2. PICK r \in Session :
             /\ s' = [s EXCEPT ![c] = r] /\ r.pc = "read"
             /\ r.server = s[c].server /\ r.client = s[c].client /\ r.queue = s[c].queue
             /\ r.nfd = s[c].nfd /\ r.lost = s[c].lost /\ r.drawn = s[c].drawn
  BY <1>1, DoneLine
<1>3. InPhase(r) /\ Balance(r, inherited) /\ s[c].server = "none"
  BY <1>1, <1>2, Serving DEF InPhase, Balance
<1>4. PICK e \in {"OK", "ERR"} :
          /\ snd' = snd \/ snd' = [snd EXCEPT ![c] = snd[c] \o <<e>>]
          /\ rcv' \in [Client -> Seq(Line)]
          /\ UNCHANGED <<ends, shut, forkVars, cli, inherited, busy, broken, crossed>>
  BY Answers, QuietStep DEF Pwd, Ignore, NoPort, FtpInv
<1> QED
  BY <1>1, <1>2, <1>3, <1>4, Serving, BusyStep

LEMMA FtpPwdFails == ASSUME FtpInv, NEW c \in Client, PwdFails(c) PROVE FtpInv'
<1>1. child[c] = "serve" /\ s[c].pc = "run"
  BY DEF PwdFails, At
<1>2. PICK n \in IF Room(c, 2) THEN {0, 1} ELSE {0} :
          s' = [s EXCEPT ![c].pc = "read", ![c].line = None, ![c].nfd = @ + n, ![c].lost = @ + n]
  BY DEF PwdFails
<1>3. s[c] \in Session /\ Balance(s[c], inherited) /\ inherited \in Nat /\ FdMax \in Nat
  BY <1>1, Serving
<1>4. s[c].nfd + n \in 0 .. FdMax /\ s[c].lost + n \in 0 .. FdMax /\ n \in Nat
  <2>1. n \in {0, 1} /\ (n = 0 \/ s[c].nfd + 2 <= FdMax)
    BY DEF Room
  <2>2. s[c].server = "none" /\ s[c].client = None
    BY <1>1, Serving DEF InPhase
  <2>3. /\ s[c].nfd \in Nat /\ s[c].lost \in Nat /\ s[c].nfd <= FdMax
        /\ s[c].nfd = 1 + inherited + s[c].lost
    BY <1>1, <2>2, Counted
  <2> QED
    BY <1>3, <2>1, <2>3
<1>5. PICK r \in Session :
          /\ s' = [s EXCEPT ![c] = r] /\ r.pc = "read"
          /\ r.server = s[c].server /\ r.client = s[c].client /\ r.queue = s[c].queue
          /\ r.nfd = s[c].nfd + n /\ r.lost = s[c].lost + n /\ r.drawn = s[c].drawn
  <2> DEFINE q == [s[c] EXCEPT !.pc = "read", !.line = None, !.nfd = s[c].nfd + n,
                               !.lost = s[c].lost + n]
  <2>1. s' = [s EXCEPT ![c] = q]
    BY <1>2, Zenon
  <2>2. q \in Session
    BY <1>3, <1>4, Zenon DEF Session
  <2>3. /\ q.pc = "read" /\ q.server = s[c].server /\ q.client = s[c].client
        /\ q.queue = s[c].queue /\ q.nfd = s[c].nfd + n /\ q.lost = s[c].lost + n
        /\ q.drawn = s[c].drawn
    BY <1>3, Zenon DEF Session
  <2> HIDE DEF q
  <2> QED
    BY <2>1, <2>2, <2>3
<1>6. InPhase(r) /\ s[c].server = "none"
  BY <1>1, <1>5, Serving DEF InPhase
<1>7. Balance(r, inherited)
  <2>1. s[c].nfd \in Nat /\ s[c].lost \in Nat
    BY <1>3 DEF Session
  <2> QED
    BY <1>3, <1>4, <1>5, <2>1 DEF Balance
<1> QED
  BY <1>1, <1>5, <1>6, <1>7, Answers, BusyStep DEF PwdFails, FtpInv, Sessions, SessionTypes

(* new_server has a descriptor for its socket.                             *)
LEMMA TryTypes ==
    ASSUME FtpInv, NEW c \in Client, Trying(c), Room(c, 1)
    PROVE  /\ child[c] = "serve" /\ s[c].pc = "new" /\ s[c].server = "none" /\ s[c].client = None
           /\ s[c].retry - 1 \in 0 .. Retry /\ Draw(c) \in 0 .. Len(Rand) /\ Draw(c) # 0
           /\ s[c].nfd \in Nat /\ s[c].nfd + 1 \in 0 .. FdMax
           /\ s[c].lost \in Nat /\ s[c].lost + 1 \in 0 .. FdMax
           /\ inherited \in Nat /\ s[c].nfd = 1 + inherited + s[c].lost
<1>1. child[c] = "serve" /\ s[c].pc = "new" /\ s[c].retry > 0 /\ s[c].nfd + 1 <= FdMax
  BY DEF Trying, At, Room
<1>2. s[c].server = "none" /\ s[c].client = None
  BY <1>1, Serving DEF InPhase
<1>3. Draw(c) \in 0 .. Len(Rand) /\ Draw(c) # 0
  BY <1>1, Serving, DrawTypes, RandTypes
<1>4. s[c].retry \in Nat /\ s[c].retry <= Retry /\ s[c].nfd \in Nat /\ s[c].lost \in Nat
  BY <1>1, Serving DEF Session
<1>5. inherited \in Nat /\ Retry \in Nat /\ FdMax \in Nat /\ Balance(s[c], inherited)
  BY <1>1, Serving
<1>6. s[c].nfd = 1 + inherited + s[c].lost
  BY <1>2, <1>4, <1>5 DEF Balance
<1>7. /\ s[c].retry - 1 \in 0 .. Retry /\ s[c].nfd + 1 \in 0 .. FdMax
      /\ s[c].lost + 1 \in 0 .. FdMax
  BY <1>1, <1>4, <1>5, <1>6
<1> QED
  BY <1>1, <1>2, <1>3, <1>4, <1>5, <1>6, <1>7

LEMMA FtpBind == ASSUME FtpInv, NEW c \in Client, Bind(c) PROVE FtpInv'
<1>1. Trying(c) /\ Room(c, 1)
  BY DEF Bind
<1>2. s[c] \in Session /\ Balance(s[c], inherited) /\ inherited \in Nat
  BY <1>1, TryTypes, Serving
<1>3. PICK r \in Session :
          /\ s' = [s EXCEPT ![c] = r] /\ r.pc = "listen" /\ r.server = "bound"
          /\ r.client = s[c].client /\ r.queue = s[c].queue
          /\ r.nfd = s[c].nfd + 1 /\ r.lost = s[c].lost /\ r.drawn = Draw(c)
  <2> DEFINE q == [s[c] EXCEPT !.pc = "listen", !.retry = s[c].retry - 1, !.drawn = Draw(c),
                               !.server = "bound", !.nfd = s[c].nfd + 1]
  <2>1. s' = [s EXCEPT ![c] = q]
    BY Zenon DEF Bind
  <2>2. q \in Session
    BY <1>1, <1>2, TryTypes, Zenon DEF Session
  <2>3. /\ q.pc = "listen" /\ q.server = "bound" /\ q.client = s[c].client
        /\ q.queue = s[c].queue /\ q.nfd = s[c].nfd + 1 /\ q.lost = s[c].lost
        /\ q.drawn = Draw(c)
    BY <1>2, Zenon DEF Session
  <2> HIDE DEF q
  <2> QED
    BY <2>1, <2>2, <2>3
<1>4. InPhase(r)
  BY <1>1, <1>3, TryTypes DEF InPhase
<1>5. Balance(r, inherited)
  <2>1. /\ s[c].nfd = 1 + inherited + s[c].lost
        /\ inherited \in Nat /\ s[c].nfd \in Nat /\ s[c].lost \in Nat
    BY <1>1, TryTypes
  <2>2. r.server = "bound" /\ r.client = None
    BY <1>1, <1>3, TryTypes
  <2> QED
    BY <1>3, <2>1, <2>2 DEF Balance
<1>6. /\ snd' = snd /\ rcv' \in [Client -> Seq(Line)]
      /\ UNCHANGED <<ends, shut, forkVars, cli, inherited, busy, broken, crossed>>
  BY QuietStep DEF Bind, FtpInv
<1> QED
  BY <1>1, <1>3, <1>4, <1>5, <1>6, TryTypes, Serving, BusyStep

LEMMA FtpBindFails ==
    ASSUME FtpInv, NEW c \in Client, BindFails(c)
    PROVE  FtpInv'
<1>1. Trying(c) /\ Room(c, 1)
  BY DEF BindFails
<1>2. s[c] \in Session /\ Balance(s[c], inherited) /\ inherited \in Nat
  BY <1>1, TryTypes, Serving
<1>3. PICK r \in Session :
          /\ s' = [s EXCEPT ![c] = r] /\ r.pc = s[c].pc /\ r.server = s[c].server
          /\ r.client = s[c].client /\ r.queue = s[c].queue
          /\ r.nfd = s[c].nfd + 1 /\ r.lost = s[c].lost + 1 /\ r.drawn = Draw(c)
  <2> DEFINE q == [s[c] EXCEPT !.retry = s[c].retry - 1, !.drawn = Draw(c),
                               !.nfd = s[c].nfd + 1, !.lost = s[c].lost + 1]
  <2>1. s' = [s EXCEPT ![c] = q]
    BY Zenon DEF BindFails
  <2>2. q \in Session
    BY <1>1, <1>2, TryTypes, Zenon DEF Session
  <2>3. /\ q.pc = s[c].pc /\ q.server = s[c].server /\ q.client = s[c].client
        /\ q.queue = s[c].queue /\ q.nfd = s[c].nfd + 1 /\ q.lost = s[c].lost + 1
        /\ q.drawn = Draw(c)
    BY <1>2, Zenon DEF Session
  <2> HIDE DEF q
  <2> QED
    BY <2>1, <2>2, <2>3
<1>4. InPhase(r)
  BY <1>1, <1>3, TryTypes DEF InPhase
<1>5. Balance(r, inherited)
  <2>1. /\ s[c].nfd = 1 + inherited + s[c].lost
        /\ inherited \in Nat /\ s[c].nfd \in Nat /\ s[c].lost \in Nat
    BY <1>1, TryTypes
  <2>2. r.server = "none" /\ r.client = None
    BY <1>1, <1>3, TryTypes
  <2> QED
    BY <1>3, <2>1, <2>2 DEF Balance
<1>6. busy' \in 0 .. MaxBusy /\ UNCHANGED <<inherited, broken, crossed>>
  BY <1>1, BusyTypes, TryTypes, Serving DEF BindFails, Busy, hist
<1>7. rcv' \in [Client -> Seq(Line)] /\ UNCHANGED <<snd, ends, shut, forkVars, cli>>
  BY <1>1, TryTypes, Serving DEF BindFails, sockVars, ends
<1> QED
  BY <1>1, <1>3, <1>4, <1>5, <1>6, <1>7, TryTypes, BusyStep

LEMMA FtpOptFails ==
    ASSUME FtpInv, NEW c \in Client, OptFails(c)
    PROVE  FtpInv'
<1>1. Trying(c) /\ Room(c, 1)
  BY DEF OptFails
<1>2. s[c] \in Session /\ Balance(s[c], inherited) /\ inherited \in Nat
  BY <1>1, TryTypes, Serving
<1>3. PICK r \in Session :
          /\ s' = [s EXCEPT ![c] = r] /\ r.pc = "ok" /\ r.server = "1"
          /\ r.client = s[c].client /\ r.queue = s[c].queue
          /\ r.nfd = s[c].nfd + 1 /\ r.lost = s[c].lost + 1 /\ r.drawn = Draw(c)
  <2> DEFINE q == [s[c] EXCEPT !.pc = "ok", !.retry = s[c].retry - 1, !.drawn = Draw(c),
                               !.server = "1", !.nfd = s[c].nfd + 1, !.lost = s[c].lost + 1]
  <2>1. s' = [s EXCEPT ![c] = q]
    BY Zenon DEF OptFails
  <2>2. q \in Session
    BY <1>1, <1>2, TryTypes, Zenon DEF Session
  <2>3. /\ q.pc = "ok" /\ q.server = "1" /\ q.client = s[c].client
        /\ q.queue = s[c].queue /\ q.nfd = s[c].nfd + 1 /\ q.lost = s[c].lost + 1
        /\ q.drawn = Draw(c)
    BY <1>2, Zenon DEF Session
  <2> HIDE DEF q
  <2> QED
    BY <2>1, <2>2, <2>3
<1>4. InPhase(r)
  BY <1>1, <1>3, TryTypes DEF InPhase
<1>5. Balance(r, inherited)
  <2>1. /\ s[c].nfd = 1 + inherited + s[c].lost
        /\ inherited \in Nat /\ s[c].nfd \in Nat /\ s[c].lost \in Nat
    BY <1>1, TryTypes
  <2>2. r.server = "1" /\ r.client = None
    BY <1>1, <1>3, TryTypes
  <2> QED
    BY <1>3, <2>1, <2>2 DEF Balance
<1>6. busy' \in 0 .. MaxBusy /\ UNCHANGED <<inherited, crossed>> /\ broken' = broken \cup {c}
  BY <1>1, BusyTypes, TryTypes, Serving DEF OptFails, Busy
<1>7. rcv' \in [Client -> Seq(Line)] /\ UNCHANGED <<snd, ends, shut, forkVars, cli>>
  BY <1>1, TryTypes, Serving DEF OptFails, sockVars, ends
<1> QED
  BY <1>1, <1>3, <1>4, <1>5, <1>6, <1>7, TryTypes, BusyStep

LEMMA FtpListen == ASSUME FtpInv, NEW c \in Client, Listen(c) PROVE FtpInv'
<1>1. child[c] = "serve" /\ s[c].pc = "listen"
  BY DEF Listen, At
<1>2. /\ s[c] \in Session /\ Balance(s[c], inherited) /\ inherited \in Nat
      /\ s[c].server = "bound" /\ s[c].drawn # 0 /\ s[c].client = None
  BY <1>1, Serving DEF InPhase
<1>3. s[c].nfd \in Nat /\ s[c].nfd <= FdMax /\ s[c].lost \in Nat /\ s[c].lost + 1 <= s[c].nfd
  <2>1. /\ s[c].nfd \in Nat /\ s[c].nfd <= FdMax /\ s[c].lost \in Nat
        /\ s[c].nfd = 1 + inherited + s[c].lost + 1
    BY <1>1, <1>2, Counted
  <2> QED
    BY <1>2, <2>1
<1>4. s[c].lost + 1 \in 0 .. FdMax
  BY <1>1, <1>3, Serving
<1>5. PICK r \in Session :
          /\ s' = [s EXCEPT ![c] = r] /\ r.client = s[c].client /\ r.queue = s[c].queue
          /\ r.nfd = s[c].nfd /\ r.drawn = s[c].drawn
          /\ \/ /\ Free(c, Rand[s[c].drawn])
                /\ r.pc = "ok" /\ r.server = "listen" /\ r.lost = s[c].lost
             \/ r.pc = "new" /\ r.server = "none" /\ r.lost = s[c].lost + 1
  <2>1. CASE Free(c, Rand[s[c].drawn])
    <3> DEFINE q == [s[c] EXCEPT !.pc = "ok", !.server = "listen"]
    <3>1. s' = [s EXCEPT ![c] = q]
      BY <2>1, Zenon DEF Listen
    <3>2. q \in Session
      BY <1>2, Zenon DEF Session
    <3>3. /\ q.pc = "ok" /\ q.server = "listen" /\ q.client = s[c].client
          /\ q.queue = s[c].queue /\ q.nfd = s[c].nfd /\ q.lost = s[c].lost
          /\ q.drawn = s[c].drawn
      BY <1>2, Zenon DEF Session
    <3> HIDE DEF q
    <3> QED
      BY <2>1, <3>1, <3>2, <3>3
  <2>2. CASE ~ Free(c, Rand[s[c].drawn])
    <3> DEFINE q == [s[c] EXCEPT !.pc = "new", !.server = "none", !.lost = s[c].lost + 1]
    <3>1. s' = [s EXCEPT ![c] = q]
      BY <2>2, Zenon DEF Listen
    <3>2. q \in Session
      BY <1>2, <1>4, Zenon DEF Session
    <3>3. /\ q.pc = "new" /\ q.server = "none" /\ q.client = s[c].client
          /\ q.queue = s[c].queue /\ q.nfd = s[c].nfd /\ q.lost = s[c].lost + 1
          /\ q.drawn = s[c].drawn
      BY <1>2, Zenon DEF Session
    <3> HIDE DEF q
    <3> QED
      BY <3>1, <3>2, <3>3
  <2> QED
    BY <2>1, <2>2
<1>6. InPhase(r)
  BY <1>2, <1>5 DEF InPhase
<1>7. Balance(r, inherited)
  BY <1>2, <1>3, <1>5 DEF Balance
<1>8. /\ snd' = snd /\ rcv' \in [Client -> Seq(Line)]
      /\ UNCHANGED <<ends, shut, forkVars, cli, inherited, busy, broken, crossed>>
  BY QuietStep DEF Listen, FtpInv
<1>9. r.server = "listen" => Free(c, Rand[r.drawn])
  BY <1>5
<1> QED
  BY <1>1, <1>2, <1>5, <1>6, <1>7, <1>8, <1>9, Serving, BusyStep

LEMMA FtpFinal == ASSUME FtpInv, NEW c \in Client, Final(c) PROVE FtpInv'
<1>1. child[c] = "serve" /\ s[c].pc = "sent"
  BY DEF Final, At
<1>2. /\ s[c] \in Session /\ Balance(s[c], inherited) /\ inherited \in Nat
      /\ s[c].server = "listen" /\ s[c].drawn # 0 /\ s[c].client # None
  BY <1>1, Serving DEF InPhase
<1>3. s[c].nfd \in Nat /\ s[c].lost \in Nat /\ s[c].nfd - 1 \in 0 .. FdMax
  <2>1. /\ s[c].nfd \in Nat /\ s[c].nfd <= FdMax /\ FdMax \in Nat /\ s[c].lost \in Nat
        /\ s[c].nfd = 1 + inherited + s[c].lost + 1 + 1
    BY <1>1, <1>2, Counted
  <2> QED
    BY <1>2, <2>1
<1>4. PICK r \in Session :
          /\ s' = [s EXCEPT ![c] = r] /\ r.pc = "close" /\ r.client = None
          /\ r.queue = s[c].queue /\ r.server = s[c].server
          /\ r.nfd = s[c].nfd - 1 /\ r.lost = s[c].lost /\ r.drawn = s[c].drawn
  <2> DEFINE q == [s[c] EXCEPT !.pc = "close", !.client = None, !.nfd = s[c].nfd - 1]
  <2>1. s' = [s EXCEPT ![c] = q]
    BY Zenon DEF Final
  <2>2. q \in Session
    BY <1>2, <1>3, Zenon DEF Session
  <2>3. /\ q.pc = "close" /\ q.client = None /\ q.queue = s[c].queue /\ q.server = s[c].server
        /\ q.nfd = s[c].nfd - 1 /\ q.lost = s[c].lost /\ q.drawn = s[c].drawn
    BY <1>2, Zenon DEF Session
  <2> HIDE DEF q
  <2> QED
    BY <2>1, <2>2, <2>3
<1>5. InPhase(r)
  BY <1>2, <1>4 DEF InPhase
<1>6. Balance(r, inherited)
  BY <1>2, <1>3, <1>4 DEF Balance
<1>7. /\ snd' = snd \/ snd' = [snd EXCEPT ![c] = snd[c] \o <<"OK">>]
      /\ rcv' \in [Client -> Seq(Line)]
      /\ UNCHANGED <<ends, shut, forkVars, cli, inherited, busy, broken, crossed>>
  BY Answers DEF Final, FtpInv
<1> QED
  BY <1>1, <1>2, <1>4, <1>5, <1>6, <1>7, Serving, BusyStep

LEMMA FtpCloseServer ==
    ASSUME FtpInv, NEW c \in Client, CloseServer(c)
    PROVE  FtpInv'
<1>1. child[c] = "serve" /\ s[c].pc = "close"
  BY DEF CloseServer, At
<1>2. /\ s[c] \in Session /\ Balance(s[c], inherited) /\ inherited \in Nat
      /\ s[c].server = "listen" /\ s[c].client = None
  BY <1>1, Serving DEF InPhase
<1>3. s[c].nfd \in Nat /\ s[c].lost \in Nat /\ s[c].nfd - 1 \in 0 .. FdMax
  <2>1. /\ s[c].nfd \in Nat /\ s[c].nfd <= FdMax /\ FdMax \in Nat /\ s[c].lost \in Nat
        /\ s[c].nfd = 1 + inherited + s[c].lost + 1
    BY <1>1, <1>2, Counted
  <2> QED
    BY <1>2, <2>1
<1>4. PICK r \in Session :
          /\ s' = [s EXCEPT ![c] = r] /\ r.pc = "read" /\ r.client = s[c].client
          /\ r.queue = <<>> /\ r.server = "none"
          /\ r.nfd = s[c].nfd - 1 /\ r.lost = s[c].lost
  <2> DEFINE q == [s[c] EXCEPT !.pc = "read", !.line = None, !.server = "none", !.queue = <<>>,
                               !.nfd = s[c].nfd - 1]
  <2>1. s' = [s EXCEPT ![c] = q]
    BY Zenon DEF CloseServer
  <2>2. <<>> \in Seq(Client)
    OBVIOUS
  <2>3. q \in Session
    BY <1>2, <1>3, <2>2, Zenon DEF Session
  <2>4. /\ q.pc = "read" /\ q.client = s[c].client /\ q.queue = <<>> /\ q.server = "none"
        /\ q.nfd = s[c].nfd - 1 /\ q.lost = s[c].lost
    BY <1>2, Zenon DEF Session
  <2> HIDE DEF q
  <2> QED
    BY <2>1, <2>3, <2>4
<1>5. InPhase(r)
  BY <1>2, <1>4 DEF InPhase
<1>6. Balance(r, inherited)
  BY <1>2, <1>3, <1>4 DEF Balance
<1>7. /\ snd' = snd /\ rcv' \in [Client -> Seq(Line)]
      /\ UNCHANGED <<ends, shut, forkVars, cli, inherited, busy, broken, crossed>>
  BY QuietStep DEF CloseServer, FtpInv
<1> QED
  BY <1>1, <1>2, <1>4, <1>5, <1>6, <1>7, Serving, BusyStep
-----------------------------------------------------------------------------
(* A child that leaves its loop, and one that dies.                        *)
LEMMA LeavesFork ==
    ASSUME ForkInv, OnceInv, NEW c \in Client, child[c] = "serve",
           child' = [child EXCEPT ![c] = "done"],
           UNCHANGED <<main, sfd_client, killed, ends, shut>>
    PROVE  ForkInv' /\ OnceInv'
<1>1. ForkInv'
  BY DEF ForkInv, ForkTypeOK, SockTypeOK, ends, OwnDescriptors, MainInv
<1>2. main = "fork" => sfd_client \in Client /\ sfd_client # c
  BY DEF ForkInv, ForkTypeOK, MainInv, OnceInv
<1>3. OnceInv'
  BY <1>2 DEF OnceInv, ForkInv, ForkTypeOK, ends
<1> QED
  BY <1>1, <1>3

LEMMA FtpLeaves ==
    ASSUME FtpInv, NEW c \in Client, FtpDisconnected(c) \/ Quit(c)
    PROVE  FtpInv'
<1>1. child[c] = "serve" /\ s[c].pc \in {"read", "run"} /\ Leaves(c) /\ s' = s /\ broken' = broken
  BY DEF FtpDisconnected, Quit, At
<1>2. PICK r \in Session : r = s[c]
  BY <1>1, Serving
<1>3. s' = [s EXCEPT ![c] = r] /\ r.server = "none" /\ Balance(r, inherited)
  BY <1>1, <1>2, Serving DEF InPhase
<1>4. /\ snd' = snd \/ snd' = [snd EXCEPT ![c] = snd[c] \o <<"OK">>]
      /\ rcv' = rcv /\ UNCHANGED <<ends, shut>>
  BY <1>1, Serving DEF FtpDisconnected, Quit, SockWrite, sockVars, ends
<1>5. /\ child' = [child EXCEPT ![c] = "done"]
      /\ UNCHANGED <<main, sfd_client, killed, cli, inherited, busy, crossed>>
  BY <1>1 DEF Leaves
<1>6. child' \in [Client -> {"none", "start", "serve", "done", "off"}] /\ child'[c] = "done"
      /\ \A d \in Client \ {c} : child'[d] = child[d]
  BY <1>5 DEF FtpInv, ForkInv, ForkTypeOK
<1>7. FtpStreams'
  <2>1. snd[c] \in Seq(FtpReply) /\ "OK" \in FtpReply
    BY <1>1, Serving DEF FtpReply
  <2>2. snd[c] \o <<"OK">> \in Seq(FtpReply)
    BY <2>1, AppendOne
  <2> QED
    BY <1>1, <1>4, <2>2, Serving DEF FtpStreams
<1>8. ForkInv' /\ OnceInv'
  BY <1>1, <1>4, <1>5, LeavesFork DEF FtpInv
<1>9. Sessions'
  <2>1. Sessions /\ cli' \in [Client -> User] /\ busy' \in 0 .. MaxBusy /\ broken' \subseteq Client /\ crossed' \subseteq Client
    BY <1>1, <1>5 DEF FtpInv, Sessions, SessionTypes
  <2> QED
    BY <1>3, <1>5, <1>6, <2>1, SessionsStep
<1>10. OwnInv'
  BY <1>1, <1>2, <1>3, <1>4, <1>5, <1>6, BusyOwn
<1> QED
  BY <1>7, <1>8, <1>9, <1>10 DEF FtpInv

LEMMA FtpAcceptFails ==
    ASSUME FtpInv, NEW c \in Client, AcceptDataFails(c)
    PROVE  FtpInv'
<1>1. child[c] = "serve" /\ s[c].pc = "accept"
  BY DEF AcceptDataFails, At
<1>2. /\ s[c] \in Session /\ Balance(s[c], inherited) /\ inherited \in Nat
      /\ s[c].server \in {"listen", "1"} /\ s[c].client = None
  BY <1>1, Serving DEF InPhase
<1> DEFINE n == IF s[c].server = "1" THEN s[c].nfd ELSE s[c].nfd - 1
<1>3. /\ s[c].nfd \in Nat /\ s[c].lost \in Nat /\ n \in 0 .. FdMax
      /\ n = 1 + inherited + s[c].lost
  <2>1. /\ s[c].nfd \in Nat /\ s[c].nfd <= FdMax /\ FdMax \in Nat /\ s[c].lost \in Nat
        /\ s[c].nfd = 1 + inherited + s[c].lost + (IF s[c].server = "1" THEN 0 ELSE 1)
    BY <1>1, <1>2, Counted
  <2> QED
    BY <1>2, <2>1
<1>4. PICK r \in Session :
          /\ s' = [s EXCEPT ![c] = r] /\ r.client = None /\ r.server = "none"
          /\ r.queue = <<>> /\ r.nfd = n /\ r.lost = s[c].lost
  <2> DEFINE q == [s[c] EXCEPT !.server = "none", !.queue = <<>>, !.nfd = n]
  <2>1. s' = [s EXCEPT ![c] = q]
    BY Zenon DEF AcceptDataFails
  <2>2. <<>> \in Seq(Client)
    OBVIOUS
  <2> HIDE DEF n
  <2>3. q \in Session
    BY <1>2, <1>3, <2>2, Zenon DEF Session
  <2>4. q.client = None /\ q.server = "none" /\ q.queue = <<>> /\ q.nfd = n /\ q.lost = s[c].lost
    BY <1>2, Zenon DEF Session
  <2> HIDE DEF q
  <2> QED
    BY <2>1, <2>3, <2>4
<1>5. Balance(r, inherited)
  <2> HIDE DEF n
  <2> QED
    BY <1>2, <1>3, <1>4 DEF Balance
<1>6. /\ child' = [child EXCEPT ![c] = "done"] /\ broken' = broken \cup {c} /\ UNCHANGED sockVars
      /\ UNCHANGED <<main, sfd_client, killed, cli, inherited, busy, crossed>>
  BY DEF AcceptDataFails, Leaves
<1>7. child'[c] = "done" /\ \A d \in Client \ {c} : child'[d] = child[d]
  BY <1>6 DEF FtpInv, ForkInv, ForkTypeOK
<1>8. ForkInv' /\ OnceInv'
  BY <1>1, <1>6, LeavesFork DEF FtpInv, sockVars, ends
<1>9. Sessions'
  <2>1. Sessions /\ cli' \in [Client -> User] /\ busy' \in 0 .. MaxBusy /\ broken' \subseteq Client /\ crossed' \subseteq Client
    BY <1>6 DEF FtpInv, Sessions, SessionTypes
  <2>2. r.server # "listen"
    BY <1>4
  <2> QED
    BY <1>4, <1>5, <1>6, <1>7, <2>1, <2>2, SessionsStep
<1>10. FtpStreams'
  BY <1>6 DEF FtpInv, FtpStreams, sockVars
<1>11. OwnInv'
  <2>1. snd' = snd /\ shut' = shut /\ cli' = cli /\ crossed' = crossed
    BY <1>6 DEF sockVars
  <2> QED
    BY <1>4, <1>6, <1>7, <2>1, BusyOwn
<1> QED
  BY <1>8, <1>9, <1>10, <1>11 DEF FtpInv

LEMMA NewSessionTypes ==
    ASSUME inherited \in Inherited
    PROVE  NewSession \in Session /\ InPhase(NewSession) /\ Balance(NewSession, inherited)
           /\ NewSession.server = "none" /\ NewSession.queue = <<>> /\ NewSession.client = None
<1>1. inherited \in 0 .. FdMax - 1 /\ FdMax \in Nat /\ Retry \in Nat /\ Len(Rand) \in Nat
  BY FtpAssumption, RandTypes
<1>2. 1 + inherited \in 0 .. FdMax /\ 0 \in 0 .. FdMax /\ 0 \in 0 .. Retry /\ 0 \in 0 .. Len(Rand)
      /\ inherited \in Nat
  BY <1>1
<1>3. <<>> \in Seq(Client)
  OBVIOUS
<1>4. NewSession \in Session
  BY <1>2, <1>3, Zenon DEF NewSession, Session
<1>5. /\ InPhase(NewSession) /\ NewSession.server = "none"
      /\ NewSession.queue = <<>> /\ NewSession.client = None
  BY DEF NewSession, InPhase
<1>6. Balance(NewSession, inherited)
  BY <1>2 DEF NewSession, Balance
<1> QED
  BY <1>4, <1>5, <1>6

LEMMA FtpBreaks ==
    ASSUME FtpInv, NEW c \in Client, child[c] # "none", ChildDies(c), Breaks(c),
           killed' \in 0 .. MaxKill
    PROVE  FtpInv'
<1>1. PICK r \in Session :
          /\ r = NewSession /\ InPhase(r) /\ Balance(r, inherited) /\ r.server = "none"
          /\ r.queue = <<>> /\ r.client = None
  BY NewSessionTypes DEF FtpInv, Sessions, SessionTypes
<1>2. s' = [s EXCEPT ![c] = r] /\ broken' = broken \cup {c} /\ UNCHANGED <<cli, inherited, busy, crossed>>
  BY <1>1 DEF Breaks
<1>3. child' = [child EXCEPT ![c] = "off"] /\ UNCHANGED <<main, sfd_client, rcv, snd, shut>>
  BY DEF ChildDies, SockExit, Hold
<1>4. ForkInv' /\ OnceInv'
  <2>1. ForkInv'
    BY <1>3, ChildGone DEF FtpInv, ChildDies
  <2>2. PICK l, f : Hold(l, f)
    BY DEF ChildDies, SockExit
  <2>3. OnceInv'
    BY <1>3, <2>2, OnceChild DEF FtpInv
  <2> QED
    BY <2>1, <2>3
<1>5. Sessions'
  <2>1. /\ Sessions /\ child \in [Client -> {"none", "start", "serve", "done", "off"}]
        /\ cli' \in [Client -> User] /\ busy' \in 0 .. MaxBusy /\ broken' \subseteq Client /\ crossed' \subseteq Client
    BY <1>2 DEF FtpInv, Sessions, SessionTypes, ForkInv, ForkTypeOK
  <2>2. \A d \in Client \ {c} : child'[d] = child[d]
    BY <1>3, <2>1
  <2> QED
    BY <1>1, <1>2, <2>1, <2>2, SessionsStep
<1>6. FtpStreams'
  BY <1>2, <1>3 DEF FtpInv, FtpStreams
<1>7. OwnInv'
  <2>1. \A d \in Client \ {c} : child'[d] = child[d]
    BY <1>3 DEF FtpInv, ForkInv, ForkTypeOK
  <2> QED
    BY <1>1, <1>2, <1>3, <2>1, BusyOwn
<1> QED
  BY <1>4, <1>5, <1>6, <1>7 DEF FtpInv

(* No descriptor for a socket or a pipe, a broken connection, or a signal. *)
LEMMA FtpDeath ==
    ASSUME FtpInv, NEW c \in Client, NoSocket(c) \/ NoPipe(c) \/ FtpSigPipe(c) \/ KillChild(c)
    PROVE  FtpInv'
<1>1. MaxKill \in Nat /\ killed \in 0 .. MaxKill /\ c # Main
  BY ForkAssumption DEF FtpInv, ForkInv, ForkTypeOK
<1>2. CASE NoSocket(c) \/ NoPipe(c) \/ FtpSigPipe(c)
  <2>1. child[c] # "none" /\ Dies(c)
    BY <1>2 DEF NoSocket, Trying, NoPipe, FtpSigPipe, At
  <2> QED
    BY <1>1, <2>1, FtpBreaks DEF Dies
<1>3. CASE KillChild(c)
  <2>1. child[c] # "none" /\ ChildDies(c) /\ killed < MaxKill /\ killed' = killed + 1
    BY <1>1, <1>3 DEF KillChild, Kill
  <2>2. killed' \in 0 .. MaxKill
    BY <1>1, <2>1
  <2> QED
    BY <1>3, <2>1, <2>2, FtpBreaks DEF KillChild
<1> QED
  BY <1>2, <1>3
-----------------------------------------------------------------------------
(* The data connection.                                                    *)
LEMMA FtpTell == ASSUME FtpInv, NEW c \in Client, TellPort(c) PROVE FtpInv'
<1>1. child[c] = "serve" /\ s[c].pc = "ok"
  BY DEF TellPort, At
<1>2. /\ s[c] \in Session /\ Balance(s[c], inherited) /\ InPhase(s[c])
      /\ s[c].server \in {"listen", "1"} /\ s[c].client = None /\ s[c].drawn # 0
  BY <1>1, Serving DEF InPhase
<1>3. PICK p \in Port : p = Rand[s[c].drawn]
  <2>1. s[c].drawn \in 1 .. Len(Rand)
    BY <1>2, RandTypes DEF Session
  <2> QED
    BY <2>1, RandTypes
<1>4. PICK r \in Session :
          /\ s' = [s EXCEPT ![c] = r] /\ r.pc = "accept" /\ r.client = s[c].client
          /\ r.queue = s[c].queue /\ r.server = s[c].server
          /\ r.nfd = s[c].nfd /\ r.lost = s[c].lost /\ r.drawn = s[c].drawn
  <2> DEFINE q == [s[c] EXCEPT !.pc = "accept", !.retry = 0]
  <2>1. s' = [s EXCEPT ![c] = q]
    BY Zenon DEF TellPort
  <2>2. 0 \in 0 .. Retry
    BY FtpAssumption
  <2>3. q \in Session
    BY <1>2, <2>2, Zenon DEF Session
  <2>4. /\ q.pc = "accept" /\ q.client = s[c].client /\ q.queue = s[c].queue
        /\ q.server = s[c].server /\ q.nfd = s[c].nfd /\ q.lost = s[c].lost
        /\ q.drawn = s[c].drawn
    BY <1>2, Zenon DEF Session
  <2> HIDE DEF q
  <2> QED
    BY <2>1, <2>3, <2>4
<1>5. InPhase(r) /\ Balance(r, inherited)
  BY <1>2, <1>4 DEF InPhase, Balance
<1>6. /\ snd' = [snd EXCEPT ![c] = IF c \in shut THEN snd[c] ELSE snd[c] \o <<p>>]
      /\ UNCHANGED <<rcv, ends, shut, forkVars, cli, inherited, busy, broken, crossed>>
  BY <1>3 DEF TellPort, Answer, SockWrite, hist
<1>7. snd \in [Client -> Seq(FtpReply)] /\ snd[c] \in Seq(FtpReply) /\ p \in FtpReply
  BY <1>1, <1>3, Serving DEF FtpReply
<1>8. FtpStreams'
  <2>1. snd[c] \o <<p>> \in Seq(FtpReply)
    BY <1>7, AppendOne
  <2> QED
    BY <1>6, <1>7, <2>1 DEF FtpInv, FtpStreams
<1>9. ForkInv' /\ OnceInv'
  BY <1>6, ForkStream, OnceStream DEF FtpInv
<1>10. Sessions'
  <2>1. /\ Sessions /\ cli' \in [Client -> User] /\ busy' \in 0 .. MaxBusy /\ broken' \subseteq Client /\ crossed' \subseteq Client
        /\ child' = child
    BY <1>6 DEF FtpInv, Sessions, SessionTypes, forkVars
  <2> QED
    BY <1>4, <1>5, <1>6, <2>1, SessionsStep
<1>11. s'[c] = r /\ \A d \in Client \ {c} : s'[d] = s[d]
  BY <1>4 DEF FtpInv, Sessions, SessionTypes
<1>12. OwnInv'
  <2>1. \A d \in Client : s'[d].server = "1" => d \in broken'
    BY <1>4, <1>6, <1>11 DEF FtpInv, OwnInv
  <2>2. ASSUME NEW d \in Client \ Astray, d # c PROVE OwnSession(d)'
    <3>1. OwnSession(d) /\ s \in [Client -> Session]
      BY <2>2 DEF FtpInv, OwnInv, Sessions, SessionTypes
    <3>2. snd'[d] = snd[d] /\ child' = child
      BY <1>6, <1>7, <2>2 DEF forkVars
    <3>3. (\E i \in 1 .. Len(r.queue) : r.queue[i] = d) => Queued(d, c)
      BY <1>4 DEF Queued
    <3> QED
      BY <1>4, <1>6, <2>2, <3>1, <3>2, <3>3, OthersKept
  <2>3. ASSUME c \notin Astray PROVE OwnSession(c)'
    <3>1. OwnSession(c)
      BY <2>3 DEF FtpInv, OwnInv
    <3>2. ~ Queued(c, c) /\ s[c].server = "listen"
      BY <1>1, <1>2, <2>3, <3>1 DEF OwnSession, FtpInv, OwnInv, Astray
    <3>3. \A d \in Client : Queued(c, d)' => Queued(c, d)
      BY <1>4, <1>11 DEF Queued
    <3>4. ASSUME c \notin shut PROVE PortIsKept(c)'
      <4>1. cli[c].told = None /\ \A i \in 1 .. Len(snd[c]) : snd[c][i] \notin Port
        BY <1>1, <3>1, <3>4, NothingTold
      <4>2. Waits(c, p)'
        BY <1>1, <1>3, <1>4, <1>6, <1>11, <3>2, <3>3 DEF Waits, forkVars
      <4>3. PICK q \in Seq(FtpReply) : q = snd[c]
        BY <1>7
      <4>4. snd'[c] = q \o <<p>>
        BY <1>6, <1>7, <3>4, <4>3
      <4>5. \A i \in 1 .. Len(q \o <<p>>) : i \in 1 .. Len(q) \/ i = Len(q) + 1
        BY <1>7, AppendOne
      <4>6. \A i \in 1 .. Len(q) : (q \o <<p>>)[i] \notin Port
        BY <1>7, <4>1, <4>3, AppendOne
      <4>7. (q \o <<p>>)[Len(q) + 1] = p
        BY <1>7, AppendOne
      <4> QED
        BY <1>6, <4>1, <4>2, <4>4, <4>5, <4>6, <4>7 DEF PortIsKept
    <3>5. \A d \in Client : s'[d].client = s[d].client
      BY <1>4, <1>11
    <3>6. s'[c].queue = s[c].queue /\ s'[c].pc = "accept"
      BY <1>4, <1>11
    <3> QED
      BY <1>6, <3>1, <3>3, <3>4, <3>5, <3>6 DEF OwnSession
  <2> QED
    BY <1>6, <2>1, <2>2, <2>3 DEF FtpInv, OwnInv, Astray
<1> QED
  BY <1>8, <1>9, <1>10, <1>12 DEF FtpInv

LEMMA FtpAccept == ASSUME FtpInv, NEW c \in Client, AcceptData(c) PROVE FtpInv'
<1>1. /\ child[c] = "serve" /\ s[c].pc = "accept" /\ s[c].server = "listen" /\ Room(c, 1)
      /\ s[c].queue # <<>>
  BY DEF AcceptData, At
<1>2. /\ s[c] \in Session /\ Balance(s[c], inherited) /\ inherited \in Nat /\ FdMax \in Nat
      /\ s[c].client = None /\ s[c].drawn # 0
  BY <1>1, Serving DEF InPhase
<1>3. s[c].queue \in Seq(Client) /\ s[c].nfd \in Nat /\ s[c].lost \in Nat
  BY <1>2 DEF Session
<1>4. PICK h \in Client, rest \in Seq(Client) :
          /\ h = Head(s[c].queue) /\ rest = Tail(s[c].queue)
          /\ 1 \in 1 .. Len(s[c].queue) /\ h = s[c].queue[1]
          /\ \A i \in 1 .. Len(rest) :
                i + 1 \in 1 .. Len(s[c].queue) /\ i + 1 # 1 /\ rest[i] = s[c].queue[i + 1]
  <2>1. \A q \in Seq(Client) : q # <<>> =>
            /\ Head(q) \in Client /\ Tail(q) \in Seq(Client)
            /\ 1 \in 1 .. Len(q) /\ Head(q) = q[1]
            /\ \A i \in 1 .. Len(Tail(q)) :
                  i + 1 \in 1 .. Len(q) /\ i + 1 # 1 /\ Tail(q)[i] = q[i + 1]
    OBVIOUS
  <2> QED
    BY <1>1, <1>3, <2>1
<1>5. s[c].nfd + 1 \in 0 .. FdMax
  BY <1>1, <1>2, <1>3 DEF Room
<1>6. PICK r \in Session :
          /\ s' = [s EXCEPT ![c] = r] /\ r.pc = "send" /\ r.client = h
          /\ r.queue = rest /\ r.server = s[c].server
          /\ r.nfd = s[c].nfd + 1 /\ r.lost = s[c].lost /\ r.drawn = s[c].drawn
  <2> DEFINE q == [s[c] EXCEPT !.pc = "send", !.client = h, !.queue = rest, !.nfd = s[c].nfd + 1]
  <2>1. s' = [s EXCEPT ![c] = q]
    BY <1>4, Zenon DEF AcceptData
  <2>2. q \in Session
    BY <1>2, <1>5, Zenon DEF Session
  <2>3. /\ q.pc = "send" /\ q.client = h /\ q.queue = rest
        /\ q.server = s[c].server /\ q.nfd = s[c].nfd + 1 /\ q.lost = s[c].lost
        /\ q.drawn = s[c].drawn
    BY <1>2, Zenon DEF Session
  <2> HIDE DEF q
  <2> QED
    BY <2>1, <2>2, <2>3
<1>7. h # None
  BY ForkAssumption
<1>8. InPhase(r) /\ Balance(r, inherited)
  BY <1>1, <1>2, <1>3, <1>6, <1>7 DEF InPhase, Balance
<1>9. /\ UNCHANGED <<sockVars, forkVars, cli, inherited, busy, broken>>
      /\ crossed' = IF h = c THEN crossed ELSE crossed \cup {c}
  BY <1>4 DEF AcceptData
<1>10. ForkInv' /\ OnceInv' /\ FtpStreams'
  BY <1>9, ForkStream, OnceStream DEF FtpInv, FtpStreams, sockVars, ends
<1>11. Sessions'
  <2>1. /\ Sessions /\ cli' \in [Client -> User] /\ busy' \in 0 .. MaxBusy /\ broken' \subseteq Client /\ crossed' \subseteq Client
        /\ child' = child /\ inherited' = inherited
    BY <1>9 DEF FtpInv, Sessions, SessionTypes, forkVars
  <2> QED
    BY <1>1, <1>6, <1>8, <2>1, SessionsStep
<1>12. s'[c] = r /\ \A d \in Client \ {c} : s'[d] = s[d]
  BY <1>6 DEF FtpInv, Sessions, SessionTypes
<1>13. OwnInv'
  <2>1. Queued(h, c)
    BY <1>4 DEF Queued
  <2>2. ASSUME NEW e \in Client PROVE (\E i \in 1 .. Len(rest) : rest[i] = e) => Queued(e, c)
    BY <1>4 DEF Queued
  <2>3. ASSUME NEW d \in Client \ Astray, d # c PROVE OwnSession(d)' /\ d # h
    <3>1. OwnSession(d) /\ s \in [Client -> Session]
      BY <2>3 DEF FtpInv, OwnInv, Sessions, SessionTypes
    <3>2. d # h
      BY <2>1, <2>3, <3>1 DEF OwnSession
    <3>3. snd' = snd /\ child' = child /\ shut' = shut /\ cli' = cli
      BY <1>9 DEF sockVars, forkVars
    <3>4. (\E i \in 1 .. Len(r.queue) : r.queue[i] = d) => Queued(d, c)
      BY <1>6, <2>2
    <3>5. OwnSession(d)'
      BY <1>6, <2>3, <3>1, <3>2, <3>3, <3>4, OthersKept
    <3> QED
      BY <3>2, <3>5
  <2>4. ASSUME c \notin Astray, h = c PROVE OwnSession(c)'
    <3>1. OwnSession(c)
      BY <2>4 DEF FtpInv, OwnInv
    <3>2. \A i \in 1 .. Len(rest) : rest[i] # c
      BY <1>4, <2>4, <3>1 DEF OwnSession
    <3>3. \A d \in Client : ~ Queued(c, d)'
      <4>1. ~ Queued(c, c)'
        BY <1>6, <1>12, <3>2 DEF Queued
      <4>2. ASSUME NEW d \in Client \ {c} PROVE ~ Queued(c, d)'
        BY <1>12, <3>1 DEF Queued, OwnSession
      <4> QED
        BY <4>1, <4>2
    <3>4. ASSUME c \notin shut PROVE PortIsKept(c)'
      <4>1. \A p : ~ Waits(c, p)
        BY <2>1, <2>4 DEF Waits
      <4>2. cli[c].told = None /\ \A i \in 1 .. Len(snd[c]) : snd[c][i] \notin Port
        BY <3>1, <3>4, <4>1 DEF OwnSession, PortIsKept
      <4> QED
        BY <1>9, <4>2 DEF PortIsKept, sockVars
    <3>5. \A d \in Client : s'[d].client = c => d = c
      BY <1>12, <3>1 DEF OwnSession
    <3>6. \A i, j \in 1 .. Len(s'[c].queue) : s'[c].queue[i] = c /\ s'[c].queue[j] = c => i = j
      BY <3>3 DEF Queued
    <3>7. UNCHANGED <<shut, cli>>
      BY <1>9 DEF sockVars
    <3> QED
      BY <3>1, <3>3, <3>4, <3>5, <3>6, <3>7 DEF OwnSession
  <2>5. broken' = {} => crossed' = {}
    <3>1. broken = {} => crossed = {} /\ h \notin Astray
      BY DEF FtpInv, OwnInv, Astray
    <3> QED
      BY <1>9, <2>3, <3>1
  <2>6. \A d \in Client : s'[d].server = "1" => d \in broken'
    BY <1>6, <1>9, <1>12 DEF FtpInv, OwnInv
  <2>7. ASSUME NEW d \in Client \ Astray' PROVE OwnSession(d)'
    <3>1. d \notin Astray /\ (d = c => h = c)
      BY <1>9, <2>7 DEF Astray
    <3> QED
      BY <2>3, <2>4, <3>1
  <2> QED
    BY <2>5, <2>6, <2>7 DEF OwnInv
<1> QED
  BY <1>10, <1>11, <1>13 DEF FtpInv

(* What is sent, and a session that goes from send to sent.                *)
LEMMA DeliverStep ==
    ASSUME FtpInv, NEW c \in Client, child[c] = "serve", s[c].pc = "send",
           NEW r \in Session, s' = [s EXCEPT ![c] = r], r.pc = "sent",
           r.client = s[c].client, r.queue = s[c].queue, r.server = s[c].server,
           r.drawn = s[c].drawn, Balance(r, inherited),
           NEW w \in {"list", "empty"} \cup File, Deliver(c, w)
    PROVE  FtpInv'
<1>1. s[c] \in Session /\ s[c].server = "listen" /\ s[c].drawn # 0 /\ s[c].client # None
  BY Serving DEF InPhase
<1>2. PICK h \in Client : h = s[c].client
  BY <1>1 DEF Session
<1>3. cli \in [Client -> User] /\ cli[h] \in User
  BY Serving
<1>4. PICK u \in User :
          /\ cli' = [cli EXCEPT ![h] = u] /\ u.told = cli[h].told
          /\ u.data.from = c
  <2> DEFINE e == [from |-> c, what |-> w]
             q == [cli[h] EXCEPT !.data = e]
  <2>1. cli' = [cli EXCEPT ![h] = q]
    BY <1>2, Zenon DEF Deliver
  <2>2. e \in Data /\ e.from = c
    BY DEF Data
  <2> HIDE DEF e
  <2>3. q \in User /\ q.told = cli[h].told /\ q.data = e
    BY <1>3, <2>2, Zenon DEF User
  <2> HIDE DEF q
  <2> QED
    BY <2>1, <2>2, <2>3
<1>5. UNCHANGED <<sockVars, forkVars, hist>>
  BY DEF Deliver
<1>6. ForkInv' /\ OnceInv' /\ FtpStreams'
  BY <1>5, ForkStream, OnceStream DEF FtpInv, FtpStreams, sockVars, ends
<1>7. InPhase(r)
  BY <1>1 DEF InPhase
<1>8. Sessions'
  <2>1. /\ Sessions /\ cli' \in [Client -> User] /\ busy' \in 0 .. MaxBusy /\ broken' \subseteq Client /\ crossed' \subseteq Client
        /\ child' = child /\ inherited' = inherited
    BY <1>3, <1>4, <1>5 DEF FtpInv, Sessions, SessionTypes, forkVars, hist
  <2> QED
    BY <1>1, <1>7, <2>1, SessionsStep
<1>9. s'[c] = r /\ \A d \in Client \ {c} : s'[d] = s[d]
  BY DEF FtpInv, Sessions, SessionTypes
<1>10. UNCHANGED <<snd, shut, child, broken, crossed>>
  BY <1>5 DEF sockVars, forkVars, hist
<1>11. OwnInv'
  <2>1. \A d \in Client : s'[d].server = "1" => d \in broken'
    BY <1>9, <1>10 DEF FtpInv, OwnInv
  <2>2. ASSUME NEW d \in Client \ Astray, d # c PROVE OwnSession(d)'
    <3>1. OwnSession(d) /\ s \in [Client -> Session]
      BY <2>2 DEF FtpInv, OwnInv, Sessions, SessionTypes
    <3>2. d # h
      BY <1>2, <2>2, <3>1 DEF OwnSession
    <3>3. cli'[d] = cli[d]
      BY <1>3, <1>4, <3>2
    <3>4. (\E i \in 1 .. Len(r.queue) : r.queue[i] = d) => Queued(d, c)
      BY DEF Queued
    <3> QED
      BY <1>10, <2>2, <3>1, <3>3, <3>4, OthersKept
  <2>3. ASSUME c \notin Astray PROVE OwnSession(c)'
    <3>1. OwnSession(c)
      BY <2>3 DEF FtpInv, OwnInv
    <3>2. ~ Queued(c, c)
      BY <3>1 DEF OwnSession
    <3>3. \A d \in Client : ~ Queued(c, d)' /\ s'[d].client = s[d].client
      BY <1>9, <3>1, <3>2 DEF Queued, OwnSession
    <3>4. cli'[c].told = cli[c].told /\ (cli'[c].data = cli[c].data \/ cli'[c].data.from = c)
      BY <1>3, <1>4
    <3>5. ASSUME c \notin shut PROVE PortIsKept(c)'
      <4>1. cli[c].told = None /\ \A i \in 1 .. Len(snd[c]) : snd[c][i] \notin Port
        BY <3>1, <3>5, NothingTold
      <4> QED
        BY <1>10, <3>4, <4>1 DEF PortIsKept
    <3>6. \A i, j \in 1 .. Len(s'[c].queue) : s'[c].queue[i] = c /\ s'[c].queue[j] = c => i = j
      BY <3>3 DEF Queued
    <3> QED
      BY <1>10, <3>1, <3>3, <3>4, <3>5, <3>6 DEF OwnSession
  <2> QED
    BY <1>10, <2>1, <2>2, <2>3 DEF FtpInv, OwnInv, Astray
<1> QED
  BY <1>6, <1>8, <1>11 DEF FtpInv

LEMMA FtpSend ==
    ASSUME FtpInv, NEW c \in Client, SendFile(c) \/ SendPath(c)
    PROVE  FtpInv'
<1>1. child[c] = "serve" /\ s[c].pc = "send"
  BY DEF SendFile, SendPath, At
<1>2. /\ s[c] \in Session /\ Balance(s[c], inherited) /\ inherited \in Nat /\ FdMax \in Nat
  BY <1>1, Serving
<1>3. s[c].nfd \in Nat /\ s[c].lost \in Nat /\ s[c].lost <= s[c].nfd /\ s[c].nfd <= FdMax
  BY <1>1, Counted
<1>4. PICK n \in {0, 1}, w \in {"list", "empty"} \cup File :
          /\ n = 0 \/ Room(c, 1)
          /\ Deliver(c, w)
          /\ \/ n = 0 /\ s' = [s EXCEPT ![c].pc = "sent"]
             \/ n = 1 /\ s' = [s EXCEPT ![c].pc = "sent", ![c].nfd = @ + 1, ![c].lost = @ + 1]
  <2>1. CASE SendFile(c)
    BY <2>1 DEF SendFile
  <2>2. CASE SendPath(c)
    BY <2>2 DEF SendPath
  <2> QED
    BY <2>1, <2>2
<1>5. PICK r \in Session :
          /\ s' = [s EXCEPT ![c] = r] /\ r.pc = "sent" /\ r.client = s[c].client
          /\ r.queue = s[c].queue /\ r.server = s[c].server /\ r.drawn = s[c].drawn
          /\ r.nfd = s[c].nfd + n /\ r.lost = s[c].lost + n
  <2>1. CASE n = 0 /\ s' = [s EXCEPT ![c].pc = "sent"]
    <3> DEFINE q == [s[c] EXCEPT !.pc = "sent"]
    <3>1. s' = [s EXCEPT ![c] = q]
      BY <2>1, Zenon
    <3>2. q \in Session
      BY <1>2, Zenon DEF Session
    <3>3. /\ q.pc = "sent" /\ q.client = s[c].client /\ q.queue = s[c].queue
          /\ q.server = s[c].server /\ q.nfd = s[c].nfd /\ q.lost = s[c].lost
          /\ q.drawn = s[c].drawn
      BY <1>2, Zenon DEF Session
    <3>4. s[c].nfd = s[c].nfd + n /\ s[c].lost = s[c].lost + n
      BY <1>3, <2>1
    <3> HIDE DEF q
    <3> QED
      BY <3>1, <3>2, <3>3, <3>4
  <2>2. CASE n = 1 /\ s' = [s EXCEPT ![c].pc = "sent", ![c].nfd = @ + 1, ![c].lost = @ + 1]
    <3> DEFINE q == [s[c] EXCEPT !.pc = "sent", !.nfd = s[c].nfd + 1, !.lost = s[c].lost + 1]
    <3>1. s' = [s EXCEPT ![c] = q]
      BY <2>2, Zenon
    <3>2. s[c].nfd + 1 \in 0 .. FdMax /\ s[c].lost + 1 \in 0 .. FdMax
      BY <1>2, <1>3, <1>4, <2>2 DEF Room
    <3>3. q \in Session
      BY <1>2, <3>2, Zenon DEF Session
    <3>4. /\ q.pc = "sent" /\ q.client = s[c].client /\ q.queue = s[c].queue
          /\ q.server = s[c].server /\ q.nfd = s[c].nfd + 1 /\ q.lost = s[c].lost + 1
          /\ q.drawn = s[c].drawn
      BY <1>2, Zenon DEF Session
    <3> HIDE DEF q
    <3> QED
      BY <2>2, <3>1, <3>3, <3>4
  <2> QED
    BY <1>4, <2>1, <2>2
<1>6. Balance(r, inherited)
  BY <1>2, <1>3, <1>4, <1>5 DEF Balance
<1> QED
  BY <1>1, <1>4, <1>5, <1>6, DeliverStep
-----------------------------------------------------------------------------
(* The clients.  Only what c knows changes, its user record becomes u.     *)
LEMMA SessionsSame ==
    ASSUME Sessions, s' = s, cli' \in [Client -> User], UNCHANGED hist,
           \A d \in Client :
               child'[d] \in {"none", "start", "serve"} => child[d] \in {"none", "start", "serve"}
    PROVE  Sessions'
BY DEF Sessions, SessionTypes, Phases, Balances, PortsApart, hist

LEMMA OwnSame ==
    ASSUME OwnInv, s' = s, UNCHANGED hist, \A d \in Client \ Astray : OwnSession(d)'
    PROVE  OwnInv'
BY DEF OwnInv, Astray, hist

LEMMA FtpAsk ==
    ASSUME FtpInv, NEW c \in Client, NEW l \in Line, AskLine(c, l)
    PROVE  FtpInv'
<1>1. cli \in [Client -> User] /\ cli[c] \in User
  BY DEF FtpInv, Sessions, SessionTypes
<1>2. PICK u \in User : cli' = [cli EXCEPT ![c] = u] /\ u.told = cli[c].told /\ u.data = None
  <2> DEFINE a == IF l = "NOOP" THEN None ELSE l
             q == [cli[c] EXCEPT !.asked = a, !.asks = cli[c].asks + 1, !.data = None]
  <2>1. cli' = [cli EXCEPT ![c] = q]
    BY Zenon DEF AskLine
  <2>2. a \in Line \cup {None} /\ cli[c].asks + 1 \in Nat
    BY <1>1 DEF User
  <2> HIDE DEF a
  <2>3. q \in User /\ q.told = cli[c].told /\ q.data = None
    BY <1>1, <2>2, Zenon DEF User
  <2> HIDE DEF q
  <2> QED
    BY <2>1, <2>3
<1>3. /\ rcv' = [rcv EXCEPT ![c] = rcv[c] \o <<l>>]
      /\ UNCHANGED <<snd, ends, shut, forkVars, s, hist>>
  BY DEF AskLine, ClientWrite
<1>4. FtpStreams'
  <2>1. rcv[c] \in Seq(Line)
    BY DEF FtpInv, FtpStreams
  <2>2. rcv[c] \o <<l>> \in Seq(Line)
    BY <2>1, AppendOne
  <2> QED
    BY <1>3, <2>2 DEF FtpInv, FtpStreams
<1>5. ForkInv' /\ OnceInv'
  BY <1>3, ForkStream, OnceStream DEF FtpInv
<1>6. Sessions'
  BY <1>1, <1>2, <1>3, SessionsSame DEF FtpInv, forkVars
<1>7. cli'[c] = u /\ \A d \in Client \ {c} : cli'[d] = cli[d]
  BY <1>1, <1>2
<1>8. OwnInv'
  <2>1. ASSUME NEW d \in Client \ Astray PROVE OwnSession(d)'
    <3>1. OwnSession(d)
      BY <2>1 DEF FtpInv, OwnInv
    <3>2. CASE d # c
      BY <1>3, <1>7, <3>1, <3>2, StillKept DEF forkVars
    <3>3. CASE d = c
      BY <1>2, <1>3, <1>7, <3>1, <3>3 DEF OwnSession, PortIsKept, Waits, Queued, forkVars
    <3> QED
      BY <3>2, <3>3
  <2> QED
    BY <1>3, <2>1, OwnSame DEF FtpInv
<1> QED
  BY <1>4, <1>5, <1>6, <1>8 DEF FtpInv

LEMMA FtpReplied == ASSUME FtpInv, NEW c \in Client, GetReply(c) PROVE FtpInv'
<1>1. cli \in [Client -> User] /\ cli[c] \in User /\ snd \in [Client -> Seq(FtpReply)]
  BY DEF FtpInv, Sessions, SessionTypes, FtpStreams
<1>2. PICK n \in 1 .. Len(snd[c]) : n = 1
  BY DEF GetReply, ClientRead
<1>3. PICK q \in Seq(FtpReply) : q = snd[c] /\ 1 \in 1 .. Len(q)
  BY <1>1, <1>2
<1>4. PICK t \in Seq(FtpReply) :
          /\ Len(t) = Len(q) - 1
          /\ \A i \in 1 .. Len(t) : t[i] = q[i + 1] /\ i + 1 \in 1 .. Len(q) /\ i + 1 # 1
          /\ snd' = [snd EXCEPT ![c] = t]
  <2> DEFINE t == SubSeq(q, 1 + 1, Len(q))
  <2>1. snd' = [snd EXCEPT ![c] = t]
    BY <1>3 DEF GetReply, ClientRead
  <2>2. /\ t \in Seq(FtpReply) /\ Len(t) = Len(q) - 1 /\ Len(q) \in Nat
        /\ \A i \in 1 .. Len(q) - 1 : t[i] = q[i + 1] /\ i + 1 \in 1 .. Len(q)
    BY <1>3, DropOne
  <2> HIDE DEF t
  <2>3. \A i \in 1 .. Len(t) : i \in 1 .. Len(q) - 1 /\ i + 1 # 1
    BY <2>2
  <2> QED
    BY <2>1, <2>2, <2>3
<1>5. PICK u \in User :
          /\ cli' = [cli EXCEPT ![c] = u] /\ u.data = cli[c].data
          /\ u.told = IF q[1] \in Port THEN q[1] ELSE cli[c].told
  <2>1. CASE q[1] \in Port
    <3> DEFINE v == [cli[c] EXCEPT !.told = q[1]]
    <3>1. cli' = [cli EXCEPT ![c] = v]
      BY <1>3, <2>1, Zenon DEF GetReply
    <3>2. v \in User /\ v.told = q[1] /\ v.data = cli[c].data
      BY <1>1, <2>1, Zenon DEF User
    <3> HIDE DEF v
    <3> QED
      BY <2>1, <3>1, <3>2
  <2>2. CASE q[1] \notin Port
    <3> DEFINE v == [cli[c] EXCEPT !.asked = None]
    <3>1. cli' = [cli EXCEPT ![c] = v]
      BY <1>3, <2>2, Zenon DEF GetReply
    <3>2. v \in User /\ v.told = cli[c].told /\ v.data = cli[c].data
      BY <1>1, Zenon DEF User
    <3> HIDE DEF v
    <3> QED
      BY <2>2, <3>1, <3>2
  <2> QED
    BY <2>1, <2>2
<1>6. c \notin shut /\ UNCHANGED <<rcv, ends, shut, forkVars, s, hist>>
  BY DEF GetReply, ClientRead
<1>7. FtpStreams'
  BY <1>1, <1>4, <1>6 DEF FtpInv, FtpStreams
<1>8. ForkInv' /\ OnceInv'
  BY <1>6, ForkStream, OnceStream DEF FtpInv
<1>9. Sessions'
  BY <1>1, <1>5, <1>6, SessionsSame DEF FtpInv, forkVars
<1>10. /\ cli'[c] = u /\ \A d \in Client \ {c} : cli'[d] = cli[d]
       /\ snd'[c] = t /\ \A d \in Client \ {c} : snd'[d] = snd[d]
  BY <1>1, <1>4, <1>5
<1>11. ASSUME c \notin Astray PROVE OwnSession(c)'
  <2>1. OwnSession(c) /\ PortIsKept(c)
    BY <1>6, <1>11 DEF FtpInv, OwnInv, OwnSession
  <2>2. \A p : Waits(c, p) => Waits(c, p)'
    BY <1>6 DEF Waits, Queued, forkVars
  <2>3. PortIsKept(c)'
    <3>1. CASE q[1] \in Port
      <4>1. Waits(c, q[1])' /\ u.told = q[1]
        BY <1>3, <1>5, <2>1, <2>2, <3>1 DEF PortIsKept
      <4>2. \A i \in 1 .. Len(t) : t[i] \notin Port
        BY <1>3, <1>4, <2>1, <3>1 DEF PortIsKept
      <4> QED
        BY <1>10, <4>1, <4>2 DEF PortIsKept
    <3>2. CASE q[1] \notin Port
      <4>1. u.told = cli[c].told
        BY <1>5, <3>2
      <4>2. \A i \in 1 .. Len(t) : t[i] \in Port => Waits(c, t[i])' /\ u.told = None
        BY <1>3, <1>4, <2>1, <2>2, <4>1 DEF PortIsKept
      <4>3. \A i, j \in 1 .. Len(t) : t[i] \in Port /\ t[j] \in Port => i = j
        <5> TAKE i, j \in 1 .. Len(t)
        <5> HAVE t[i] \in Port /\ t[j] \in Port
        <5>1. i + 1 = j + 1
          BY <1>3, <1>4, <2>1 DEF PortIsKept
        <5> QED
          BY <1>4, <5>1
      <4>4. u.told # None => Waits(c, u.told)'
        BY <2>1, <2>2, <4>1 DEF PortIsKept
      <4> QED
        BY <1>10, <4>2, <4>3, <4>4 DEF PortIsKept
    <3> QED
      BY <3>1, <3>2
  <2> QED
    BY <1>5, <1>6, <1>10, <2>1, <2>3 DEF OwnSession, Queued
<1>12. OwnInv'
  <2>1. ASSUME NEW d \in Client \ Astray, d # c PROVE OwnSession(d)'
    <3>1. OwnSession(d)
      BY <2>1 DEF FtpInv, OwnInv
    <3> QED
      BY <1>6, <1>10, <2>1, <3>1, StillKept DEF forkVars
  <2> QED
    BY <1>6, <1>11, <2>1, OwnSame DEF FtpInv
<1> QED
  BY <1>7, <1>8, <1>9, <1>12 DEF FtpInv

(* Whoever listens on the port gets the connection: one child at most, and *)
(* that is the client's own if it has not gone astray.                     *)
LEMMA FtpConnectData ==
    ASSUME FtpInv, NEW c \in Client, ConnectData(c)
    PROVE  FtpInv'
<1>1. cli \in [Client -> User] /\ cli[c] \in User /\ s \in [Client -> Session]
  BY DEF FtpInv, Sessions, SessionTypes
<1>2. PICK u \in User : cli' = [cli EXCEPT ![c] = u] /\ u.told = None /\ u.data = cli[c].data
  <2> DEFINE v == [cli[c] EXCEPT !.told = None]
  <2>1. cli' = [cli EXCEPT ![c] = v]
    BY Zenon DEF ConnectData
  <2>2. v \in User /\ v.told = None /\ v.data = cli[c].data
    BY <1>1, Zenon DEF User
  <2> HIDE DEF v
  <2> QED
    BY <2>1, <2>2
<1>3. PICK p \in Port : p = cli[c].told
  BY <1>1 DEF ConnectData, User
<1>4. UNCHANGED <<sockVars, forkVars, hist>> /\ c \notin shut
  BY DEF ConnectData
<1>5. s' = [d \in Client |-> IF Listening(d, p) THEN [s[d] EXCEPT !.queue = Append(@, c)]
                                                ELSE s[d]]
  BY <1>3 DEF ConnectData
<1>6. ASSUME NEW d \in Client
      PROVE  /\ s'[d] \in Session /\ s'[d].pc = s[d].pc /\ s'[d].server = s[d].server
             /\ s'[d].client = s[d].client /\ s'[d].nfd = s[d].nfd /\ s'[d].lost = s[d].lost
             /\ s'[d].drawn = s[d].drawn
             /\ Listening(d, p) => s'[d].queue = Append(s[d].queue, c)
             /\ ~ Listening(d, p) => s'[d] = s[d]
  <2>1. CASE Listening(d, p)
    <3> DEFINE a == Append(s[d].queue, c)
               v == [s[d] EXCEPT !.queue = a]
    <3>1. s'[d] = v
      BY <1>5, <2>1, Zenon
    <3>2. s[d] \in Session
      BY <1>1
    <3>3. a \in Seq(Client)
      BY <3>2 DEF Session
    <3> HIDE DEF a
    <3>4. /\ v \in Session /\ v.pc = s[d].pc /\ v.server = s[d].server
          /\ v.client = s[d].client /\ v.nfd = s[d].nfd /\ v.lost = s[d].lost
          /\ v.drawn = s[d].drawn /\ v.queue = a
      BY <3>2, <3>3, Zenon DEF Session
    <3> USE DEF a
    <3> HIDE DEF v
    <3> QED
      BY <2>1, <3>1, <3>4
  <2>2. CASE ~ Listening(d, p)
    <3>1. s'[d] = s[d]
      BY <1>5, <2>2, Zenon
    <3> QED
      BY <1>1, <2>2, <3>1
  <2> QED
    BY <2>1, <2>2
<1>7. s' \in [Client -> Session]
  <2>1. s' = [d \in Client |-> s'[d]]
    BY <1>5
  <2> QED
    BY <1>6, <2>1
<1>8. ForkInv' /\ OnceInv' /\ FtpStreams'
  BY <1>4, ForkStream, OnceStream DEF FtpInv, FtpStreams, sockVars, ends
<1>9. Sessions'
  <2>1. SessionTypes'
    BY <1>1, <1>2, <1>4, <1>7 DEF FtpInv, Sessions, SessionTypes, hist
  <2>2. Phases'
    BY <1>4, <1>6 DEF FtpInv, Sessions, Phases, InPhase, forkVars
  <2>3. Balances'
    BY <1>4, <1>6 DEF FtpInv, Sessions, Balances, Balance, hist
  <2>4. PortsApart'
    BY <1>6 DEF FtpInv, Sessions, PortsApart
  <2> QED
    BY <2>1, <2>2, <2>3, <2>4 DEF Sessions
<1>10. cli'[c] = u /\ \A d \in Client \ {c} : cli'[d] = cli[d]
  BY <1>1, <1>2
<1>11. ASSUME NEW d \in Client, NEW e \in Client, Queued(e, d)' PROVE Queued(e, d) \/ e = c
  <2>1. CASE Listening(d, p)
    <3>1. PICK q \in Seq(Client) : q = s[d].queue
      BY <1>1 DEF Session
    <3>2. s'[d].queue = Append(q, c)
      BY <1>6, <2>1, <3>1
    <3> QED
      BY <1>11, <3>1, <3>2 DEF Queued
  <2> QED
    BY <1>6, <1>11, <2>1 DEF Queued
<1>12. UNCHANGED <<snd, shut, child, broken, crossed>>
  BY <1>4 DEF sockVars, forkVars, hist
<1>13. ASSUME NEW d \in Client \ Astray, d # c PROVE OwnSession(d)'
  <2>1. OwnSession(d)
    BY <1>13 DEF FtpInv, OwnInv
  <2>2. \A e \in Client : Queued(d, e)' => Queued(d, e)
    BY <1>11, <1>13
  <2>3. \A i, j \in 1 .. Len(s'[d].queue) : s'[d].queue[i] = d /\ s'[d].queue[j] = d => i = j
    <3>1. CASE Listening(d, p)
      <4>1. PICK q \in Seq(Client) : q = s[d].queue
        BY <1>1 DEF Session
      <4>2. s'[d].queue = Append(q, c)
        BY <1>6, <3>1, <4>1
      <4>3. /\ Len(Append(q, c)) = Len(q) + 1 /\ Append(q, c)[Len(q) + 1] = c
            /\ \A i \in 1 .. Len(q) : Append(q, c)[i] = q[i]
            /\ \A i \in 1 .. Len(q) + 1 : i \in 1 .. Len(q) \/ i = Len(q) + 1
        OBVIOUS
      <4> QED
        BY <1>13, <2>1, <4>1, <4>2, <4>3 DEF OwnSession
    <3> QED
      BY <1>6, <2>1, <3>1 DEF OwnSession
  <2>4. \A e \in Client : s'[e].client = d => s[e].client = d
    BY <1>6
  <2> QED
    BY <1>6, <1>10, <1>12, <1>13, <2>1, <2>2, <2>3, <2>4, OwnKept
<1>14. ASSUME c \notin Astray PROVE OwnSession(c)'
  <2>1. OwnSession(c)
    BY <1>14 DEF FtpInv, OwnInv
  <2>2. Waits(c, p) /\ \A i \in 1 .. Len(snd[c]) : snd[c][i] \notin Port
    BY <1>3, <1>4, <2>1, FtpAssumption DEF OwnSession, PortIsKept
  <2>3. Listening(c, p) /\ ~ Queued(c, c) /\ s[c].pc = "accept"
    BY <2>2 DEF Waits, Listening
  <2>4. ASSUME NEW d \in Client, Queued(c, d)' PROVE d = c /\ s'[c].pc = "accept"
    <3>1. CASE Listening(d, p)
      BY <1>6, <2>3, <3>1 DEF FtpInv, Sessions, PortsApart, Listening
    <3>2. CASE ~ Listening(d, p)
      BY <1>6, <2>1, <2>4, <3>2 DEF OwnSession, Queued
    <3> QED
      BY <3>1, <3>2
  <2>5. \A i, j \in 1 .. Len(s'[c].queue) : s'[c].queue[i] = c /\ s'[c].queue[j] = c => i = j
    <3>1. PICK q \in Seq(Client) : q = s[c].queue
      BY <1>1 DEF Session
    <3>2. s'[c].queue = Append(q, c)
      BY <1>6, <2>3, <3>1
    <3>3. /\ Len(Append(q, c)) = Len(q) + 1
          /\ \A i \in 1 .. Len(q) : Append(q, c)[i] = q[i]
          /\ \A i \in 1 .. Len(q) + 1 : i \in 1 .. Len(q) \/ i = Len(q) + 1
      OBVIOUS
    <3> QED
      BY <2>3, <3>1, <3>2, <3>3 DEF Queued
  <2>6. PortIsKept(c)'
    BY <1>2, <1>10, <1>12, <2>2 DEF PortIsKept
  <2>7. \A d \in Client : s'[d].client = c => d = c
    BY <1>6, <2>1 DEF OwnSession
  <2> QED
    BY <1>2, <1>10, <2>1, <2>4, <2>5, <2>6, <2>7 DEF OwnSession
<1>15. OwnInv'
  <2>1. \A d \in Client : s'[d].server = "1" => d \in broken'
    BY <1>6, <1>12 DEF FtpInv, OwnInv
  <2> QED
    BY <1>12, <1>13, <1>14, <2>1 DEF FtpInv, OwnInv, Astray
<1> QED
  BY <1>8, <1>9, <1>15 DEF FtpInv

(* A client connects or closes, and what was on its way to it is lost.     *)
LEMMA FtpConnects ==
    ASSUME FtpInv, NEW c \in Client, FtpConnectStep(c)
    PROVE  FtpInv'
<1>1. /\ Connect(c) \/ Refused(c) \/ ClientClose(c)
      /\ UNCHANGED <<forkVars, s, cli, hist>>
  BY DEF FtpConnectStep
<1>2. /\ rcv' = rcv
      /\ \/ snd' = snd /\ shut' = shut
         \/ snd' = [snd EXCEPT ![c] = <<>>] /\ shut' = shut \cup {c}
  BY <1>1 DEF Connect, Refused, ClientClose
<1>3. FtpStreams'
  <2>1. <<>> \in Seq(FtpReply)
    OBVIOUS
  <2> QED
    BY <1>2, <2>1 DEF FtpInv, FtpStreams
<1>4. ForkInv' /\ OnceInv'
  BY <1>1, ForkConnect, OnceConnect DEF FtpInv
<1>5. Sessions'
  BY <1>1, SessionsSame DEF FtpInv, Sessions, SessionTypes, forkVars
<1>6. OwnInv'
  <2>1. ASSUME NEW d \in Client \ Astray PROVE OwnSession(d)'
    <3>1. OwnSession(d)
      BY <2>1 DEF OwnInv, FtpInv
    <3>2. d \notin shut' => snd'[d] = snd[d] /\ d \notin shut
      BY <1>2 DEF FtpInv, FtpStreams
    <3> QED
      BY <1>1, <3>1, <3>2 DEF OwnSession, PortIsKept, Waits, Queued, forkVars
  <2> QED
    BY <1>1, <2>1, OwnSame DEF FtpInv
<1> QED
  BY <1>3, <1>4, <1>5, <1>6 DEF FtpInv

(* Steps of main and of children at their start and their end.             *)
LEMMA FtpProcesses ==
    ASSUME FtpInv, FtpMain \/ FtpFails \/ \E c \in Client : FtpChild(c)
    PROVE  FtpInv'
<1>1. UNCHANGED <<rcv, snd, shut, s, cli, hist>>
  <2>1. UNCHANGED <<rcv, snd>>
    BY ForkSame DEF FtpMain, FtpFails, FtpChild
  <2>2. shut' = shut
    BY DEF FtpMain, FtpFails, FtpChild, MainStep, Accept, Fork, ParentClose, MainFails, ChildStep,
           ChildStart, ChildEnd, SockAccept, SockFork, SockExit, CloseConn, CloseListen, Hold
  <2> QED
    BY <2>1, <2>2 DEF FtpMain, FtpFails, FtpChild
<1>2. ForkInv'
  BY ForkMain, ForkFaults, ForkChild DEF FtpInv, FtpMain, FtpFails, FtpChild
<1>3. OnceInv'
  <2>1. CASE FtpMain
    BY <2>1, OnceMain DEF FtpInv, FtpMain
  <2>2. CASE FtpFails
    BY <2>2, OnceMainGone DEF FtpInv, FtpFails, MainFails
  <2>3. ASSUME NEW c \in Client, FtpChild(c) PROVE OnceInv'
    <3>1. PICK l, f, e : Hold(l, f) /\ child' = [child EXCEPT ![c] = e]
      BY <2>3 DEF FtpChild, ChildStep, ChildStart, ChildEnd, CloseListen, SockExit
    <3>2. child[c] # "none" /\ UNCHANGED <<main, sfd_client>>
      BY <2>3 DEF FtpChild, ChildStep, ChildStart, ChildEnd
    <3> QED
      BY <3>1, <3>2, OnceChild DEF FtpInv
  <2> QED
    BY <2>1, <2>2, <2>3
<1>4. \A d \in Client :
          /\ child'[d] \in {"none", "start", "serve"} => child[d] \in {"none", "start", "serve"}
          /\ child[d] = "serve" => child'[d] = "serve"
  <2>1. CASE FtpMain
    <3>1. CASE Fork
      <4>1. child' = [child EXCEPT ![sfd_client] = "start"] /\ child[sfd_client] = "none"
        BY <3>1 DEF Fork, FtpInv, OnceInv
      <4> QED
        BY <4>1 DEF FtpInv, ForkInv, ForkTypeOK
    <3>2. CASE Accept \/ ParentClose
      BY <3>2 DEF Accept, ParentClose
    <3> QED
      BY <2>1, <3>1, <3>2 DEF FtpMain, MainStep
  <2>2. CASE FtpFails
    BY <2>2 DEF FtpFails, MainFails
  <2>3. ASSUME NEW c \in Client, FtpChild(c), NEW d \in Client
        PROVE  /\ child'[d] \in {"none", "start", "serve"} => child[d] \in {"none", "start", "serve"}
               /\ child[d] = "serve" => child'[d] = "serve"
    BY <2>3 DEF FtpChild, ChildStep, ChildStart, ChildEnd, FtpInv, ForkInv, ForkTypeOK
  <2> QED
    BY <2>1, <2>2, <2>3
<1>5. Sessions'
  BY <1>1, <1>4, SessionsSame DEF FtpInv, Sessions, SessionTypes
<1>6. OwnInv'
  <2>1. \A d \in Client \ Astray : OwnSession(d)'
    BY <1>1, <1>4, StillKept DEF FtpInv, OwnInv
  <2> QED
    BY <1>1, <2>1, OwnSame DEF FtpInv
<1> QED
  BY <1>1, <1>2, <1>3, <1>5, <1>6 DEF FtpInv, FtpStreams
-----------------------------------------------------------------------------
LEMMA FtpInitHolds == FtpInit => FtpInv
<1> SUFFICES ASSUME FtpInit PROVE FtpInv
  OBVIOUS
<1>1. ForkInv
  BY ForkInitHolds DEF FtpInit
<1>2. OnceInv
  <2>1. queue = <<>> /\ Len(<<>>) = 0
    BY DEF FtpInit, ForkInit, SockInit
  <2> QED
    BY <2>1 DEF FtpInit, ForkInit, OnceInv
<1>3. FtpStreams
  BY DEF FtpInit, ForkInit, SockInit, FtpStreams
<1>4. PICK r \in Session :
          r = NewSession /\ InPhase(r) /\ Balance(r, inherited) /\ r.server = "none"
  BY NewSessionTypes DEF FtpInit
<1>5. PICK u \in User : u = [asked |-> None, asks |-> 0, told |-> None, data |-> None]
  BY DEF User
<1>6. /\ s = [c \in Client |-> r] /\ cli = [c \in Client |-> u] /\ u.told = None /\ u.data = None
      /\ inherited \in Inherited /\ busy = 0 /\ broken = {} /\ crossed = {} /\ MaxBusy \in Nat
  BY <1>4, <1>5, FtpAssumption DEF FtpInit
<1>7. Sessions
  <2>1. SessionTypes
    <3>1. 0 \in 0 .. MaxBusy
      BY <1>6
    <3> QED
      BY <1>6, <3>1 DEF SessionTypes
  <2>2. Phases /\ Balances /\ PortsApart
    BY <1>4, <1>6 DEF Phases, Balances, PortsApart
  <2> QED
    BY <2>1, <2>2 DEF Sessions
<1>8. OwnInv
  <2>1. r.queue = <<>> /\ r.client = None
    BY <1>4, NewSessionTypes DEF FtpInit
  <2>2. ASSUME NEW c \in Client PROVE OwnSession(c)
    <3>1. snd[c] = <<>> /\ Len(<<>>) = 0
      BY DEF FtpInit, ForkInit, SockInit
    <3>2. \A d \in Client : ~ Queued(c, d) /\ s[d].client = None
      BY <1>6, <2>1, NoneQueued DEF Queued
    <3>3. \A i, j \in 1 .. Len(s[c].queue) : s[c].queue[i] = c /\ s[c].queue[j] = c => i = j
      BY <3>2 DEF Queued
    <3> QED
      BY <1>6, <3>1, <3>2, <3>3, ForkAssumption DEF OwnSession, PortIsKept
  <2> QED
    BY <1>4, <1>6, <2>2 DEF OwnInv
<1> QED
  BY <1>1, <1>2, <1>3, <1>7, <1>8 DEF FtpInv

LEMMA FtpStepHolds == FtpInv /\ [FtpNext]_ftpVars => FtpInv'
<1> SUFFICES ASSUME FtpInv, [FtpNext]_ftpVars PROVE FtpInv'
  OBVIOUS
<1>1. CASE FtpMain \/ FtpFails \/ \E c \in Client : FtpChild(c)
  BY <1>1, FtpProcesses
<1>2. ASSUME NEW c \in Client, ProcessLine(c) PROVE FtpInv'
  BY <1>2, FtpReceive, FtpLeaves, FtpCommand, FtpPwdFails, FtpDeath, FtpBind, FtpBindFails,
     FtpOptFails, FtpListen, FtpTell, FtpAccept, FtpAcceptFails, FtpSend, FtpFinal, FtpCloseServer
     DEF ProcessLine
<1>3. ASSUME NEW c \in Client, KillChild(c) PROVE FtpInv'
  BY <1>3, FtpDeath
<1>4. ASSUME NEW c \in Client, FtpConnectStep(c) PROVE FtpInv'
  BY <1>4, FtpConnects
<1>5. ASSUME NEW c \in Client, ClientReacts(c) PROVE FtpInv'
  BY <1>5, FtpReplied, FtpConnectData DEF ClientReacts
<1>6. ASSUME NEW c \in Client, NEW l \in Line, AskLine(c, l) PROVE FtpInv'
  BY <1>6, FtpAsk
<1>7. CASE UNCHANGED ftpVars
  <2>1. UNCHANGED <<sockVars, forkVars, s, cli, hist>>
    BY <1>7 DEF ftpVars
  <2>2. ForkInv' /\ OnceInv' /\ FtpStreams'
    BY <2>1, ForkStream, OnceStream DEF FtpInv, FtpStreams, sockVars, ends
  <2>3. Sessions'
    BY <2>1, SessionsSame DEF FtpInv, Sessions, SessionTypes, forkVars
  <2>4. OwnInv'
    BY <2>1, StillKept, OwnSame DEF FtpInv, OwnInv, sockVars, forkVars
  <2> QED
    BY <2>2, <2>3, <2>4 DEF FtpInv
<1> QED
  BY <1>1, <1>2, <1>3, <1>4, <1>5, <1>6, <1>7 DEF FtpNext

THEOREM FtpInvariant == FtpSpec => []FtpInv
BY FtpInitHolds, FtpStepHolds, PTL DEF FtpSpec

(* Types and bounds: a child never has more than FdMax descriptors and     *)
(* never loses one it does not have, whatever fails.                       *)
THEOREM FtpTypeCorrect == FtpSpec => []FtpTypeOK
<1>1. FtpInv => FtpTypeOK
  BY DEF FtpInv, ForkInv, Sessions, SessionTypes, FtpTypeOK
<1> QED
  BY <1>1, FtpInvariant, PTL

(* For any number of clients, ports, tries and descriptors: a child has a  *)
(* descriptor for its connection, those it inherited, one per socket it    *)
(* knows, and those that new_server, get_pwd and send_path dropped         *)
(* (myftp2_server_bd.c:49-100 and 187-270).                                *)
THEOREM FtpDescriptors == FtpSpec => []DescriptorsAccounted
<1>1. FtpInv => DescriptorsAccounted
  BY DEF FtpInv, Sessions, Balances, Balance, DescriptorsAccounted
<1> QED
  BY <1>1, FtpInvariant, PTL

(* For any number of clients, although all children draw the same ports in *)
(* the same order: the data a client is sent comes from its own child,     *)
(* unless that very child died, had no descriptor or no socket for it      *)
(* (setsockopt, myftp2_server_bd.c:63-67), or had accepted another client, *)
(* which needs a session that broke down (myftp2_server_bd.c:187-270).     *)
THEOREM FtpOwnData == FtpSpec => []OwnData
<1>1. FtpInv => OwnData
  BY DEF FtpInv, OwnInv, Astray, OwnSession, OwnData
<1> QED
  BY <1>1, FtpInvariant, PTL
=============================================================================
