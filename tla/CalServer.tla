----------------------------- MODULE CalServer ------------------------------
(***************************************************************************)
(* EX03-12: the server multiplies the two operands that a client sends.    *)
(* Unlike EX03-13 every reply has the same type, MTYPE_S2C, so msgrcv      *)
(* gives a client the oldest reply, whoever asked for it.  A client is one *)
(* run of cal_client.                                                      *)
(***************************************************************************)
EXTENDS MsgQueue

CONSTANTS
    Client,         \* runs of cal_client
    Calculator,     \* processes that can run cal_server
    Op,             \* operands: what atoi() makes of argv
    Width,          \* an int has this many bits
    MTYPE_S2C       \* type of every reply

ASSUME CalAssumption ==
    /\ IsFiniteSet(Client) /\ IsFiniteSet(Calculator)
    /\ Op \subseteq Int /\ Width \in Nat \ {0}
    /\ MTYPE_C2S # MTYPE_S2C
    /\ MaxClientKill \in Nat /\ MaxServerKill \in Nat

VARIABLES
    calPc,                      \* per client; "lost" ended after it sent
    calArg,                     \* per client: <<op1, op2>> as atoi() reads them
    calCid, printed,            \* per client: id_msg and what it prints
    calSpc, calSid, calSbuf,    \* per server
    calClientKills, calServerKills

calClientVars == <<calPc, calArg, calCid, printed>>
calServerVars == <<calSpc, calSid, calSbuf>>
calKills == <<calClientKills, calServerKills>>
calVars == <<queueVars, calClientVars, calServerVars, calKills>>

CalBlank == [mtype |-> Junk, op1 |-> Junk, op2 |-> Junk, result |-> Junk]

CalInit ==
    /\ QueueInit
    /\ calPc = [c \in Client |-> "new"]
    /\ calArg = [c \in Client |-> <<Junk, Junk>>]
    /\ calCid = [c \in Client |-> 0]
    /\ printed = [c \in Client |-> CalBlank]
    /\ calSpc = [s \in Calculator |-> "off"]
    /\ calSid = [s \in Calculator |-> 0]
    /\ calSbuf = [s \in Calculator |-> CalBlank]
    /\ calClientKills = 0 /\ calServerKills = 0
-----------------------------------------------------------------------------
(* The client. *)

Exec(c) ==
    /\ calPc[c] = "new"
    /\ calPc' = [calPc EXCEPT ![c] = "snd"]
    /\ \E a, b \in Op : calArg' = [calArg EXCEPT ![c] = <<a, b>>]
    /\ calCid' = [calCid EXCEPT ![c] = qid]
    /\ UNCHANGED <<queueVars, printed, calServerVars, calKills>>

CalRequest(c) ==
    [mtype |-> MTYPE_C2S, op1 |-> calArg[c][1], op2 |-> calArg[c][2], result |-> Junk]

Ask(c) ==
    /\ calPc[c] = "snd"
    /\ MsgSnd(calCid[c], CalRequest(c))
    /\ calPc' = [calPc EXCEPT ![c] = "rcv"]
    /\ UNCHANGED <<calArg, calCid, printed, calServerVars, calKills>>

(* msgrcv, printf and the end of main.                                     *)
Receive(c) ==
    /\ calPc[c] = "rcv"
    /\ \E i \in 1..Len(queue) :
          /\ MsgRcv(calCid[c], MTYPE_S2C, i)
          /\ printed' = [printed EXCEPT ![c] = queue[i]]
    /\ calPc' = [calPc EXCEPT ![c] = "done"]
    /\ UNCHANGED <<calArg, calCid, calServerVars, calKills>>

CalClientGone(c) ==
    /\ calPc[c] \in {"snd", "rcv"}
    /\ calPc' = [calPc EXCEPT ![c] = IF @ = "snd" THEN "off" ELSE "lost"]
    /\ UNCHANGED <<queueVars, calArg, calCid, printed, calServerVars>>

CalClientError(c) == Removed(calCid[c]) /\ CalClientGone(c) /\ UNCHANGED calKills

CalClientKill(c) ==
    /\ calClientKills < MaxClientKill
    /\ CalClientGone(c)
    /\ calClientKills' = calClientKills + 1
    /\ UNCHANGED calServerKills
-----------------------------------------------------------------------------
(* The server. *)

CalServerExec(s) ==
    /\ calSpc[s] = "off"
    /\ calSpc' = [calSpc EXCEPT ![s] = "rcv"]
    /\ calSid' = [calSid EXCEPT ![s] = qid]
    /\ UNCHANGED <<queueVars, calClientVars, calSbuf, calKills>>

(* int * int: the product as the multiplication instruction leaves it.     *)
Product(a, b) ==
    LET half == 2^(Width - 1) IN ((a * b + half) % (2 * half)) - half

(* The request turned into its reply.                                      *)
Multiplied(m) ==
    [mtype |-> MTYPE_S2C, op1 |-> m.op1, op2 |-> m.op2, result |-> Product(m.op1, m.op2)]

Take(s) ==
    /\ calSpc[s] = "rcv"
    /\ \E i \in 1..Len(queue) :
          /\ MsgRcv(calSid[s], MTYPE_C2S, i)
          /\ calSbuf' = [calSbuf EXCEPT ![s] = Multiplied(queue[i])]
    /\ calSpc' = [calSpc EXCEPT ![s] = "snd"]
    /\ UNCHANGED <<calClientVars, calSid, calKills>>

(* Mutant: only a result other than 0 is sent.                             *)
ReplyNonZero(s) ==
    /\ calSpc[s] = "snd"
    /\ IF calSbuf[s].result # 0 THEN MsgSnd(calSid[s], calSbuf[s]) ELSE UNCHANGED queueVars
    /\ calSpc' = [calSpc EXCEPT ![s] = "rcv"]
    /\ calSbuf' = [calSbuf EXCEPT ![s] = CalBlank]
    /\ UNCHANGED <<calClientVars, calSid, calKills>>

Reply(s) ==
    /\ calSpc[s] = "snd"
    /\ MsgSnd(calSid[s], calSbuf[s])
    /\ calSpc' = [calSpc EXCEPT ![s] = "rcv"]
    /\ calSbuf' = [calSbuf EXCEPT ![s] = CalBlank]
    /\ UNCHANGED <<calClientVars, calSid, calKills>>

CalServerGone(s) ==
    /\ calSpc' = [calSpc EXCEPT ![s] = "off"]
    /\ calSbuf' = [calSbuf EXCEPT ![s] = CalBlank]
    /\ UNCHANGED <<queueVars, calClientVars, calSid>>

CalServerError(s) ==
    /\ calSpc[s] \in {"rcv", "snd"}
    /\ Removed(calSid[s])
    /\ CalServerGone(s)
    /\ UNCHANGED calKills

CalServerKill(s) ==
    /\ calServerKills < MaxServerKill
    /\ calSpc[s] \in {"rcv", "snd"}
    /\ CalServerGone(s)
    /\ calServerKills' = calServerKills + 1
    /\ UNCHANGED calClientKills

CalRemoveQueue == IpcRmid /\ UNCHANGED <<calClientVars, calServerVars, calKills>>
-----------------------------------------------------------------------------
CalNext ==
    \/ \E c \in Client : Exec(c) \/ Ask(c) \/ Receive(c) \/ CalClientError(c) \/ CalClientKill(c)
    \/ \E s \in Calculator : CalServerExec(s) \/ Take(s) \/ Reply(s) \/ CalServerError(s) \/ CalServerKill(s)
    \/ CalRemoveQueue

CalSpec == CalInit /\ [][CalNext]_calVars
-----------------------------------------------------------------------------
About(m, ops) == <<m.op1, m.op2>> = ops

Asked(ops) == {c \in Client : calPc[c] \in {"rcv", "done", "lost"} /\ calArg[c] = ops}
Printed(ops) == {c \in Client : calPc[c] = "done" /\ About(printed[c], ops)}
Underway(ops) ==
    Cardinality({i \in 1..Len(queue) : About(queue[i], ops)})
      + Cardinality({s \in Calculator : calSpc[s] = "snd" /\ calSid[s] = qid /\ About(calSbuf[s], ops)})

(* Every pair of operands that clients sent is printed by some client or   *)
(* still underway, as often as it was sent: none is lost unless a server   *)
(* is killed or the queue removed, and none is ever answered twice         *)
(* (cal_client.c:38-49, cal_server.c:34-47), although the replies may be   *)
(* handed to the wrong clients.                                            *)
EquationsOnce ==
    \A ops \in Op \X Op :
        LET sent == Cardinality(Asked(ops))
            found == Cardinality(Printed(ops)) + Underway(ops)
        IN  IF qid = 0 /\ calServerKills = 0 THEN found = sent ELSE found <= sent

(* cal_client {op1} {op2} prints the product of its own operands           *)
(* (cal_client.c:23, 49).                                                  *)
OwnEquation ==
    \A c \in Client : calPc[c] = "done" => About(printed[c], calArg[c])
=============================================================================
