------------------------------ MODULE MsgQueue ------------------------------
(***************************************************************************)
(* The System V message queue that the programs of EX03-11, EX03-12 and    *)
(* EX03-13 share.  The queue is code of the kernel; what is modelled here  *)
(* is what the calls of the programs rely on: messages stay in the order   *)
(* they were sent, msgrcv takes the FIRST message of the type it names,    *)
(* msgsnd blocks while the queue is full, and IPC_RMID destroys the queue  *)
(* with its messages and makes every call that names the old identifier    *)
(* fail.                                                                   *)
(*                                                                         *)
(* Every program gets the identifier with msgget(KEY, IPC_CREAT), so after *)
(* IPC_RMID the key names a new, empty queue: qid counts the queues the    *)
(* key has had, and queue holds the messages of the current one.           *)
(***************************************************************************)
EXTENDS Integers, FiniteSets, SequencesExt

CONSTANTS
    Capacity,     \* messages that fit in the queue (msg_qbytes / message size)
    MTYPE_C2S,    \* type of a request
    Junk,         \* an uninitialised field of a message
    MaxRmid,      \* bound: how often the operator removes the queue
    MaxClientKill, MaxServerKill    \* bounds: processes killed

ASSUME QueueAssumption == Capacity \in Nat \ {0} /\ MaxRmid \in Nat

VARIABLES
    queue,        \* the messages of the current queue, oldest first
    qid           \* the identifier msgget returns now

queueVars == <<queue, qid>>

QueueInit == queue = <<>> /\ qid = 0

(* i is the position of the first message of type t.                       *)
IsFirst(t, i) ==
    /\ i \in 1..Len(queue)
    /\ queue[i].mtype = t
    /\ \A j \in 1..(i - 1) : queue[j].mtype # t

(* msgsnd(id, m, size, 0): enabled when the call does not block.           *)
MsgSnd(id, m) ==
    /\ id = qid
    /\ Len(queue) < Capacity
    /\ queue' = Append(queue, m)
    /\ qid' = qid

(* msgrcv(id, &buf, size, t, 0): takes message i, the first of type t.     *)
MsgRcv(id, t, i) ==
    /\ id = qid
    /\ IsFirst(t, i)
    /\ queue' = RemoveAt(queue, i)
    /\ qid' = qid

(* The call fails with EINVAL or EIDRM: the queue it names is gone.        *)
Removed(id) == id # qid

(* msgctl IPC_RMID, run by the operator.  IPC_STAT changes nothing.        *)
IpcRmid ==
    /\ qid < MaxRmid
    /\ qid' = qid + 1
    /\ queue' = <<>>
=============================================================================
