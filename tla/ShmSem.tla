------------------------------- MODULE ShmSem -------------------------------
(***************************************************************************)
(* EX03-10: shmput writes a record (status, buf, checksum) into a shared   *)
(* memory segment again and again until TIMEOUT seconds have passed, then  *)
(* marks it invalid and ends; shmget checks and prints the record until it *)
(* is no longer valid.  Each round is between a semop -1 and a semop +1,   *)
(* but both programs break out of the loop BETWEEN the two and leave it to *)
(* SEM_UNDO to open the semaphore.  A process may be killed anywhere.      *)
(***************************************************************************)
EXTENDS SysVSem, FiniteSets

CONSTANTS
    Producer, Consumer,   \* processes running shmput and shmget
    Time,                 \* what gettimeofday can put into buf
    TIMEOUT,
    MaxKill               \* bound: processes killed

ASSUME ShmAssumption ==
    /\ Process = Producer \cup Consumer
    /\ Producer \cap Consumer = {}
    /\ TIMEOUT \in Nat /\ MaxKill \in Nat

NoTime == "zeros"         \* buf of a new segment
Sum(s, b) == <<s, b>>     \* the byte sum, as far as it tells records apart
Zero == Sum(FALSE, NoTime)
Expired == TIMEOUT + 1

VARIABLES
    pc, id,               \* per process; "new" before it runs
    cs,                   \* per process: the checksum it computed
    age,                  \* per producer: seconds since its first round, -1 before
    status, buf, sum,     \* the segment
    killed

local == <<pc, id, cs, age>>
shm == <<status, buf, sum>>
vars == <<semVars, local, shm, killed>>

InSection == {"time", "buf", "status", "sum", "cs", "leave", "check", "add", "compare", "print", "inc"}
Live == InSection \cup {"dec"}

Init ==
    /\ SemInit
    /\ pc = [p \in Process |-> "new"]
    /\ id = [p \in Process |-> 0]
    /\ cs = [p \in Process |-> Zero]
    /\ age = [p \in Producer |-> -1]
    /\ status = FALSE /\ buf = NoTime /\ sum = Zero
    /\ killed = 0

Goto(p, from, to) == pc[p] = from /\ pc' = [pc EXCEPT ![p] = to]

Start(p) ==
    /\ Goto(p, "new", "dec")
    /\ id' = [id EXCEPT ![p] = semid]
    /\ UNCHANGED <<semVars, cs, age, shm, killed>>

(* Mutant: no semop, as in EX03-09.                                        *)
DecMissing(p) ==
    /\ Goto(p, "dec", IF p \in Producer THEN "time" ELSE "check")
    /\ UNCHANGED <<semVars, id, cs, age, shm, killed>>

Dec(p) ==
    /\ Goto(p, "dec", IF p \in Producer THEN "time" ELSE "check")
    /\ SemDec(id[p], p)
    /\ UNCHANGED <<id, cs, age, shm, killed>>

(* The variables of a process go with it.                                  *)
Forget(p) ==
    /\ id' = [id EXCEPT ![p] = 0]
    /\ cs' = [cs EXCEPT ![p] = Zero]
    /\ age' = [q \in Producer |-> IF q = p THEN -1 ELSE age[q]]

(* Mutant: semop +1 before the process leaves, on top of SEM_UNDO.         *)
LeaveTwice(p, from, to) ==
    /\ Goto(p, from, to)
    /\ semval' = semval + 1 + semadj[p]
    /\ semadj' = [semadj EXCEPT ![p] = 0]
    /\ Forget(p)
    /\ UNCHANGED <<semid, setvals>>

(* break, shmdt, return: the kernel undoes the semop -1.                   *)
Leave(p, from, to) == Goto(p, from, to) /\ SemExit(p) /\ Forget(p)

(* semop -1 fails: exit.                                                   *)
DecFails(p) ==
    /\ SemRemoved(id[p])
    /\ Leave(p, "dec", "off")
    /\ UNCHANGED <<shm, killed>>

(* The result of semop +1 is not looked at; cs is set to 0 before it is    *)
(* used again.                                                             *)
Inc(p) ==
    /\ Goto(p, "inc", "dec")
    /\ IF SemRemoved(id[p]) THEN UNCHANGED semVars ELSE SemInc(id[p], p)
    /\ cs' = [cs EXCEPT ![p] = Zero]
    /\ UNCHANGED <<id, age, shm, killed>>
-----------------------------------------------------------------------------
(* shmput *)

(* Mutant: on time-out the record is left as it is.                        *)
TimeoutSilent(p) ==
    /\ age[p] = Expired
    /\ Goto(p, "time", "leave")
    /\ UNCHANGED <<semVars, id, cs, age, shm, killed>>

Timeout(p) ==
    /\ age[p] = Expired
    /\ Goto(p, "time", "leave")
    /\ status' = FALSE
    /\ UNCHANGED <<semVars, id, cs, age, buf, sum, killed>>

Proceed(p) ==
    /\ age[p] # Expired
    /\ Goto(p, "time", "buf")
    /\ age' = [age EXCEPT ![p] = IF @ = -1 THEN 0 ELSE @]
    /\ UNCHANGED <<semVars, id, cs, shm, killed>>

PutBuf(p) ==
    /\ Goto(p, "buf", "status")
    /\ buf' \in Time
    /\ UNCHANGED <<semVars, id, cs, age, status, sum, killed>>

PutStatus(p) ==
    /\ Goto(p, "status", "sum")
    /\ status' = TRUE
    /\ UNCHANGED <<semVars, id, cs, age, buf, sum, killed>>

PutSum(p) ==
    /\ Goto(p, "sum", "cs")
    /\ cs' = [cs EXCEPT ![p] = Sum(status, buf)]
    /\ UNCHANGED <<semVars, id, age, shm, killed>>

(* Mutant: the checksum is written in the first round only.                *)
PutChecksumStale(p) ==
    /\ Goto(p, "cs", "inc")
    /\ sum' = IF sum = Zero THEN cs[p] ELSE sum
    /\ UNCHANGED <<semVars, id, cs, age, status, buf, killed>>

PutChecksum(p) ==
    /\ Goto(p, "cs", "inc")
    /\ sum' = cs[p]
    /\ UNCHANGED <<semVars, id, cs, age, status, buf, killed>>

LeaveExpired(p) == Leave(p, "leave", "off") /\ UNCHANGED <<shm, killed>>

(* Mutant: the age of a producer that has timed out is still counted.      *)
TickOn ==
    /\ \E p \in Producer : age[p] \in 0..Expired
    /\ age' = [p \in Producer |-> IF age[p] \in 0..Expired THEN age[p] + 1 ELSE age[p]]
    /\ UNCHANGED <<semVars, pc, id, cs, shm, killed>>

(* A second passes.                                                        *)
Tick ==
    /\ \E p \in Producer : age[p] \in 0..TIMEOUT
    /\ age' = [p \in Producer |-> IF age[p] \in 0..TIMEOUT THEN age[p] + 1 ELSE age[p]]
    /\ UNCHANGED <<semVars, pc, id, cs, shm, killed>>
-----------------------------------------------------------------------------
(* shmget *)

LeaveInvalid(c) ==
    /\ ~status
    /\ Leave(c, "check", "off")
    /\ UNCHANGED <<shm, killed>>

GetValid(c) ==
    /\ status
    /\ Goto(c, "check", "add")
    /\ UNCHANGED <<semVars, id, cs, age, shm, killed>>

GetSum(c) ==
    /\ Goto(c, "add", "compare")
    /\ cs' = [cs EXCEPT ![c] = Sum(status, buf)]
    /\ UNCHANGED <<semVars, id, age, shm, killed>>

LeaveChecksum(c) ==
    /\ sum # cs[c]
    /\ Leave(c, "compare", "invalid_checksum")
    /\ UNCHANGED <<shm, killed>>

(* The record is printed from the segment, read once more, in the step     *)
(* that ends with the semop +1.                                            *)
GetSame(c) ==
    /\ sum = cs[c]
    /\ Goto(c, "compare", "print")
    /\ UNCHANGED <<semVars, id, cs, age, shm, killed>>

GetPrint(c) ==
    /\ Goto(c, "print", "inc")
    /\ UNCHANGED <<semVars, id, cs, age, shm, killed>>
-----------------------------------------------------------------------------
Kill(p) ==
    /\ killed < MaxKill
    /\ pc[p] \in Live
    /\ killed' = killed + 1
    /\ Leave(p, pc[p], "off")
    /\ UNCHANGED shm

Setval == SemSetval /\ UNCHANGED <<local, shm, killed>>
Rmid == SemRmid /\ UNCHANGED <<local, shm, killed>>

Common(p) == Dec(p) \/ DecFails(p) \/ Inc(p)
Put(p) ==
    \/ Timeout(p) \/ Proceed(p) \/ PutBuf(p) \/ PutStatus(p) \/ PutSum(p)
    \/ PutChecksum(p) \/ LeaveExpired(p)
Get(c) ==
    \/ LeaveInvalid(c) \/ GetValid(c) \/ GetSum(c) \/ LeaveChecksum(c)
    \/ GetSame(c) \/ GetPrint(c)

Next ==
    \/ \E p \in Process : Start(p) \/ Common(p) \/ Kill(p)
    \/ \E p \in Producer : Put(p)
    \/ \E c \in Consumer : Get(c)
    \/ Tick \/ Setval \/ Rmid

Spec == Init /\ [][Next]_vars

(* Every process is scheduled, time passes, and the kernel wakes those who *)
(* wait for the semaphore in their order.                                  *)
Fairness ==
    /\ \A p \in Process : WF_vars(Common(p)) /\ SF_vars(Dec(p))
    /\ \A p \in Producer : WF_vars(Put(p))
    /\ \A c \in Consumer : WF_vars(Get(c))
    /\ WF_vars(Tick)

FairSpec == Spec /\ Fairness
-----------------------------------------------------------------------------
(* Types of the segment and of the processes.                              *)
TypeOK ==
    /\ semval \in Nat /\ semadj \in [Process -> Int]
    /\ semid \in 0..MaxSemRmid /\ setvals \in 0..MaxSetval
    /\ pc \in [Process -> Live \cup {"new", "off", "invalid_checksum"}]
    /\ id \in [Process -> 0..MaxSemRmid]
    /\ age \in [Producer -> -1..Expired]
    /\ status \in BOOLEAN /\ buf \in Time \cup {NoTime}
    /\ killed \in 0..MaxKill

Section == {p \in Process : pc[p] \in InSection}

(* The loops are left between the two semops (shmput.c:73-76, shmget.c:    *)
(* 56-66), and still one unit is in the semaphore or in one process.       *)
UnitConserved == OperatorOnce => semval + Cardinality(Section) = setvals

(* What shmget prints (shmget.c:68) is a record whose checksum is right at *)
(* the moment it is printed, not only when it was compared.                *)
PrintedWhole ==
    OperatorOnce =>
        \A c \in Consumer : pc[c] = "print" => status /\ sum = Sum(status, buf)

(* The checksum of shmget.c:63 can only fail after a process was killed:   *)
(* no order of producers and consumers shows one a half-written record.    *)
ChecksumFailsOnlyAfterKill ==
    OperatorOnce /\ killed = 0 => \A c \in Consumer : pc[c] # "invalid_checksum"

(* A kill or the removal of the semaphore ended the last producer while    *)
(* the record was valid, and no other one has come since.                  *)
Orphaned ==
    /\ killed > 0 \/ semid > 0
    /\ status /\ \A p \in Producer : pc[p] \notin Live

(* When the producers have run out of time, or were killed, the consumers  *)
(* end too (shmput.c:74, shmget.c:56-66), unless the record stays valid    *)
(* for ever (Orphaned) or the operator did not open the semaphore.  One    *)
(* that still runs after a later producer has come is to end after that.   *)
ConsumersEnd ==
    \A c \in Consumer :
        pc[c] \in Live ~> pc[c] \notin Live \/ Orphaned \/ setvals = 0
=============================================================================
