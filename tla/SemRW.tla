------------------------------- MODULE SemRW --------------------------------
(***************************************************************************)
(* EX03-08: processes running rw write a letter to one file, sleep, read   *)
(* it back and compare, LOOP_COUNT times, each time between a semop -1 and *)
(* a semop +1.  A process may be killed, or leave because a file operation *)
(* failed, while it is between the two.  A failed open is not noticed: the *)
(* code tests the result of the call before, and goes on with fd -1.       *)
(***************************************************************************)
EXTENDS SysVSem, FiniteSets

CONSTANTS
    LOOP_COUNT,
    MaxKill       \* bound: processes that end inside the section

ASSUME RWAssumption ==
    LOOP_COUNT \in Nat \ {0} /\ MaxKill \in Nat /\ IsFiniteSet(Process)

VARIABLES
    pc,           \* per process
    id,           \* per process: id_sem
    c1,           \* per process: the letter, counted from 0 for 'A'
    file,         \* the letter in the file, -1 before the first write
    ended         \* processes killed or failed so far

rwVars == <<pc, id, c1, file, ended>>
vars == <<semVars, rwVars>>

InSection == {"write", "read", "badfd", "inc"}
Live == InSection \cup {"dec", "return"}

Init ==
    /\ SemInit
    /\ pc = [p \in Process |-> "off"]
    /\ id = [p \in Process |-> 0]
    /\ c1 = [p \in Process |-> 0]
    /\ file = -1
    /\ ended = 0

Start(p) ==
    /\ pc[p] \notin Live
    /\ pc' = [pc EXCEPT ![p] = "dec"]
    /\ id' = [id EXCEPT ![p] = semid]
    /\ c1' = [c1 EXCEPT ![p] = 0]
    /\ UNCHANGED <<semVars, file, ended>>

(* Mutant: IPC_NOWAIT, and the error is not looked at.                     *)
DecNoWait(p) ==
    /\ pc[p] = "dec"
    /\ SemDec(id[p], p) \/ (id[p] = semid /\ semval = 0 /\ UNCHANGED semVars)
    /\ pc' = [pc EXCEPT ![p] = "write"]
    /\ UNCHANGED <<id, c1, file, ended>>

Dec(p) ==
    /\ pc[p] = "dec"
    /\ SemDec(id[p], p)
    /\ pc' = [pc EXCEPT ![p] = "write"]
    /\ UNCHANGED <<id, c1, file, ended>>

(* Either open; the tests of lines 51 and 69 never see the result.         *)
OpenFails(p) ==
    /\ pc[p] \in {"write", "read"}
    /\ pc' = [pc EXCEPT ![p] = "badfd"]
    /\ UNCHANGED <<semVars, id, c1, file, ended>>

(* open, write and close: c1 is the only byte of the file.                 *)
Write(p) ==
    /\ pc[p] = "write"
    /\ file' = c1[p]
    /\ pc' = [pc EXCEPT ![p] = "read"]
    /\ UNCHANGED <<semVars, id, c1, ended>>

(* Mutant: without SEM_UNDO.                                               *)
LeaveNoUndo(p, how) ==
    /\ semadj' = [semadj EXCEPT ![p] = 0]
    /\ UNCHANGED <<semval, semid, setvals>>
    /\ pc' = [pc EXCEPT ![p] = how]
    /\ id' = [id EXCEPT ![p] = 0]
    /\ c1' = [c1 EXCEPT ![p] = 0]
    /\ UNCHANGED file

(* The process is gone; how says what it reported.                         *)
Leave(p, how) ==
    /\ SemExit(p)
    /\ pc' = [pc EXCEPT ![p] = how]
    /\ id' = [id EXCEPT ![p] = 0]
    /\ c1' = [c1 EXCEPT ![p] = 0]
    /\ UNCHANGED file

(* write or read with fd -1 fails.                                         *)
BadFile(p) ==
    /\ pc[p] = "badfd"
    /\ Leave(p, "off")
    /\ UNCHANGED ended

(* open, read, close and the comparison: "not_same" ends the process.      *)
ReadSame(p) ==
    /\ pc[p] = "read"
    /\ file = c1[p]
    /\ pc' = [pc EXCEPT ![p] = "inc"]
    /\ UNCHANGED <<semVars, id, c1, file, ended>>

ReadNotSame(p) ==
    /\ pc[p] = "read"
    /\ file # c1[p]
    /\ Leave(p, "not_same")
    /\ UNCHANGED ended

(* Mutant: one round too many.                                             *)
IncOneMore(p) ==
    /\ pc[p] = "inc"
    /\ SemInc(id[p], p)
    /\ c1' = [c1 EXCEPT ![p] = @ + 1]
    /\ pc' = [pc EXCEPT ![p] = IF c1[p] < LOOP_COUNT THEN "dec" ELSE "return"]
    /\ UNCHANGED <<id, file, ended>>

(* semop +1, then c1++ and the next round or the return from main.         *)
Inc(p) ==
    /\ pc[p] = "inc"
    /\ SemInc(id[p], p)
    /\ c1' = [c1 EXCEPT ![p] = @ + 1]
    /\ pc' = [pc EXCEPT ![p] = IF c1[p] + 1 < LOOP_COUNT THEN "dec" ELSE "return"]
    /\ UNCHANGED <<id, file, ended>>

Return(p) ==
    /\ pc[p] = "return"
    /\ Leave(p, "off")
    /\ UNCHANGED ended

(* semop returns -1.                                                       *)
Error(p) ==
    /\ pc[p] \in {"dec", "inc"}
    /\ SemRemoved(id[p])
    /\ Leave(p, "off")
    /\ UNCHANGED ended

(* Killed anywhere, or write, read or close failed in the section.         *)
Die(p) ==
    /\ ended < MaxKill
    /\ pc[p] \in Live
    /\ ended' = ended + 1
    /\ Leave(p, "off")

Setval == SemSetval /\ UNCHANGED rwVars
Rmid == SemRmid /\ UNCHANGED rwVars

Step(p) ==
    \/ Dec(p) \/ Write(p) \/ BadFile(p) \/ ReadSame(p) \/ ReadNotSame(p)
    \/ Inc(p) \/ Return(p) \/ Error(p)

Next ==
    \/ \E p \in Process : Start(p) \/ Step(p) \/ OpenFails(p) \/ Die(p)
    \/ Setval \/ Rmid

Spec == Init /\ [][Next]_vars

(* The kernel wakes those who wait for the semaphore in their order.       *)
Fairness == \A p \in Process : WF_vars(Step(p)) /\ SF_vars(Dec(p))

FairSpec == Spec /\ Fairness
-----------------------------------------------------------------------------
(* Types of the semaphore, the processes and the file.                     *)
TypeOK ==
    /\ semval \in Nat /\ semadj \in [Process -> Int]
    /\ semid \in 0..MaxSemRmid /\ setvals \in 0..MaxSetval
    /\ pc \in [Process -> Live \cup {"off", "not_same"}]
    /\ id \in [Process -> 0..MaxSemRmid]
    /\ c1 \in [Process -> 0..LOOP_COUNT]
    /\ file \in -1..(LOOP_COUNT - 1)
    /\ ended \in 0..MaxKill

Section == {p \in Process : pc[p] \in InSection}

Inside == {p \in Section : id[p] = semid}

(* Unless the operator opens the semaphore again or removes it, its value  *)
(* and the processes in the section add up to the one unit SETVAL put in:  *)
(* no return, error path or kill between the two semops (rw.c:44-93) loses *)
(* the unit or makes a second one.  When the operator does, also while a   *)
(* process is in the section, each SETVAL (semctl.c:35) lets in one more   *)
(* at the most, whatever the exits give back to, or take from, the value.  *)
UnitConserved ==
    /\ OperatorOnce => semval + Cardinality(Section) = setvals
    /\ semval + Cardinality(Inside) <= setvals

(* ... so nobody ever reads back another letter than it wrote (rw.c:84).   *)
NeverNotSame ==
    OperatorOnce => \A p \in Process : pc[p] # "not_same"

(* A process that runs gets through all its rounds or ends with an error,  *)
(* whatever happens to the others: it hangs only on a semaphore that       *)
(* nobody opened (rw.c:44, semctl.c:32-41).                                *)
Finishes ==
    \A p \in Process : pc[p] \in Live ~> pc[p] \notin Live \/ setvals = 0
=============================================================================
