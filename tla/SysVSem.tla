------------------------------ MODULE SysVSem -------------------------------
(***************************************************************************)
(* The System V semaphore of EX03-08 and EX03-10, kept by the kernel.      *)
(* Every semop of the programs has SEM_UNDO: semadj remembers what the     *)
(* kernel must give back when the process ends, however it ends.  semget   *)
(* creates the semaphore with value 0; the operator opens it with          *)
(* semctl SETVAL, which also forgets every semadj, and removes it with     *)
(* IPC_RMID, after which the key names a new semaphore.                    *)
(***************************************************************************)
EXTENDS Integers

CONSTANTS
    Process,      \* processes that use the semaphore
    MaxSetval,    \* bound: SETVALs of the operator per semaphore
    MaxSemRmid    \* bound: removals by the operator

ASSUME SemAssumption == MaxSetval \in Nat /\ MaxSemRmid \in Nat

VARIABLES
    semval,
    semadj,       \* per process
    semid,        \* the identifier semget returns now
    setvals       \* SETVALs of the current semaphore

semVars == <<semval, semadj, semid, setvals>>

SemInit ==
    /\ semval = 0 /\ semid = 0 /\ setvals = 0
    /\ semadj = [p \in Process |-> 0]

(* semop {0, -1, SEM_UNDO}: enabled when it does not block.                *)
SemDec(id, p) ==
    /\ id = semid /\ semval > 0
    /\ semval' = semval - 1
    /\ semadj' = [semadj EXCEPT ![p] = @ + 1]
    /\ UNCHANGED <<semid, setvals>>

(* semop {0, 1, SEM_UNDO}.                                                 *)
SemInc(id, p) ==
    /\ id = semid
    /\ semval' = semval + 1
    /\ semadj' = [semadj EXCEPT ![p] = @ - 1]
    /\ UNCHANGED <<semid, setvals>>

(* semop fails with EINVAL or EIDRM.                                       *)
SemRemoved(id) == id # semid

(* The process ends and the kernel undoes its operations.                  *)
SemExit(p) ==
    /\ semval' = IF semval + semadj[p] >= 0 THEN semval + semadj[p] ELSE 0
    /\ semadj' = [semadj EXCEPT ![p] = 0]
    /\ UNCHANGED <<semid, setvals>>

(* semctl.c SETVAL.                                                        *)
SemSetval ==
    /\ setvals < MaxSetval
    /\ setvals' = setvals + 1
    /\ semval' = 1
    /\ semadj' = [p \in Process |-> 0]
    /\ UNCHANGED semid

(* semctl.c IPC_RMID.                                                      *)
SemRmid ==
    /\ semid < MaxSemRmid
    /\ semid' = semid + 1
    /\ semval' = 0
    /\ setvals' = 0
    /\ semadj' = [p \in Process |-> 0]

(* The operator opened the semaphore at most once and never removed it.    *)
OperatorOnce == semid = 0 /\ setvals <= 1
=============================================================================
