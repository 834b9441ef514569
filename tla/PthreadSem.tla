----------------------------- MODULE PthreadSem -----------------------------
(***************************************************************************)
(* EX04-05: two threads count a shared g_count up to max under g_mutex,    *)
(* with a sleep between its load and its store.  The second waits on g_sem *)
(* until the first has counted to Signal.                                  *)
(***************************************************************************)
EXTENDS Integers

CONSTANTS
    max,            \* the 20000 of main
    Signal          \* the 100 at which thread 1 posts g_sem

ASSUME PthreadSemAssumption ==
    /\ max \in Nat /\ Signal \in Nat \ {0}
    /\ Signal <= max

Thread == {1, 2}
Free == 0           \* g_mutex is not held

VARIABLES
    g_count, g_mutex, g_sem,
    pc, temp, count,    \* per thread
    created, joined, exit   \* main

globals == <<g_count, g_mutex, g_sem>>
main == <<created, joined, exit>>
vars == <<globals, pc, temp, count, main>>

Running == exit = "no"

Init ==
    /\ g_count = 0 /\ g_mutex = Free /\ g_sem = 0
    /\ pc = [t \in Thread |-> "none"]
    /\ temp = [t \in Thread |-> 0]      \* dead before its first load
    /\ count = [t \in Thread |-> 0]
    /\ created = 0 /\ joined = 0 /\ exit = "no"

Goto(t, from, to) ==
    /\ Running
    /\ pc[t] = from
    /\ pc' = [pc EXCEPT ![t] = to]

(* Mutant: does not wait for g_sem.                                        *)
SemWaitNot ==
    /\ Goto(2, "wait", "lock")
    /\ UNCHANGED <<globals, temp, count, main>>

SemWait ==
    /\ Goto(2, "wait", "lock")
    /\ g_sem > 0
    /\ g_sem' = g_sem - 1
    /\ UNCHANGED <<g_count, g_mutex, temp, count, main>>

(* Mutant: without the mutex, as in EX04-02.                               *)
LockUnguarded(t) ==
    /\ Goto(t, "lock", "load")
    /\ UNCHANGED <<globals, temp, count, main>>

Lock(t) ==
    /\ Goto(t, "lock", "load")
    /\ g_mutex = Free
    /\ g_mutex' = t
    /\ UNCHANGED <<g_count, g_sem, temp, count, main>>

(* Mutant: pthread_exit without the unlock.                                *)
FinishHolding(t) ==
    /\ Goto(t, "load", "done")
    /\ g_count = max
    /\ UNCHANGED <<globals, temp, count, main>>

(* g_count == max: unlock and pthread_exit.                                *)
Finish(t) ==
    /\ Goto(t, "load", "done")
    /\ g_count = max
    /\ g_mutex' = Free
    /\ UNCHANGED <<g_count, g_sem, temp, count, main>>

Load(t) ==
    /\ Goto(t, "load", "store")
    /\ g_count # max
    /\ temp' = [temp EXCEPT ![t] = g_count]
    /\ UNCHANGED <<globals, count, main>>

(* Mutant: posts at every count from Signal on.                            *)
PostsFrom(t) == t = 1 /\ temp[t] + 1 >= Signal

(* Thread 1 posts when the g_count it has just stored is Signal.           *)
Posts(t) == t = 1 /\ temp[t] + 1 = Signal

Store(t) ==
    /\ Goto(t, "store", "unlock")
    /\ g_count' = temp[t] + 1
    /\ temp' = [temp EXCEPT ![t] = @ + 1]
    /\ count' = [count EXCEPT ![t] = @ + 1]
    /\ g_sem' = IF Posts(t) THEN g_sem + 1 ELSE g_sem
    /\ UNCHANGED <<g_mutex, main>>

Unlock(t) ==
    /\ Goto(t, "unlock", "lock")
    /\ g_mutex' = Free
    /\ UNCHANGED <<g_count, g_sem, temp, count, main>>
-----------------------------------------------------------------------------
(* main.  pthread_create and pthread_join of thread 1 come first. *)

Create ==
    /\ Running /\ created < 2
    /\ created' = created + 1
    /\ pc' = [pc EXCEPT ![created + 1] = IF created + 1 = 1 THEN "lock" ELSE "wait"]
    /\ UNCHANGED <<globals, temp, count, joined, exit>>

CreateFails ==
    /\ Running /\ created < 2
    /\ exit' = "failure"
    /\ UNCHANGED <<globals, pc, temp, count, created, joined>>

Join ==
    /\ Running /\ created = 2 /\ joined < 2
    /\ pc[joined + 1] = "done"
    /\ joined' = joined + 1
    /\ UNCHANGED <<globals, pc, temp, count, created, exit>>

Return ==
    /\ Running /\ joined = 2
    /\ exit' = "success"
    /\ UNCHANGED <<globals, pc, temp, count, created, joined>>
-----------------------------------------------------------------------------
ThreadStep(t) == Finish(t) \/ Load(t) \/ Store(t) \/ Unlock(t)
MainStep == Create \/ Join \/ Return

Next ==
    \/ \E t \in Thread : Lock(t) \/ ThreadStep(t)
    \/ SemWait
    \/ MainStep
    \/ CreateFails

Spec == Init /\ [][Next]_vars

(* Threads are scheduled.  Nothing more is needed of the mutex: a thread   *)
(* that never gets it leaves the other one to finish and to release it.    *)
Fairness ==
    /\ \A t \in Thread : WF_vars(Lock(t)) /\ WF_vars(ThreadStep(t))
    /\ WF_vars(SemWait)
    /\ WF_vars(MainStep)

FairSpec == Spec /\ Fairness
-----------------------------------------------------------------------------
(* Types; the binary use of g_sem and the bound of g_count are part of it. *)
TypeOK ==
    /\ g_count \in 0..max
    /\ g_mutex \in Thread \cup {Free}
    /\ g_sem \in {0, 1}
    /\ pc \in [Thread -> {"none", "wait", "lock", "load", "store", "unlock", "done"}]
    /\ temp \in [Thread -> 0..max]
    /\ count \in [Thread -> 0..max]
    /\ created \in 0..2 /\ joined \in 0..2
    /\ exit \in {"no", "success", "failure"}

(* No increment is lost although the thread sleeps between the load and    *)
(* the store (pthread_sem.c:28-31, 54-57): what the two threads report add *)
(* up to g_count at every moment, and to max when main returns.            *)
CountsAddUp ==
    /\ count[1] + count[2] = g_count
    /\ exit = "success" => g_count = max

(* Thread 2 counts nothing before thread 1 has counted Signal alone, which *)
(* is why thread 1 is sure to see the value at which it posts              *)
(* (pthread_sem.c:32-34, 47).                                              *)
SecondWaits ==
    count[2] > 0 \/ pc[2] \notin {"none", "wait"} => count[1] >= Signal

(* main returns: the post is never missed and the threads never wait for   *)
(* each other (pthread_sem.c:110-119).                                     *)
Terminates == <>(exit # "no")
=============================================================================
