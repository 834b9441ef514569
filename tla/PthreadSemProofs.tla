-------------------------- MODULE PthreadSemProofs --------------------------
(***************************************************************************)
(* Safety of PthreadSem for every max and every Signal <= max.             *)
(***************************************************************************)
EXTENDS PthreadSem, TLAPS

(* Whoever is between lock and unlock holds the mutex, so at most one is.  *)
LockInv ==
    \A t \in Thread : pc[t] \in {"load", "store", "unlock"} <=> g_mutex = t

(* The value loaded is still the value of g_count when it is stored.       *)
LoadInv == \A t \in Thread : pc[t] = "store" => temp[t] = g_count /\ g_count < max

(* Thread 1 has no post to make twice, and thread 2 has none to wait for   *)
(* that thread 1 will not make: until thread 1 has stored Signal it counts *)
(* alone, and only one of the post and the second thread's start exists.   *)
PostInv ==
    /\ pc[1] # "wait"
    /\ pc[2] \in {"none", "wait"} => count[2] = 0
    /\ pc[2] \in {"none", "wait"} => g_sem = IF g_count < Signal THEN 0 ELSE 1
    /\ pc[2] \notin {"none", "wait"} => g_sem = 0 /\ count[1] >= Signal

(* main joins the threads in order, after they are done.                   *)
JoinInv ==
    /\ \A t \in Thread : t <= joined => pc[t] = "done"
    /\ exit = "success" => joined = 2
    /\ \A t \in Thread : created < t => pc[t] = "none"
    /\ \A t \in Thread : pc[t] = "done" => g_count = max

Sums == count[1] + count[2] = g_count

IInv == TypeOK /\ LockInv /\ LoadInv /\ PostInv /\ JoinInv /\ Sums

(* The initial states satisfy the inductive invariant.                     *)
LEMMA InitHolds == Init => IInv
  BY PthreadSemAssumption
  DEF Init, IInv, TypeOK, LockInv, LoadInv, PostInv, JoinInv, Sums, Thread, Free

(* Every step of the threads and of main preserves it.                     *)
LEMMA StepHolds == IInv /\ [Next]_vars => IInv'
  <1> USE DEF Thread, Free
  <1> SUFFICES ASSUME IInv, [Next]_vars PROVE IInv'
    OBVIOUS
  <1>1. ASSUME NEW t \in Thread, Lock(t) PROVE IInv'
    BY <1>1 DEF IInv, TypeOK, LockInv, LoadInv, PostInv, JoinInv, Sums, Lock, Goto, main, globals
  <1>2. ASSUME NEW t \in Thread, Finish(t) PROVE IInv'
    BY <1>2 DEF IInv, TypeOK, LockInv, LoadInv, PostInv, JoinInv, Sums, Finish, Goto, main, globals
  <1>3. ASSUME NEW t \in Thread, Load(t) PROVE IInv'
    BY <1>3, PthreadSemAssumption DEF IInv, TypeOK, LockInv, LoadInv, PostInv, JoinInv, Sums, Load, Goto, main, globals
  <1>4. ASSUME NEW t \in Thread, Store(t) PROVE IInv'
    <2>1. pc[t] = "store" /\ temp[t] = g_count /\ g_count < max /\ g_mutex = t
      BY <1>4 DEF IInv, TypeOK, LockInv, LoadInv, Store, Goto
    <2>2. TypeOK'
      BY <1>4, <2>1, PthreadSemAssumption
      DEF IInv, TypeOK, LockInv, LoadInv, PostInv, Sums, Store, Posts, Goto, main
    <2>3. LockInv' /\ LoadInv'
      BY <1>4, <2>1 DEF IInv, TypeOK, LockInv, LoadInv, Store, Goto, main
    <2>4. Sums'
      BY <1>4, <2>1 DEF IInv, TypeOK, Sums, Store, Goto
    <2>5. PostInv'
      BY <1>4, <2>1, PthreadSemAssumption
      DEF IInv, TypeOK, LockInv, PostInv, Sums, Store, Posts, Goto, main
    <2>6. JoinInv'
      BY <1>4, <2>1 DEF IInv, TypeOK, LockInv, JoinInv, Store, Goto, main
    <2> QED BY <2>2, <2>3, <2>4, <2>5, <2>6 DEF IInv
  <1>5. ASSUME NEW t \in Thread, Unlock(t) PROVE IInv'
    BY <1>5 DEF IInv, TypeOK, LockInv, LoadInv, PostInv, JoinInv, Sums, Unlock, Goto, main, globals
  <1>6. CASE SemWait
    BY <1>6, PthreadSemAssumption
    DEF IInv, TypeOK, LockInv, LoadInv, PostInv, JoinInv, Sums, SemWait, Goto, main, globals
  <1>7. CASE Create
    BY <1>7 DEF IInv, TypeOK, LockInv, LoadInv, PostInv, JoinInv, Sums, Create, Running, globals
  <1>8. CASE CreateFails
    BY <1>8 DEF IInv, TypeOK, LockInv, LoadInv, PostInv, JoinInv, Sums, CreateFails, Running, globals
  <1>9. CASE Join
    BY <1>9 DEF IInv, TypeOK, LockInv, LoadInv, PostInv, JoinInv, Sums, Join, Running, globals
  <1>10. CASE Return
    BY <1>10 DEF IInv, TypeOK, LockInv, LoadInv, PostInv, JoinInv, Sums, Return, Running, globals
  <1>11. CASE UNCHANGED vars
    BY <1>11 DEF IInv, TypeOK, LockInv, LoadInv, PostInv, JoinInv, Sums, vars, main, globals
  <1> QED
    BY <1>1, <1>2, <1>3, <1>4, <1>5, <1>6, <1>7, <1>8, <1>9, <1>10, <1>11
    DEF Next, ThreadStep, MainStep

(* The inductive invariant holds in every reachable state.                 *)
THEOREM InvariantHolds == Spec => []IInv
  BY InitHolds, StepHolds, PTL DEF Spec

(* The counters, the mutex and the semaphore keep their types: g_sem never *)
(* exceeds 1 and g_count never exceeds max.                                *)
THEOREM TypeCorrect == Spec => []TypeOK
  <1>1. IInv => TypeOK
    BY DEF IInv
  <1> QED BY <1>1, InvariantHolds, PTL

(* No increment of either thread is ever lost.                             *)
THEOREM NothingLost == Spec => []CountsAddUp
  <1>1. IInv => CountsAddUp
    BY DEF IInv, Sums, JoinInv, TypeOK, CountsAddUp, Thread
  <1> QED BY <1>1, InvariantHolds, PTL

(* Thread 2 starts only when thread 1 has counted to Signal alone.         *)
THEOREM SecondStartsLate == Spec => []SecondWaits
  <1>1. IInv => SecondWaits
    BY DEF IInv, PostInv, TypeOK, SecondWaits, Thread
  <1> QED BY <1>1, InvariantHolds, PTL
=============================================================================
