---------------------------- MODULE BreadFactory ----------------------------
(***************************************************************************)
(* EX04-06: maker threads bake, a boxer thread packs ten loaves to a box.  *)
(* Both counters are written under bread_mutex and read once more, without *)
(* it, to decide whether to leave the loop.  main creates the threads in   *)
(* the order of thread_func and joins them in that order; if one cannot be *)
(* created it returns, which ends the process and every thread in it.      *)
(***************************************************************************)
EXTENDS Integers

CONSTANTS
    NumMakers,      \* makers; they are threads 1..NumMakers
    NUM_OF_BREAD,   \* the 100 of the code
    BoxSize,        \* the 10 loaves of a box
    NUM_OF_BOX      \* the 10 boxes after which the boxer leaves

ASSUME BreadAssumption ==
    /\ NumMakers \in Nat \ {0}
    /\ NUM_OF_BREAD \in Nat \ {0}
    /\ BoxSize \in Nat \ {0}
    /\ NUM_OF_BOX \in Nat
    /\ NUM_OF_BREAD = BoxSize * NUM_OF_BOX

Boxer == NumMakers + 1
NUM_OF_THREAD == NumMakers + 1
Maker == 1..NumMakers
Thread == 1..NUM_OF_THREAD
Free == 0           \* bread_mutex is not held

VARIABLES
    bread_count, box_count,
    bread_mutex,    \* the thread that holds it, or Free
    pc,             \* per thread: where it is
    reg,            \* per thread: the counter, loaded to be incremented
    created,        \* threads main has created
    joined,         \* threads main has joined
    exit            \* how main returned

vars == <<bread_count, box_count, bread_mutex, pc, reg, created, joined, exit>>
counters == <<bread_count, box_count>>
main == <<created, joined, exit>>

Running == exit = "no"

Init ==
    /\ bread_count = 0 /\ box_count = 0
    /\ bread_mutex = Free
    /\ pc = [t \in Thread |-> "none"]
    /\ reg = [t \in Thread |-> 0]
    /\ created = 0 /\ joined = 0 /\ exit = "no"

Goto(t, from, to) ==
    /\ Running
    /\ pc[t] = from
    /\ pc' = [pc EXCEPT ![t] = to]

(* Mutant: no mutex.                                                       *)
LockUnguarded(t) ==
    /\ Goto(t, "lock", "test")
    /\ bread_mutex' = t
    /\ UNCHANGED <<counters, reg, main>>

Lock(t) ==
    /\ Goto(t, "lock", "test")
    /\ bread_mutex = Free
    /\ bread_mutex' = t
    /\ UNCHANGED <<counters, reg, main>>

Unlock(t) ==
    /\ Goto(t, "unlock", "check")
    /\ bread_mutex' = Free
    /\ UNCHANGED <<counters, reg, main>>
-----------------------------------------------------------------------------
(* thread_maker.  bread_count++ is a load and a store. *)

(* Mutant: one loaf too many.                                              *)
BakingInclusive == bread_count <= NUM_OF_BREAD

Baking == bread_count < NUM_OF_BREAD

(* Mutant: leaves for the check without the unlock when there is no work.  *)
MakerTestKeepsLock(m) ==
    /\ Goto(m, "test", IF Baking THEN "store" ELSE "check")
    /\ reg' = [reg EXCEPT ![m] = IF Baking THEN bread_count ELSE @]
    /\ UNCHANGED <<counters, bread_mutex, main>>

MakerTest(m) ==
    /\ Goto(m, "test", IF Baking THEN "store" ELSE "unlock")
    /\ reg' = [reg EXCEPT ![m] = IF Baking THEN bread_count ELSE @]
    /\ UNCHANGED <<counters, bread_mutex, main>>

MakerStore(m) ==
    /\ Goto(m, "store", "unlock")
    /\ bread_count' = reg[m] + 1
    /\ UNCHANGED <<box_count, bread_mutex, reg, main>>

(* Mutant: off by one.                                                     *)
MakerCheckEarly(m) ==
    /\ Goto(m, "check", IF bread_count >= NUM_OF_BREAD - 1 THEN "done" ELSE "lock")
    /\ UNCHANGED <<counters, bread_mutex, reg, main>>

(* The read after the unlock (line 38): it races with the store of another *)
(* maker, and an aligned int gives the value before or after that store.   *)
MakerCheck(m) ==
    /\ Goto(m, "check", IF bread_count >= NUM_OF_BREAD THEN "done" ELSE "lock")
    /\ UNCHANGED <<counters, bread_mutex, reg, main>>
-----------------------------------------------------------------------------
(* thread_boxer. *)

BoxReady == bread_count - box_count * BoxSize >= BoxSize

BoxerTest ==
    /\ Goto(Boxer, "test", IF BoxReady THEN "store" ELSE "unlock")
    /\ reg' = [reg EXCEPT ![Boxer] = IF BoxReady THEN box_count ELSE @]
    /\ UNCHANGED <<counters, bread_mutex, main>>

BoxerStore ==
    /\ Goto(Boxer, "store", "unlock")
    /\ box_count' = reg[Boxer] + 1
    /\ UNCHANGED <<bread_count, bread_mutex, reg, main>>

BoxerCheck ==
    /\ Goto(Boxer, "check", IF box_count = NUM_OF_BOX THEN "done" ELSE "lock")
    /\ UNCHANGED <<counters, bread_mutex, reg, main>>
-----------------------------------------------------------------------------
(* main. *)

(* Mutant: i <= NUM_OF_THREAD.                                             *)
CreateOneMore ==
    /\ Running /\ created <= NUM_OF_THREAD
    /\ created' = created + 1
    /\ pc' = [pc EXCEPT ![created + 1] = "lock"]
    /\ UNCHANGED <<counters, bread_mutex, reg, joined, exit>>

Create ==
    /\ Running /\ created < NUM_OF_THREAD
    /\ created' = created + 1
    /\ pc' = [pc EXCEPT ![created + 1] = "lock"]
    /\ UNCHANGED <<counters, bread_mutex, reg, joined, exit>>

CreateFails ==
    /\ Running /\ created < NUM_OF_THREAD
    /\ exit' = "failure"
    /\ UNCHANGED <<counters, bread_mutex, pc, reg, created, joined>>

Join ==
    /\ Running /\ created = NUM_OF_THREAD /\ joined < NUM_OF_THREAD
    /\ pc[joined + 1] = "done"
    /\ joined' = joined + 1
    /\ UNCHANGED <<counters, bread_mutex, pc, reg, created, exit>>

JoinFails ==
    /\ Running /\ created = NUM_OF_THREAD /\ joined < NUM_OF_THREAD
    /\ exit' = "failure"
    /\ UNCHANGED <<counters, bread_mutex, pc, reg, created, joined>>

Return ==
    /\ Running /\ joined = NUM_OF_THREAD
    /\ exit' = "success"
    /\ UNCHANGED <<counters, bread_mutex, pc, reg, created, joined>>
-----------------------------------------------------------------------------
MakerStep(m) == MakerTest(m) \/ MakerStore(m) \/ MakerCheck(m)
BoxerStep == BoxerTest \/ BoxerStore \/ BoxerCheck
MainStep == Create \/ Join \/ Return

Next ==
    \/ \E t \in Thread : Lock(t) \/ Unlock(t)
    \/ \E m \in Maker : MakerStep(m)
    \/ BoxerStep
    \/ MainStep
    \/ CreateFails \/ JoinFails

Spec == Init /\ [][Next]_vars

(* Threads are scheduled.  A default mutex promises no order: one that asks *)
(* for it may lose it to others again and again.                           *)
Fairness ==
    /\ \A t \in Thread : WF_vars(Lock(t)) /\ WF_vars(Unlock(t))
    /\ \A m \in Maker : WF_vars(MakerStep(m))
    /\ WF_vars(BoxerStep)
    /\ WF_vars(MainStep)

FairSpec == Spec /\ Fairness
-----------------------------------------------------------------------------
(* Types of the counters, the mutex and the threads.                       *)
TypeOK ==
    /\ bread_count \in Nat /\ box_count \in Nat
    /\ bread_mutex \in Thread \cup {Free}
    /\ pc \in [Thread -> {"none", "lock", "test", "store", "unlock", "check", "done"}]
    /\ reg \in [Thread -> Nat]
    /\ created \in 0..NUM_OF_THREAD
    /\ joined \in 0..NUM_OF_THREAD
    /\ exit \in {"no", "success", "failure"}

(* No more bread than ordered and no box without its loaves, although the  *)
(* counter is tested and incremented in separate steps and the boxer       *)
(* leaves only when box_count EQUALS the number of boxes (lines 30-39,     *)
(* 51-59): it can never step over it.                                      *)
StockOK ==
    /\ bread_count <= NUM_OF_BREAD
    /\ box_count * BoxSize <= bread_count
    /\ box_count <= NUM_OF_BOX

(* A thread leaves its loop on a read it makes without the mutex (lines    *)
(* 38, 58): whoever left had good reason, so main returns with success     *)
(* only when everything is baked and packed.                               *)
NobodyLeavesEarly ==
    /\ \A m \in Maker : pc[m] = "done" => bread_count = NUM_OF_BREAD
    /\ pc[Boxer] = "done" => box_count = NUM_OF_BOX
    /\ exit = "success" => bread_count = NUM_OF_BREAD /\ box_count = NUM_OF_BOX

(* The boxer has the mutex and nothing to do, and all makers wait for it.  *)
Starving ==
    /\ bread_mutex = Boxer /\ pc[Boxer] = "test" /\ ~BoxReady
    /\ \A m \in Maker : pc[m] = "lock"

(* main returns, unless the boxer, whose loop neither sleeps nor waits     *)
(* (lines 50-60), takes the mutex for ever before all the makers.  Nothing *)
(* else keeps the process from its end: no maker waits for another one, no *)
(* thread for loaves that will not come.                                   *)
EndsUnlessStarved == <>(exit # "no") \/ []<>Starving

(* Every step of the threads is a loaf, a box or nothing visible: no       *)
(* increment is lost and none is made on a stale test.                     *)
Abstract == INSTANCE Factory
ImplementsFactory == Abstract!Spec
=============================================================================
