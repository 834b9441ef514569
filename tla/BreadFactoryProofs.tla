------------------------- MODULE BreadFactoryProofs -------------------------
(***************************************************************************)
(* Theorems about BreadFactory for every number of makers and every order. *)
(* The inductive invariant is IInv: whoever is between lock and unlock     *)
(* holds the mutex (LockInv), and a counter loaded to be incremented is    *)
(* still the counter, and still below its bound, when it is stored         *)
(* (LoadInv).                                                              *)
(***************************************************************************)
EXTENDS BreadFactory, TLAPS

Critical == {"test", "store", "unlock"}

LockInv == \A t \in Thread : pc[t] \in Critical => bread_mutex = t

LoadInv ==
    /\ \A m \in Maker : pc[m] = "store" => reg[m] = bread_count /\ bread_count < NUM_OF_BREAD
    /\ pc[Boxer] = "store" =>
          reg[Boxer] = box_count /\ bread_count - box_count * BoxSize >= BoxSize

(* main only joins threads that are done, and all of them before it returns. *)
JoinInv ==
    /\ \A t \in 1..joined : pc[t] = "done"
    /\ joined # 0 => created = NUM_OF_THREAD
    /\ exit = "success" => joined = NUM_OF_THREAD

IInv == TypeOK /\ LockInv /\ LoadInv /\ StockOK /\ JoinInv /\ NobodyLeavesEarly
-----------------------------------------------------------------------------
LEMMA Threads ==
    /\ Boxer \in Thread /\ Boxer \notin Maker /\ Maker \subseteq Thread
    /\ Thread \subseteq Nat /\ Free \notin Thread
    /\ NUM_OF_THREAD \in Nat /\ Thread = 1..NUM_OF_THREAD
    /\ \A t \in Thread : t \in Maker \/ t = Boxer
PROOF BY BreadAssumption DEF Boxer, Thread, Maker, NUM_OF_THREAD, Free

LEMMA TypeInit == Init => TypeOK
PROOF BY Threads DEF Init, TypeOK

LEMMA TypeStep == TypeOK /\ [Next]_vars => TypeOK'
PROOF
<1> SUFFICES ASSUME TypeOK, [Next]_vars PROVE TypeOK'
  OBVIOUS
<1> USE DEF Goto, counters, main
<1>1. ASSUME NEW t \in Thread, Lock(t) PROVE TypeOK'
  <2>1. bread_mutex' \in Thread \cup {Free}
    BY <1>1 DEF Lock
  <2>2. pc' \in [Thread -> {"none", "lock", "test", "store", "unlock", "check", "done"}]
    BY <1>1 DEF Lock, TypeOK
  <2>3. UNCHANGED <<counters, reg, main>>
    BY <1>1 DEF Lock
  <2> QED BY <2>1, <2>2, <2>3 DEF TypeOK
<1>2. ASSUME NEW t \in Thread, Unlock(t) PROVE TypeOK'
  <2>1. bread_mutex' \in Thread \cup {Free}
    BY <1>2 DEF Unlock
  <2>2. pc' \in [Thread -> {"none", "lock", "test", "store", "unlock", "check", "done"}]
    BY <1>2 DEF Unlock, TypeOK
  <2>3. UNCHANGED <<counters, reg, main>>
    BY <1>2 DEF Unlock
  <2> QED BY <2>1, <2>2, <2>3 DEF TypeOK
<1>3. ASSUME NEW m \in Maker, MakerStep(m) PROVE TypeOK'
  <2>0. m \in Thread
    BY Threads
  <2>1. CASE MakerTest(m)
    BY <2>0, <2>1 DEF MakerTest, TypeOK
  <2>2. CASE MakerStore(m)
    BY <2>0, <2>2 DEF MakerStore, TypeOK
  <2>3. CASE MakerCheck(m)
    BY <2>0, <2>3 DEF MakerCheck, TypeOK
  <2> QED BY <1>3, <2>1, <2>2, <2>3 DEF MakerStep
<1>4. CASE BoxerStep
  <2>0. Boxer \in Thread
    BY Threads
  <2>1. CASE BoxerTest
    BY <2>0, <2>1 DEF BoxerTest, TypeOK
  <2>2. CASE BoxerStore
    BY <2>0, <2>2 DEF BoxerStore, TypeOK
  <2>3. CASE BoxerCheck
    BY <2>0, <2>3 DEF BoxerCheck, TypeOK
  <2> QED BY <1>4, <2>1, <2>2, <2>3 DEF BoxerStep
<1>5. CASE Create
  <2>1. created + 1 \in Thread /\ created' \in 0..NUM_OF_THREAD
    BY <1>5, Threads DEF Create, TypeOK
  <2> QED BY <1>5, <2>1 DEF Create, TypeOK
<1>6. CASE CreateFails \/ JoinFails \/ Join \/ Return
  <2>1. CASE CreateFails \/ JoinFails
    BY <2>1 DEF CreateFails, JoinFails, TypeOK
  <2>2. CASE Join
    <3>1. joined' \in 0..NUM_OF_THREAD
      BY <2>2, Threads DEF Join, TypeOK
    <3> QED BY <2>2, <3>1 DEF Join, TypeOK
  <2>3. CASE Return
    BY <2>3 DEF Return, TypeOK
  <2> QED BY <1>6, <2>1, <2>2, <2>3
<1>7. CASE UNCHANGED vars
  BY <1>7 DEF vars, TypeOK
<1> QED BY <1>1, <1>2, <1>3, <1>4, <1>5, <1>6, <1>7 DEF Next, MainStep

(* The variables keep their types.                                         *)
THEOREM TypeCorrect == Spec => []TypeOK
PROOF BY TypeInit, TypeStep, PTL DEF Spec
-----------------------------------------------------------------------------
(* A box more is BoxSize loaves more, and boxes of bread within the order  *)
(* are within the order of boxes.                                          *)
LEMMA BoxArithmetic ==
    ASSUME NEW b \in Nat
    PROVE  /\ b * BoxSize \in Nat
           /\ (b + 1) * BoxSize = b * BoxSize + BoxSize
           /\ b * BoxSize <= NUM_OF_BREAD => b <= NUM_OF_BOX
           /\ b * BoxSize <= NUM_OF_BREAD - BoxSize => b < NUM_OF_BOX
PROOF BY BreadAssumption, SMTT(30)

LEMMA InvInit == Init => IInv
PROOF
<1> SUFFICES ASSUME Init PROVE IInv
  OBVIOUS
<1>1. box_count = 0 /\ bread_count = 0 /\ 0 * BoxSize = 0
  BY BreadAssumption DEF Init
<1>2. StockOK
  BY <1>1, BreadAssumption DEF StockOK
<1> QED BY <1>2, TypeInit, Threads
    DEF Init, IInv, LockInv, LoadInv, JoinInv, NobodyLeavesEarly, Critical

(* Whoever holds the mutex is alone between lock and unlock.               *)
LEMMA LockStep == TypeOK /\ LockInv /\ [Next]_vars => LockInv'
PROOF
<1> SUFFICES ASSUME TypeOK, LockInv, [Next]_vars PROVE LockInv'
  OBVIOUS
<1> USE DEF Goto, LockInv, Critical
<1>1. ASSUME NEW t \in Thread, Lock(t) PROVE LockInv'
  <2>1. \A u \in Thread : pc[u] \notin Critical
    BY <1>1, Threads DEF Lock
  <2> QED BY <1>1, <2>1 DEF Lock, TypeOK
<1>2. ASSUME NEW t \in Thread, Unlock(t) PROVE LockInv'
  <2>1. \A u \in Thread \ {t} : pc[u] \notin Critical
    BY <1>2 DEF Unlock
  <2> QED BY <1>2, <2>1 DEF Unlock, TypeOK
<1>3. ASSUME NEW m \in Maker, MakerStep(m) PROVE LockInv'
  BY <1>3, Threads DEF MakerStep, MakerTest, MakerStore, MakerCheck, TypeOK
<1>4. CASE BoxerStep
  BY <1>4, Threads DEF BoxerStep, BoxerTest, BoxerStore, BoxerCheck, TypeOK
<1>5. CASE Create
  BY <1>5 DEF Create, TypeOK
<1>6. CASE CreateFails \/ JoinFails \/ Join \/ Return
  BY <1>6 DEF CreateFails, JoinFails, Join, Return
<1>7. CASE UNCHANGED vars
  BY <1>7 DEF vars
<1> QED BY <1>1, <1>2, <1>3, <1>4, <1>5, <1>6, <1>7 DEF Next, MainStep

(* The loaded counters and the stock, which need each other: a store writes *)
(* what was tested because no other thread stores in between.              *)
LEMMA StockStep ==
    TypeOK /\ LockInv /\ LoadInv /\ StockOK /\ [Next]_vars => LoadInv' /\ StockOK'
PROOF
<1> SUFFICES ASSUME TypeOK, LockInv, LoadInv, StockOK, [Next]_vars
             PROVE  LoadInv' /\ StockOK'
  OBVIOUS
<1>0. /\ bread_count \in Nat /\ box_count \in Nat /\ box_count * BoxSize \in Nat
      /\ NUM_OF_BREAD \in Nat /\ BoxSize \in Nat \ {0} /\ NUM_OF_BOX \in Nat
  BY BoxArithmetic, BreadAssumption DEF TypeOK
<1>1. ASSUME NEW t \in Thread, Lock(t) \/ Unlock(t) PROVE LoadInv' /\ StockOK'
  <2>1. \A u \in Thread : pc'[u] = "store" => pc[u] = "store"
    BY <1>1 DEF Lock, Unlock, Goto, TypeOK
  <2>2. UNCHANGED <<bread_count, box_count, reg>>
    BY <1>1 DEF Lock, Unlock, counters
  <2> QED BY <2>1, <2>2, Threads DEF LoadInv, StockOK
<1>2. ASSUME NEW m \in Maker, MakerTest(m) PROVE LoadInv' /\ StockOK'
  <2>1. UNCHANGED <<bread_count, box_count>>
    BY <1>2 DEF MakerTest, counters
  <2>2. \A u \in Thread : pc'[u] = "store" =>
           \/ (pc[u] = "store" /\ reg'[u] = reg[u])
           \/ (u = m /\ reg'[u] = bread_count /\ bread_count < NUM_OF_BREAD)
    BY <1>2, Threads DEF MakerTest, Baking, Goto, TypeOK
  <2>3. m # Boxer
    BY Threads
  <2> QED BY <2>1, <2>2, <2>3, Threads DEF LoadInv, StockOK
<1>3. ASSUME NEW m \in Maker, MakerStore(m) PROVE LoadInv' /\ StockOK'
  <2>1. bread_count' = bread_count + 1 /\ bread_count' <= NUM_OF_BREAD /\ box_count' = box_count
    BY <1>3, <1>0 DEF MakerStore, Goto, LoadInv
  <2>2. \A u \in Thread : pc'[u] # "store"
    BY <1>3, Threads DEF MakerStore, Goto, TypeOK, LockInv, Critical
  <2> QED BY <1>0, <2>1, <2>2, Threads DEF LoadInv, StockOK
<1>4. ASSUME NEW m \in Maker, MakerCheck(m) PROVE LoadInv' /\ StockOK'
  <2>1. \A u \in Thread : pc'[u] = "store" => pc[u] = "store"
    BY <1>4, Threads DEF MakerCheck, Goto, TypeOK
  <2>2. UNCHANGED <<bread_count, box_count, reg>>
    BY <1>4 DEF MakerCheck, counters
  <2> QED BY <2>1, <2>2, Threads DEF LoadInv, StockOK
<1>5. CASE BoxerTest
  <2>1. UNCHANGED <<bread_count, box_count>>
    BY <1>5 DEF BoxerTest, counters
  <2>2. \A u \in Maker : pc'[u] = pc[u] /\ reg'[u] = reg[u]
    BY <1>5, Threads DEF BoxerTest, Goto, TypeOK
  <2>3. pc'[Boxer] = "store" => reg'[Boxer] = box_count /\ BoxReady
    BY <1>5, Threads DEF BoxerTest, Goto, TypeOK
  <2> QED BY <2>1, <2>2, <2>3 DEF LoadInv, StockOK, BoxReady
<1>6. CASE BoxerStore
  <2>1. /\ box_count' = box_count + 1 /\ bread_count' = bread_count
        /\ bread_count - box_count * BoxSize >= BoxSize
    BY <1>6 DEF BoxerStore, Goto, LoadInv
  <2>2. \A u \in Thread : pc'[u] # "store"
    BY <1>6, Threads DEF BoxerStore, Goto, TypeOK, LockInv, Critical
  <2>3. box_count' * BoxSize = box_count * BoxSize + BoxSize
    BY <1>0, <2>1, BoxArithmetic
  <2>4. box_count' * BoxSize <= bread_count' /\ bread_count' <= NUM_OF_BREAD
    BY <1>0, <2>1, <2>3 DEF StockOK
  <2>5. box_count * BoxSize <= NUM_OF_BREAD - BoxSize
    BY <1>0, <2>1 DEF StockOK
  <2>6. box_count' <= NUM_OF_BOX
    BY <1>0, <2>1, <2>5, BoxArithmetic
  <2> QED BY <2>2, <2>4, <2>6, Threads DEF LoadInv, StockOK
<1>7. CASE BoxerCheck
  <2>1. \A u \in Thread : pc'[u] = "store" => pc[u] = "store"
    BY <1>7, Threads DEF BoxerCheck, Goto, TypeOK
  <2>2. UNCHANGED <<bread_count, box_count, reg>>
    BY <1>7 DEF BoxerCheck, counters
  <2> QED BY <2>1, <2>2, Threads DEF LoadInv, StockOK
<1>8. CASE MainStep \/ CreateFails \/ JoinFails \/ UNCHANGED vars
  <2>1. UNCHANGED <<bread_count, box_count, reg>>
    BY <1>8 DEF MainStep, Create, CreateFails, JoinFails, Join, Return, vars, counters
  <2>2. \A u \in Thread : pc'[u] = "store" => pc[u] = "store"
    BY <1>8 DEF MainStep, Create, CreateFails, JoinFails, Join, Return, vars, TypeOK
  <2> QED BY <2>1, <2>2, Threads DEF LoadInv, StockOK
<1> QED BY <1>1, <1>2, <1>3, <1>4, <1>5, <1>6, <1>7, <1>8 DEF Next, MakerStep, BoxerStep

(* Leaving: the counters only grow, so a reason to leave stays one.        *)
LEMMA LeaveStep ==
    /\ TypeOK /\ LoadInv /\ StockOK /\ JoinInv /\ NobodyLeavesEarly
    /\ [Next]_vars /\ StockOK'
    => JoinInv' /\ NobodyLeavesEarly'
PROOF
<1> SUFFICES ASSUME TypeOK, LoadInv, StockOK, JoinInv, NobodyLeavesEarly, [Next]_vars, StockOK'
             PROVE  JoinInv' /\ NobodyLeavesEarly'
  OBVIOUS
<1>0. /\ bread_count \in Nat /\ box_count \in Nat
      /\ NUM_OF_BREAD \in Nat /\ NUM_OF_BOX \in Nat
      /\ joined \in Nat /\ created \in Nat /\ joined <= NUM_OF_THREAD /\ 1..joined \subseteq Thread
  BY BreadAssumption, Threads DEF TypeOK
<1>1. ASSUME NEW t \in Thread, Lock(t) \/ Unlock(t) PROVE JoinInv' /\ NobodyLeavesEarly'
  <2>1. \A u \in Thread : pc'[u] = "done" <=> pc[u] = "done"
    BY <1>1 DEF Lock, Unlock, Goto, TypeOK
  <2>2. UNCHANGED <<bread_count, box_count, created, joined, exit>>
    BY <1>1 DEF Lock, Unlock, counters, main
  <2> QED BY <1>0, <2>1, <2>2, Threads DEF JoinInv, NobodyLeavesEarly
<1>2. ASSUME NEW m \in Maker, MakerTest(m) PROVE JoinInv' /\ NobodyLeavesEarly'
  <2>1. \A u \in Thread : pc'[u] = "done" <=> pc[u] = "done"
    BY <1>2, Threads DEF MakerTest, Goto, TypeOK
  <2>2. UNCHANGED <<bread_count, box_count, created, joined, exit>>
    BY <1>2 DEF MakerTest, counters, main
  <2> QED BY <1>0, <2>1, <2>2, Threads DEF JoinInv, NobodyLeavesEarly
<1>3. ASSUME NEW m \in Maker, MakerStore(m) PROVE JoinInv' /\ NobodyLeavesEarly'
  <2>1. \A u \in Thread : pc'[u] = "done" <=> pc[u] = "done"
    BY <1>3, Threads DEF MakerStore, Goto, TypeOK
  <2>2. exit = "no" /\ UNCHANGED <<box_count, created, joined, exit>>
    BY <1>3 DEF MakerStore, main, Goto, Running
  <2>3. bread_count < NUM_OF_BREAD
    BY <1>3 DEF MakerStore, LoadInv, Goto
  <2>4. \A u \in Maker : pc[u] # "done"
    BY <1>0, <2>3 DEF NobodyLeavesEarly
  <2> QED BY <1>0, <2>1, <2>2, <2>4, Threads DEF JoinInv, NobodyLeavesEarly
<1>4. ASSUME NEW m \in Maker, MakerCheck(m) PROVE JoinInv' /\ NobodyLeavesEarly'
  <2>1. \A u \in Thread : pc'[u] = "done" <=>
           pc[u] = "done" \/ (u = m /\ bread_count >= NUM_OF_BREAD)
    BY <1>4, Threads DEF MakerCheck, Goto, TypeOK
  <2>2. UNCHANGED <<bread_count, box_count, created, joined, exit>>
    BY <1>4 DEF MakerCheck, counters, main
  <2>3. bread_count >= NUM_OF_BREAD => bread_count = NUM_OF_BREAD
    BY <1>0 DEF StockOK
  <2> QED BY <1>0, <2>1, <2>2, <2>3, Threads DEF JoinInv, NobodyLeavesEarly
<1>5. CASE BoxerTest
  <2>1. \A u \in Thread : pc'[u] = "done" <=> pc[u] = "done"
    BY <1>5, Threads DEF BoxerTest, Goto, TypeOK
  <2>2. UNCHANGED <<bread_count, box_count, created, joined, exit>>
    BY <1>5 DEF BoxerTest, counters, main
  <2> QED BY <1>0, <2>1, <2>2, Threads DEF JoinInv, NobodyLeavesEarly
<1>6. CASE BoxerStore
  <2>1. \A u \in Thread : pc'[u] = "done" <=> pc[u] = "done"
    BY <1>6, Threads DEF BoxerStore, Goto, TypeOK
  <2>2. exit = "no" /\ pc[Boxer] # "done" /\ UNCHANGED <<bread_count, created, joined, exit>>
    BY <1>6 DEF BoxerStore, main, Goto, Running
  <2> QED BY <1>0, <2>1, <2>2, Threads DEF JoinInv, NobodyLeavesEarly
<1>7. CASE BoxerCheck
  <2>1. \A u \in Thread : pc'[u] = "done" <=>
           pc[u] = "done" \/ (u = Boxer /\ box_count = NUM_OF_BOX)
    BY <1>7, Threads DEF BoxerCheck, Goto, TypeOK
  <2>2. UNCHANGED <<bread_count, box_count, created, joined, exit>>
    BY <1>7 DEF BoxerCheck, counters, main
  <2> QED BY <1>0, <2>1, <2>2, Threads DEF JoinInv, NobodyLeavesEarly
<1>8. CASE Create
  <2>1. created + 1 \in Thread
    BY <1>0, <1>8, Threads DEF Create
  <2>2. \A u \in Thread : pc'[u] = "done" => pc[u] = "done"
    BY <1>8 DEF Create, TypeOK
  <2>3. UNCHANGED <<bread_count, box_count, joined, exit>> /\ exit = "no"
    BY <1>8 DEF Create, counters, Running
  <2>4. joined = 0
    BY <1>0, <1>8, Threads DEF Create, JoinInv
  <2> QED BY <1>0, <2>2, <2>3, <2>4, Threads DEF JoinInv, NobodyLeavesEarly
<1>9. CASE CreateFails \/ JoinFails
  BY <1>0, <1>9, Threads DEF CreateFails, JoinFails, counters, JoinInv, NobodyLeavesEarly
<1>10. CASE Join
  <2>1. /\ joined' = joined + 1 /\ pc[joined + 1] = "done" /\ pc' = pc
        /\ exit = "no" /\ exit' = "no" /\ created' = NUM_OF_THREAD
    BY <1>10 DEF Join, Running
  <2> QED BY <1>0, <1>10, <2>1, Threads DEF Join, counters, JoinInv, NobodyLeavesEarly
<1>11. CASE Return
  <2>1. \A u \in Thread : pc[u] = "done"
    BY <1>11, Threads DEF Return, JoinInv
  <2>2. bread_count = NUM_OF_BREAD /\ box_count = NUM_OF_BOX
    <3>1. 1 \in Maker
      BY BreadAssumption DEF Maker
    <3> QED BY <2>1, <3>1, Threads DEF NobodyLeavesEarly
  <2> QED BY <1>0, <1>11, <2>1, <2>2, Threads DEF Return, counters, JoinInv, NobodyLeavesEarly
<1>12. CASE UNCHANGED vars
  BY <1>12 DEF vars, JoinInv, NobodyLeavesEarly
<1> QED BY <1>1, <1>2, <1>3, <1>4, <1>5, <1>6, <1>7, <1>8, <1>9, <1>10, <1>11, <1>12
     DEF Next, MakerStep, BoxerStep, MainStep
-----------------------------------------------------------------------------
THEOREM InvariantHolds == Spec => []IInv
PROOF
<1>1. IInv /\ [Next]_vars => IInv'
  BY TypeStep, LockStep, StockStep, LeaveStep DEF IInv
<1> QED BY <1>1, InvInit, PTL DEF Spec

(* Never more bread than ordered, nor a box without its loaves, nor a box  *)
(* more than the boxer waits for: the test and the increment of a counter  *)
(* are one step for every other thread (pthread_bread.c:30-36, 51-57).     *)
THEOREM StockIsRight == Spec => []StockOK
PROOF BY InvariantHolds, PTL DEF IInv

(* The reads without the mutex do not let a thread leave, or main return   *)
(* with success, before the work is done (pthread_bread.c:38, 58, 104-118).*)
THEOREM NobodyLeaves == Spec => []NobodyLeavesEarly
PROOF BY InvariantHolds, PTL DEF IInv

(* The threads do what Factory says, one loaf or one box at a time.        *)
THEOREM FactoryImplemented == Spec => ImplementsFactory
PROOF
<1>1. Init => Abstract!Init
  BY DEF Init, Abstract!Init
<1>2. IInv /\ [Next]_vars => [Abstract!Next]_Abstract!vars
  <2> SUFFICES ASSUME IInv, [Next]_vars,
                      ~ UNCHANGED <<bread_count, box_count>>
               PROVE  Abstract!Bake \/ Abstract!Pack
    BY DEF Abstract!Next, Abstract!vars
  <2>1. ASSUME NEW m \in Maker, MakerStore(m) PROVE Abstract!Bake
    BY <2>1 DEF MakerStore, Goto, IInv, LoadInv, Abstract!Bake
  <2>2. CASE BoxerStore
    BY <2>2 DEF BoxerStore, Goto, IInv, LoadInv, Abstract!Pack
  <2> QED BY <2>1, <2>2
     DEF Next, vars, Lock, Unlock, MakerStep, MakerTest, MakerCheck, BoxerStep, BoxerTest,
         BoxerCheck, MainStep, Create, CreateFails, JoinFails, Join, Return, counters
<1> QED BY <1>1, <1>2, InvariantHolds, PTL DEF Spec, ImplementsFactory, Abstract!Spec
=============================================================================
