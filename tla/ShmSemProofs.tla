---------------------------- MODULE ShmSemProofs -----------------------------
(***************************************************************************)
(* Safety of ShmSem for any producers, consumers, times and kills: types,  *)
(* the one unit of the semaphore, and that the record a consumer prints is *)
(* whole.                                                                  *)
(***************************************************************************)
EXTENDS ShmSem, FiniteSetTheorems, TLAPS

Record == BOOLEAN \X (Time \cup {NoTime})
TypeInv == TypeOK /\ cs \in [Process -> Record] /\ sum \in Record

Nobody == \A p \in Process : pc[p] \notin InSection
Only(p) == pc[p] \in InSection /\ \A q \in Process : pc[q] \in InSection => q = p

(* Where the unit is: not made yet, in the semaphore, or with one process; *)
(* the kernel would give back exactly what a process holds.                *)
UnitInv ==
    /\ \A p \in Process : id[p] = 0
    /\ \A p \in Process : semadj[p] = IF pc[p] \in InSection THEN 1 ELSE 0
    /\ \/ semval = setvals /\ Nobody
       \/ semval = 0 /\ setvals = 1 /\ \E p \in Process : Only(p)

(* What the process in the section knows of the record.                    *)
RecordInv ==
    \A p \in Process :
        /\ pc[p] = "cs" => cs[p] = Sum(status, buf)
        /\ pc[p] = "add" => status
        /\ pc[p] = "compare" => status /\ cs[p] = Sum(status, buf)
        /\ pc[p] = "print" => status /\ sum = Sum(status, buf)

(* Only a producer between its first and its last store leaves the record  *)
(* other than whole.                                                       *)
Writing(p) == pc[p] \in {"status", "sum", "cs"}
WholeInv ==
    /\ (status => sum = Sum(status, buf)) \/ \E p \in Process : Writing(p)
    /\ \A p \in Process : pc[p] # "invalid_checksum"

OnceInv == UnitInv /\ RecordInv /\ (killed = 0 => WholeInv)
IInv == TypeInv /\ (OperatorOnce => OnceInv)

LEMMA InitHolds == Init => IInv
<1> SUFFICES ASSUME Init PROVE IInv
  OBVIOUS
<1>1. Zero \in Record
  BY DEF Zero, Sum, Record
<1>2. 0 \in 0 .. MaxSemRmid /\ 0 \in 0 .. MaxSetval /\ 0 \in 0 .. MaxKill /\ -1 \in -1 .. Expired
  BY SemAssumption, ShmAssumption DEF Expired
<1>3. semval \in Nat /\ semadj \in [Process -> Int] /\ id \in [Process -> 0 .. MaxSemRmid]
  BY <1>2 DEF Init, SemInit
<1>4. pc \in [Process -> Live \cup {"new"}] /\ age \in [Producer -> -1 .. Expired]
  BY <1>2 DEF Init
<1>5. TypeInv
  BY <1>1, <1>2, <1>3, <1>4 DEF Init, SemInit, TypeInv, TypeOK
<1>6. UnitInv
  BY DEF Init, SemInit, UnitInv, InSection, Nobody
<1>7. RecordInv /\ WholeInv
  BY DEF Init, RecordInv, WholeInv
<1> QED
  BY <1>5, <1>6, <1>7 DEF IInv, OnceInv
-----------------------------------------------------------------------------
(* The types, whoever moves.                                               *)
LEMMA LeaveTypes ==
    ASSUME TypeInv, NEW p \in Process, NEW from, NEW to \in {"off", "invalid_checksum"},
           Leave(p, from, to), UNCHANGED shm, killed' \in 0 .. MaxKill
    PROVE  TypeInv'
<1> USE DEF TypeInv, TypeOK
<1>1. semadj[p] \in Int /\ semval \in Nat
  OBVIOUS
<1>2. semval' \in Nat /\ semadj' \in [Process -> Int] /\ UNCHANGED <<semid, setvals>>
  BY <1>1 DEF Leave, SemExit
<1>3. pc' \in [Process -> Live \cup {"new", "off", "invalid_checksum"}]
  BY DEF Leave, Goto
<1>4. id' \in [Process -> 0 .. MaxSemRmid]
  BY SemAssumption DEF Leave, Forget
<1>5. cs' \in [Process -> Record]
  BY DEF Leave, Forget, Record, Zero, Sum
<1>6. age' \in [Producer -> -1 .. Expired]
  BY ShmAssumption DEF Leave, Forget, Expired
<1> QED
  BY <1>2, <1>3, <1>4, <1>5, <1>6 DEF shm

LEMMA CommonTypes ==
    ASSUME TypeInv, NEW p \in Process, Start(p) \/ Dec(p) \/ Inc(p)
    PROVE  TypeInv'
<1> USE DEF TypeInv, TypeOK
<1>1. CASE Start(p)
  BY <1>1 DEF Start, Goto, semVars, shm, Live
<1>2. CASE Dec(p)
  BY <1>2 DEF Dec, Goto, SemDec, shm, Live, InSection
<1>3. CASE Inc(p)
  <2>1. semval' \in Nat /\ semadj' \in [Process -> Int] /\ UNCHANGED <<semid, setvals>>
    BY <1>3 DEF Inc, SemInc, semVars
  <2>2. cs' \in [Process -> Record]
    BY <1>3 DEF Inc, Record, Zero, Sum
  <2>3. pc' \in [Process -> Live \cup {"new", "off", "invalid_checksum"}]
    BY <1>3 DEF Inc, Goto, Live
  <2> QED
    BY <1>3, <2>1, <2>2, <2>3 DEF Inc, shm
<1> QED
  BY <1>1, <1>2, <1>3

(* The steps of a producer and of a consumer inside the section.           *)
Store(p) == Timeout(p) \/ Proceed(p) \/ PutBuf(p) \/ PutStatus(p) \/ PutSum(p) \/ PutChecksum(p)
Load(c) == GetValid(c) \/ GetSum(c) \/ GetSame(c) \/ GetPrint(c)

LEMMA StayTypes ==
    ASSUME TypeInv,
           NEW p \in Process, (p \in Producer /\ Store(p)) \/ Load(p)
    PROVE  TypeInv'
<1>1. UNCHANGED <<semVars, id, killed>>
  BY DEF Store, Timeout, Proceed, PutBuf, PutStatus, PutSum, PutChecksum, Load, GetValid, GetSum,
         GetSame, GetPrint
<1>2. pc' \in [Process -> Live \cup {"new", "off", "invalid_checksum"}]
  BY DEF Store, Timeout, Proceed, PutBuf, PutStatus, PutSum, PutChecksum, Load, GetValid, GetSum,
         GetSame, GetPrint, Goto, Live, InSection, TypeInv, TypeOK
<1>3. status' \in BOOLEAN /\ buf' \in Time \cup {NoTime}
  BY DEF Store, Timeout, Proceed, PutBuf, PutStatus, PutSum, PutChecksum, Load, GetValid, GetSum,
         GetSame, GetPrint, TypeInv, TypeOK, shm
<1>4. cs' \in [Process -> Record] /\ sum' \in Record
  <2>1. Sum(status, buf) \in Record
    BY DEF Sum, Record, TypeInv, TypeOK
  <2>2. cs' = cs \/ cs' = [cs EXCEPT ![p] = Sum(status, buf)]
    BY DEF Store, Timeout, Proceed, PutBuf, PutStatus, PutSum, PutChecksum, Load, GetValid, GetSum,
           GetSame, GetPrint
  <2>3. sum' = sum \/ sum' = cs[p]
    BY DEF Store, Timeout, Proceed, PutBuf, PutStatus, PutSum, PutChecksum, Load, GetValid, GetSum,
           GetSame, GetPrint, shm
  <2> QED
    BY <2>1, <2>2, <2>3 DEF TypeInv
<1>5. age' \in [Producer -> -1 .. Expired]
  BY ShmAssumption
  DEF Store, Timeout, Proceed, PutBuf, PutStatus, PutSum, PutChecksum, Load, GetValid, GetSum,
      GetSame, GetPrint, TypeInv, TypeOK, Expired
<1> QED
  BY <1>1, <1>2, <1>3, <1>4, <1>5 DEF TypeInv, TypeOK, semVars

LEMMA OtherTypes == ASSUME TypeInv, Tick \/ Setval \/ Rmid PROVE TypeInv'
<1>1. CASE Tick
  <2>1. age' \in [Producer -> -1 .. Expired]
    BY <1>1, ShmAssumption DEF Tick, TypeInv, TypeOK, Expired
  <2> QED
    BY <1>1, <2>1 DEF Tick, TypeInv, TypeOK, semVars, shm
<1>2. CASE Setval
  BY <1>2, SemAssumption DEF TypeInv, TypeOK, Setval, SemSetval, local, shm
<1>3. CASE Rmid
  BY <1>3, SemAssumption DEF TypeInv, TypeOK, Rmid, SemRmid, local, shm
<1> QED
  BY <1>1, <1>2, <1>3
-----------------------------------------------------------------------------
(* The unit and the record, while the operator has only opened the         *)
(* semaphore.                                                              *)
LEMMA Alone ==
    ASSUME UnitInv, NEW p \in Process, pc[p] \in InSection
    PROVE  Only(p) /\ semval = 0 /\ setvals = 1
BY DEF UnitInv, Nobody, Only

LEMMA LeaveUnit ==
    ASSUME TypeInv, UnitInv, setvals \in {0, 1}, NEW p \in Process, NEW from,
           NEW to \in {"off", "invalid_checksum"}, Leave(p, from, to)
    PROVE  UnitInv'
<1> USE DEF TypeInv, TypeOK, UnitInv
<1>1. /\ pc' = [pc EXCEPT ![p] = to] /\ id' = [id EXCEPT ![p] = 0]
      /\ semadj' = [semadj EXCEPT ![p] = 0] /\ setvals' = setvals
  BY DEF Leave, SemExit, Goto, Forget
<1>2. CASE pc[p] \in InSection
  <2>1. semval = 0 /\ setvals = 1 /\ Only(p) /\ semadj[p] = 1
    BY <1>2, Alone
  <2>2. semval' = 1 /\ Nobody'
    BY <1>1, <2>1 DEF Leave, SemExit, Nobody, Only, InSection
  <2> QED
    BY <1>1, <2>1, <2>2 DEF InSection
<1>3. CASE pc[p] \notin InSection
  <2>1. semval' = semval
    BY <1>3 DEF Leave, SemExit
  <2>2. Nobody => Nobody'
    BY <1>1 DEF Nobody, InSection
  <2>3. ASSUME NEW q \in Process, Only(q) PROVE Only(q)'
    BY <1>1, <1>3, <2>3 DEF Only, InSection
  <2> QED
    BY <1>1, <1>3, <2>1, <2>2, <2>3 DEF InSection
<1> QED
  BY <1>2, <1>3

LEMMA LeaveOnce ==
    ASSUME TypeInv, OnceInv, setvals \in {0, 1}, NEW p \in Process, NEW from,
           NEW to \in {"off", "invalid_checksum"}, Leave(p, from, to), UNCHANGED shm,
           \/ killed' # 0
           \/ killed' = killed /\ to = "off" /\ from \notin {"status", "sum", "cs"}
    PROVE  OnceInv'
<1> USE DEF TypeInv, TypeOK, OnceInv
<1>1. UnitInv'
  BY LeaveUnit
<1>2. pc[p] = from /\ pc' = [pc EXCEPT ![p] = to] /\ cs' = [cs EXCEPT ![p] = Zero]
  BY DEF Leave, Goto, Forget
<1>3. RecordInv'
  BY <1>2 DEF RecordInv, shm
<1>4. killed' = 0 => WholeInv'
  BY <1>2 DEF WholeInv, Writing, shm
<1> QED
  BY <1>1, <1>3, <1>4

LEMMA CommonOnce ==
    ASSUME TypeInv, OnceInv, OperatorOnce, NEW p \in Process, Start(p) \/ Dec(p) \/ Inc(p)
    PROVE  OnceInv'
<1> USE DEF TypeInv, TypeOK, OnceInv
<1>1. CASE Start(p)
  BY <1>1 DEF Start, Goto, semVars, shm, UnitInv, RecordInv, WholeInv, Writing, Live, InSection,
              Nobody, Only, OperatorOnce
<1>2. CASE Dec(p)
  <2>1. semval = setvals /\ Nobody /\ semval = 1 /\ semadj[p] = 0
    BY <1>2 DEF Dec, SemDec, OperatorOnce, UnitInv, Nobody
  <2>2. PICK to \in {"time", "check"} : pc' = [pc EXCEPT ![p] = to]
    BY <1>2 DEF Dec, Goto
  <2>3. semval' = 0 /\ setvals' = 1 /\ semadj' = [semadj EXCEPT ![p] = 1]
    BY <1>2, <2>1 DEF Dec, SemDec
  <2>4. UNCHANGED <<id, cs, shm, killed>>
    BY <1>2 DEF Dec
  <2>5. Only(p)'
    BY <2>1, <2>2 DEF Only, Nobody, InSection
  <2>6. UnitInv'
    BY <2>1, <2>2, <2>3, <2>4, <2>5 DEF UnitInv, Nobody, InSection
  <2>7. pc[p] = "dec" /\ RecordInv'
    BY <1>2, <2>2, <2>4 DEF Dec, Goto, RecordInv, shm
  <2>8. killed = 0 => WholeInv'
    BY <2>2, <2>4, <2>7 DEF WholeInv, Writing, shm
  <2> QED
    BY <2>4, <2>6, <2>7, <2>8
<1>3. CASE Inc(p)
  <2>1. Only(p) /\ semval = 0 /\ setvals = 1 /\ semadj[p] = 1 /\ ~ SemRemoved(id[p])
    BY <1>3, Alone DEF Inc, Goto, InSection, UnitInv, SemRemoved, OperatorOnce
  <2>2. /\ pc' = [pc EXCEPT ![p] = "dec"] /\ pc[p] = "inc" /\ semval' = 1 /\ setvals' = setvals
        /\ semadj' = [semadj EXCEPT ![p] = 0] /\ UNCHANGED <<id, shm, killed>>
    BY <1>3, <2>1 DEF Inc, Goto, SemInc
  <2>3. cs' = [cs EXCEPT ![p] = Zero]
    BY <1>3 DEF Inc
  <2>4. Nobody'
    BY <2>1, <2>2 DEF Only, Nobody, InSection
  <2>5. UnitInv'
    BY <2>1, <2>2, <2>4 DEF UnitInv, Nobody, Only, InSection
  <2>6. RecordInv'
    BY <2>2, <2>3 DEF RecordInv, shm
  <2>7. killed = 0 => WholeInv'
    BY <2>2 DEF WholeInv, Writing, shm
  <2> QED
    BY <2>2, <2>5, <2>6, <2>7
<1> QED
  BY <1>1, <1>2, <1>3

(* A step inside the section changes neither the unit nor who is there.    *)
LEMMA StayUnit ==
    ASSUME TypeInv, UnitInv, NEW p \in Process, Store(p) \/ Load(p)
    PROVE  UnitInv' /\ Only(p) /\ Only(p)' /\ \A q \in Process : q # p => pc'[q] = pc[q]
<1>1. PICK to \in InSection : pc[p] \in InSection /\ pc' = [pc EXCEPT ![p] = to]
  BY DEF Store, Timeout, Proceed, PutBuf, PutStatus, PutSum, PutChecksum, Load, GetValid, GetSum,
         GetSame, GetPrint, Goto, InSection
<1>2. UNCHANGED <<semVars, id>>
  BY DEF Store, Timeout, Proceed, PutBuf, PutStatus, PutSum, PutChecksum, Load, GetValid, GetSum,
         GetSame, GetPrint
<1>3. Only(p) /\ semval = 0 /\ setvals = 1
  BY <1>1, Alone
<1>4. Only(p)' /\ \A q \in Process : q # p => pc'[q] = pc[q]
  BY <1>1, <1>3 DEF Only, TypeInv, TypeOK
<1> QED
  BY <1>1, <1>2, <1>3, <1>4 DEF UnitInv, Only, semVars, TypeInv, TypeOK

LEMMA StayOnce ==
    ASSUME TypeInv, OnceInv, NEW p \in Process, Store(p) \/ Load(p)
    PROVE  OnceInv'
<1> USE DEF TypeInv, TypeOK, OnceInv
<1>1. UnitInv' /\ Only(p) /\ Only(p)' /\ \A q \in Process : q # p => pc'[q] = pc[q]
  BY StayUnit
<1>2. \A q \in Process : q # p => pc[q] \notin InSection /\ pc'[q] \notin InSection
  BY <1>1 DEF Only
<1>3. killed' = killed
  BY DEF Store, Timeout, Proceed, PutBuf, PutStatus, PutSum, PutChecksum, Load, GetValid, GetSum,
         GetSame, GetPrint
<1>4. CASE Store(p)
  <2>1. RecordInv'
    BY <1>2, <1>4 DEF RecordInv, InSection, Store, Timeout, Proceed, PutBuf, PutStatus, PutSum,
                      PutChecksum, Goto, shm
  <2>2. killed = 0 => WholeInv'
    <3>1. CASE Timeout(p)
      BY <1>2, <3>1 DEF WholeInv, Timeout, Goto
    <3>2. CASE Proceed(p)
      BY <1>2, <3>2 DEF WholeInv, Writing, InSection, Proceed, Goto, shm
    <3>3. CASE PutBuf(p)
      BY <1>2, <3>3 DEF WholeInv, Writing, PutBuf, Goto
    <3>4. CASE PutStatus(p)
      BY <1>2, <3>4 DEF WholeInv, Writing, PutStatus, Goto
    <3>5. CASE PutSum(p)
      BY <1>2, <3>5 DEF WholeInv, Writing, PutSum, Goto
    <3>6. CASE PutChecksum(p)
      BY <1>2, <3>6 DEF WholeInv, RecordInv, PutChecksum, Goto
    <3> QED
      BY <1>4, <3>1, <3>2, <3>3, <3>4, <3>5, <3>6 DEF Store
  <2> QED
    BY <1>1, <1>3, <2>1, <2>2
<1>5. CASE Load(p)
  <2>1. UNCHANGED shm
    BY <1>5 DEF Load, GetValid, GetSum, GetSame, GetPrint
  <2>2. RecordInv'
    BY <1>2, <1>5, <2>1 DEF RecordInv, InSection, Load, GetValid, GetSum, GetSame, GetPrint, Goto, shm
  <2>3. killed = 0 => WholeInv'
    BY <1>2, <1>5, <2>1 DEF WholeInv, Writing, InSection, Load, GetValid, GetSum, GetSame, GetPrint,
                            Goto, shm
  <2> QED
    BY <1>1, <1>3, <2>2, <2>3
<1> QED
  BY <1>4, <1>5
-----------------------------------------------------------------------------
LEMMA StepHolds == IInv /\ [Next]_vars => IInv'
<1> SUFFICES ASSUME IInv, [Next]_vars PROVE IInv'
  OBVIOUS
<1> USE DEF IInv
<1>1. ASSUME NEW p \in Process, Start(p) \/ Dec(p) \/ Inc(p) PROVE IInv'
  <2>1. OperatorOnce' => OperatorOnce
    BY <1>1 DEF OperatorOnce, Start, Dec, SemDec, Inc, SemInc, semVars
  <2> QED
    BY <1>1, <2>1, CommonTypes, CommonOnce
<1>2. ASSUME NEW p \in Process, (p \in Producer /\ Store(p)) \/ Load(p) PROVE IInv'
  <2>1. UNCHANGED semVars
    BY <1>2 DEF Store, Timeout, Proceed, PutBuf, PutStatus, PutSum, PutChecksum, Load, GetValid,
                GetSum, GetSame, GetPrint
  <2>2. OperatorOnce' => OperatorOnce
    BY <2>1 DEF OperatorOnce, semVars
  <2> QED
    BY <1>2, <2>2, StayTypes, StayOnce
<1>3. ASSUME NEW p \in Process, NEW from, NEW to \in {"off", "invalid_checksum"},
             Leave(p, from, to), UNCHANGED shm, killed' \in 0 .. MaxKill,
             OperatorOnce => \/ killed' # 0
                             \/ killed' = killed /\ to = "off" /\ from \notin {"status", "sum", "cs"}
      PROVE  IInv'
  <2>1. UNCHANGED <<semid, setvals>>
    BY <1>3 DEF Leave, SemExit
  <2>2. OperatorOnce' => OperatorOnce /\ setvals \in {0, 1}
    BY <2>1 DEF OperatorOnce, TypeInv, TypeOK
  <2> QED
    BY <1>3, <2>2, LeaveTypes, LeaveOnce
<1>4. ASSUME NEW p \in Process, DecFails(p) \/ LeaveExpired(p) \/ LeaveInvalid(p) PROVE IInv'
  <2>1. PICK from \in {"dec", "leave", "check"} :
            Leave(p, from, "off") /\ UNCHANGED <<shm, killed>>
    BY <1>4 DEF DecFails, LeaveExpired, LeaveInvalid
  <2>2. killed' \in 0 .. MaxKill
    BY <2>1 DEF TypeInv, TypeOK
  <2> QED
    BY <1>3, <2>1, <2>2
<1>5. ASSUME NEW p \in Process, LeaveChecksum(p) PROVE IInv'
  <2>1. Leave(p, "compare", "invalid_checksum") /\ UNCHANGED <<shm, killed>> /\ sum # cs[p]
    BY <1>5 DEF LeaveChecksum
  <2>2. pc[p] = "compare"
    BY <2>1 DEF Leave, Goto
  <2>3. OperatorOnce => killed # 0
    <3> SUFFICES ASSUME OperatorOnce, killed = 0 PROVE FALSE
      OBVIOUS
    <3>1. Only(p)
      BY <2>2, Alone DEF OnceInv, InSection
    <3>2. status => sum = Sum(status, buf)
      BY <2>2, <3>1 DEF OnceInv, WholeInv, Writing, Only, InSection
    <3> QED
      BY <2>1, <2>2, <3>2 DEF OnceInv, RecordInv
  <2>4. killed' \in 0 .. MaxKill
    BY <2>1 DEF TypeInv, TypeOK
  <2> QED
    BY <1>3, <2>1, <2>3, <2>4
<1>6. ASSUME NEW p \in Process, Kill(p) PROVE IInv'
  <2>1. killed \in Nat /\ killed < MaxKill /\ killed' = killed + 1
    BY <1>6, ShmAssumption DEF Kill, TypeInv, TypeOK
  <2>2. killed' \in 0 .. MaxKill /\ killed' # 0
    BY <2>1, ShmAssumption
  <2> QED
    BY <1>3, <1>6, <2>2 DEF Kill
<1>7. CASE Tick
  <2>1. UNCHANGED <<semVars, pc, id, cs, shm, killed>>
    BY <1>7 DEF Tick
  <2> QED
    BY <1>7, <2>1, OtherTypes DEF OnceInv, UnitInv, RecordInv, WholeInv, Writing, OperatorOnce,
                                  Nobody, Only, semVars, shm
<1>8. CASE Setval
  <2>1. OperatorOnce' => OperatorOnce /\ setvals = 0
    BY <1>8 DEF Setval, SemSetval, OperatorOnce, TypeInv, TypeOK
  <2>2. OperatorOnce /\ setvals = 0 => UnitInv'
    BY <1>8 DEF Setval, SemSetval, local, OnceInv, UnitInv, Nobody
  <2>3. RecordInv /\ (killed = 0 => WholeInv) => RecordInv' /\ (killed' = 0 => WholeInv')
    BY <1>8 DEF Setval, local, shm, RecordInv, WholeInv, Writing
  <2> QED
    BY <1>8, <2>1, <2>2, <2>3, OtherTypes DEF OnceInv
<1>9. CASE Rmid
  <2>1. ~ OperatorOnce'
    BY <1>9 DEF Rmid, SemRmid, OperatorOnce, TypeInv, TypeOK
  <2> QED
    BY <1>9, <2>1, OtherTypes
<1>10. CASE UNCHANGED vars
  BY <1>10 DEF vars, semVars, local, shm, TypeInv, TypeOK, OnceInv, UnitInv, RecordInv, WholeInv,
               Writing, OperatorOnce, Nobody, Only
<1>11. Producer \subseteq Process /\ Consumer \subseteq Process
  BY ShmAssumption
<1> QED
  BY <1>1, <1>2, <1>4, <1>5, <1>6, <1>7, <1>8, <1>9, <1>10, <1>11
     DEF Next, Common, Put, Get, Store, Load

THEOREM ShmInvariant == Spec => []IInv
BY InitHolds, StepHolds, PTL DEF Spec

(* Types and bounds hold whoever is killed and whatever the operator does: *)
(* the value of the semaphore never goes below 0.                          *)
THEOREM ShmTypeOK == Spec => []TypeOK
<1>1. IInv => TypeOK
  BY DEF IInv, TypeInv
<1> QED
  BY <1>1, ShmInvariant, PTL

(* One unit, in the semaphore or with one process, although both programs  *)
(* leave their loop between the two semops (shmput.c:73-76, shmget.c:56-66). *)
THEOREM ShmUnitConserved == Spec => []UnitConserved
<1>1. IInv => UnitConserved
  <2> SUFFICES ASSUME IInv, OperatorOnce PROVE semval + Cardinality(Section) = setvals
    BY DEF UnitConserved
  <2> USE DEF IInv, OnceInv, UnitInv, TypeInv, TypeOK
  <2>1. CASE semval = setvals /\ Nobody
    <3>1. Section = {}
      BY <2>1 DEF Section, Nobody
    <3> QED
      BY <2>1, <3>1, FS_EmptySet
  <2>2. CASE semval = 0 /\ setvals = 1 /\ \E p \in Process : Only(p)
    <3>1. PICK p \in Process : Section = {p}
      BY <2>2 DEF Section, Only
    <3>2. Cardinality(Section) = 1
      BY <3>1, FS_Singleton
    <3> QED
      BY <2>2, <3>2
  <2> QED
    BY <2>1, <2>2
<1> QED
  BY <1>1, ShmInvariant, PTL

(* What a consumer prints has a right checksum when it is printed, for any *)
(* number of producers, also if one was killed half way (shmget.c:68).     *)
THEOREM ShmPrintedWhole == Spec => []PrintedWhole
<1>1. IInv => PrintedWhole
  BY ShmAssumption DEF IInv, OnceInv, RecordInv, PrintedWhole
<1> QED
  BY <1>1, ShmInvariant, PTL

(* The check of shmget.c:63 fails only after a process was killed.         *)
THEOREM ShmChecksum == Spec => []ChecksumFailsOnlyAfterKill
<1>1. IInv => ChecksumFailsOnlyAfterKill
  BY ShmAssumption DEF IInv, OnceInv, WholeInv, ChecksumFailsOnlyAfterKill
<1> QED
  BY <1>1, ShmInvariant, PTL
=============================================================================
