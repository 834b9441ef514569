----------------------------- MODULE SemRWProofs -----------------------------
(***************************************************************************)
(* Safety of SemRW for any set of processes, number of rounds, kills and   *)
(* operator actions: types, the one unit of the semaphore, and that no     *)
(* process reads back another letter than it wrote.                        *)
(***************************************************************************)
EXTENDS SemRW, FiniteSetTheorems, TLAPS

(* A process that is not done with its rounds has a letter left to write.  *)
TypeInv ==
    /\ TypeOK
    /\ \A p \in Process : pc[p] \in InSection \cup {"dec"} => c1[p] < LOOP_COUNT

Nobody == \A p \in Process : pc[p] \notin InSection
Only(p) == pc[p] \in InSection /\ \A q \in Process : pc[q] \in InSection => q = p

(* Where the unit is: not made yet, in the semaphore, or with one process; *)
(* the kernel would give back exactly what a process holds; and nobody     *)
(* writes between the write and the read of the one in the section.        *)
UnitInv ==
    /\ \A p \in Process : id[p] = 0
    /\ \A p \in Process : semadj[p] = IF pc[p] \in InSection THEN 1 ELSE 0
    /\ \/ semval = setvals /\ Nobody
       \/ semval = 0 /\ setvals = 1 /\ \E p \in Process : Only(p)
    /\ \A p \in Process : pc[p] = "read" => file = c1[p]
    /\ \A p \in Process : pc[p] # "not_same"

(* Whatever the operator does: the kernel gives back a unit only for those *)
(* who took it from the present semaphore and still hold it, and for each  *)
(* unit, free or held, there was a SETVAL.                                 *)
BoundInv ==
    /\ \A p \in Process : id[p] <= semid
    /\ \A p \in Process : semadj[p] <= IF p \in Inside THEN 1 ELSE 0
    /\ semval + Cardinality(Inside) <= setvals

IInv == TypeInv /\ BoundInv /\ (OperatorOnce => UnitInv)

LEMMA InitHolds == Init => IInv
<1> SUFFICES ASSUME Init PROVE IInv
  OBVIOUS
<1>1. TypeInv /\ UnitInv
  BY SemAssumption, RWAssumption
     DEF Init, SemInit, TypeInv, TypeOK, UnitInv, Live, InSection, Nobody
<1>2. BoundInv
  <2>1. Inside = {}
    BY DEF Init, Inside, Section, InSection
  <2> QED
    BY <2>1, FS_EmptySet DEF Init, SemInit, BoundInv
<1> QED
  BY <1>1, <1>2 DEF IInv

(* The processes in the section are counted.                               *)
LEMMA InsideCount == IsFiniteSet(Inside) /\ Cardinality(Inside) \in Nat
<1>1. Inside \subseteq Process
  BY DEF Inside, Section
<1> QED
  BY <1>1, RWAssumption, FS_Subset, FS_CardinalityType

(* The types, whoever moves.                                               *)
LEMMA ExitTypes ==
    ASSUME TypeInv, NEW p \in Process, NEW how \in {"off", "not_same"}, Leave(p, how),
           ended' \in 0 .. MaxKill
    PROVE  TypeInv'
<1> USE DEF TypeInv, TypeOK
<1>1. semadj[p] \in Int /\ semval \in Nat
  OBVIOUS
<1>2. semval' \in Nat /\ semadj' \in [Process -> Int] /\ UNCHANGED <<semid, setvals>>
  BY <1>1 DEF Leave, SemExit
<1>3. /\ pc' = [pc EXCEPT ![p] = how] /\ id' = [id EXCEPT ![p] = 0] /\ c1' = [c1 EXCEPT ![p] = 0]
      /\ file' = file
  BY DEF Leave
<1>4. pc' \in [Process -> Live \cup {"off", "not_same"}]
  BY <1>3
<1>5. id' \in [Process -> 0 .. MaxSemRmid] /\ c1' \in [Process -> 0 .. LOOP_COUNT]
  BY <1>3, SemAssumption, RWAssumption
<1>6. ASSUME NEW q \in Process, pc'[q] \in InSection \cup {"dec"} PROVE c1'[q] < LOOP_COUNT
  BY <1>3, <1>6 DEF InSection
<1> QED
  BY <1>2, <1>3, <1>4, <1>5, <1>6

LEMMA MoveTypes ==
    ASSUME TypeInv, NEW p \in Process,
           Start(p) \/ Dec(p) \/ OpenFails(p) \/ Write(p) \/ ReadSame(p) \/ Inc(p)
    PROVE  TypeInv'
<1> USE DEF TypeInv, TypeOK
<1>1. CASE Start(p)
  BY <1>1, RWAssumption DEF Start, semVars, Live, InSection
<1>2. CASE Dec(p)
  BY <1>2 DEF Dec, SemDec, Live, InSection
<1>3. CASE Write(p)
  <2>1. c1[p] \in 0 .. (LOOP_COUNT - 1)
    BY <1>3, RWAssumption DEF Write, InSection
  <2>2. file' \in -1 .. (LOOP_COUNT - 1)
    BY <1>3, <2>1, RWAssumption DEF Write
  <2> QED
    BY <1>3, <2>2 DEF Write, semVars, Live, InSection
<1>4. CASE ReadSame(p)
  BY <1>4 DEF ReadSame, semVars, Live, InSection
<1>6. CASE OpenFails(p)
  BY <1>6 DEF OpenFails, semVars, Live, InSection
<1>5. CASE Inc(p)
  <2>1. c1[p] \in Nat /\ c1[p] < LOOP_COUNT
    BY <1>5, RWAssumption DEF Inc, InSection
  <2>2. c1' \in [Process -> 0 .. LOOP_COUNT]
    BY <1>5, <2>1, RWAssumption DEF Inc
  <2>3. pc' \in [Process -> Live \cup {"off", "not_same"}]
    BY <1>5 DEF Inc, Live
  <2>4. semval' \in Nat /\ semadj' \in [Process -> Int] /\ UNCHANGED <<semid, setvals, id, file, ended>>
    BY <1>5 DEF Inc, SemInc
  <2>5. ASSUME NEW q \in Process, pc'[q] \in InSection \cup {"dec"} PROVE c1'[q] < LOOP_COUNT
    BY <1>5, <2>1, <2>5, RWAssumption DEF Inc, InSection
  <2> QED
    BY <2>2, <2>3, <2>4, <2>5
<1> QED
  BY <1>1, <1>2, <1>3, <1>4, <1>5, <1>6

LEMMA OperatorTypes == ASSUME TypeInv, Setval \/ Rmid PROVE TypeInv'
BY SemAssumption DEF TypeInv, TypeOK, Setval, Rmid, SemSetval, SemRmid, rwVars

(* The unit, while the operator has done no more than open the semaphore.  *)
LEMMA ExitUnit ==
    ASSUME TypeInv, UnitInv, setvals \in {0, 1}, NEW p \in Process, Leave(p, "off")
    PROVE  UnitInv'
<1> USE DEF TypeInv, TypeOK, UnitInv
<1>1. /\ pc' = [pc EXCEPT ![p] = "off"] /\ id' = [id EXCEPT ![p] = 0] /\ c1' = [c1 EXCEPT ![p] = 0]
      /\ file' = file /\ semadj' = [semadj EXCEPT ![p] = 0] /\ setvals' = setvals
  BY DEF Leave, SemExit
<1>2. CASE pc[p] \in InSection
  <2>1. semval = 0 /\ setvals = 1 /\ Only(p) /\ semadj[p] = 1
    BY <1>2 DEF Nobody, Only
  <2>2. semval' = 1 /\ Nobody'
    BY <1>1, <2>1 DEF Leave, SemExit, Nobody, Only, InSection
  <2> QED
    BY <1>1, <2>1, <2>2 DEF InSection
<1>3. CASE pc[p] \notin InSection
  <2>1. semval' = semval
    BY <1>3 DEF Leave, SemExit
  <2>2. Nobody => Nobody'
    BY <1>1 DEF Nobody, InSection
  <2>3. ASSUME NEW q \in Process, Only(q) PROVE Only(q)'
    BY <1>1, <1>3, <2>3 DEF Only, InSection
  <2> QED
    BY <1>1, <1>3, <2>1, <2>2, <2>3 DEF InSection
<1> QED
  BY <1>2, <1>3

LEMMA MoveUnit ==
    ASSUME TypeInv, UnitInv, OperatorOnce, NEW p \in Process,
           Start(p) \/ Dec(p) \/ OpenFails(p) \/ Write(p) \/ ReadSame(p) \/ Inc(p)
    PROVE  UnitInv'
<1> USE DEF TypeInv, TypeOK, UnitInv
<1>1. CASE Start(p)
  BY <1>1 DEF Start, semVars, Live, InSection, Nobody, Only, OperatorOnce
<1>2. CASE Dec(p)
  <2>1. semval = setvals /\ Nobody /\ semval = 1
    BY <1>2 DEF Dec, SemDec, OperatorOnce
  <2>2. /\ semval' = 0 /\ setvals' = 1 /\ pc' = [pc EXCEPT ![p] = "write"]
        /\ semadj' = [semadj EXCEPT ![p] = 1] /\ UNCHANGED <<id, c1, file>>
    <3>1. semadj[p] = 0
      BY <2>1 DEF Nobody
    <3>2. 1 - 1 = 0 /\ 0 + 1 = 1
      OBVIOUS
    <3> QED
      BY <1>2, <2>1, <3>1, <3>2 DEF Dec, SemDec
  <2>3. Only(p)'
    BY <2>1, <2>2 DEF Only, Nobody, InSection
  <2> QED
    BY <2>1, <2>2, <2>3 DEF Nobody, InSection
<1>3. CASE Write(p)
  <2>1. Only(p) /\ semval = 0 /\ setvals = 1
    BY <1>3 DEF Write, Nobody, Only, InSection
  <2>2. /\ pc' = [pc EXCEPT ![p] = "read"] /\ file' = c1[p]
        /\ UNCHANGED <<semval, semadj, setvals, id, c1>>
    BY <1>3 DEF Write, semVars
  <2>3. Only(p)'
    BY <2>1, <2>2 DEF Only, InSection
  <2> QED
    BY <2>1, <2>2, <2>3 DEF Only, InSection
<1>4. CASE ReadSame(p)
  <2>1. Only(p) /\ semval = 0 /\ setvals = 1
    BY <1>4 DEF ReadSame, Nobody, Only, InSection
  <2>2. /\ pc' = [pc EXCEPT ![p] = "inc"] /\ UNCHANGED <<semval, semadj, setvals, id, c1, file>>
    BY <1>4 DEF ReadSame, semVars
  <2>3. Only(p)'
    BY <2>1, <2>2 DEF Only, InSection
  <2> QED
    BY <2>1, <2>2, <2>3 DEF Only, InSection
<1>6. CASE OpenFails(p)
  <2>1. Only(p) /\ semval = 0 /\ setvals = 1
    BY <1>6 DEF OpenFails, Nobody, Only, InSection
  <2>2. pc' = [pc EXCEPT ![p] = "badfd"] /\ UNCHANGED <<semval, semadj, setvals, id, c1, file>>
    BY <1>6 DEF OpenFails, semVars
  <2>3. Only(p)'
    BY <2>1, <2>2 DEF Only, InSection
  <2> QED
    BY <2>1, <2>2, <2>3 DEF Only, InSection
<1>5. CASE Inc(p)
  <2>1. Only(p) /\ semval = 0 /\ setvals = 1 /\ semadj[p] = 1
    BY <1>5 DEF Inc, Nobody, Only, InSection
  <2>2. PICK to \in {"dec", "return"} : pc' = [pc EXCEPT ![p] = to]
    BY <1>5 DEF Inc
  <2>3. /\ semval' = 1 /\ semadj' = [semadj EXCEPT ![p] = 0]
        /\ c1' = [c1 EXCEPT ![p] = c1[p] + 1] /\ UNCHANGED <<setvals, id, file>>
    BY <1>5, <2>1 DEF Inc, SemInc
  <2>4. Nobody'
    BY <2>1, <2>2 DEF Only, Nobody, InSection
  <2> QED
    BY <2>1, <2>2, <2>3, <2>4 DEF Only, Nobody, InSection
<1> QED
  BY <1>1, <1>2, <1>3, <1>4, <1>5, <1>6

(* Who holds a unit, and how many units there are.                         *)
LEMMA MoveBound ==
    ASSUME TypeInv, BoundInv, NEW p \in Process,
           Start(p) \/ Dec(p) \/ OpenFails(p) \/ Write(p) \/ ReadSame(p) \/ Inc(p)
    PROVE  BoundInv'
<1> USE DEF TypeInv, TypeOK, BoundInv
<1>1. CASE Start(p) \/ OpenFails(p) \/ Write(p) \/ ReadSame(p)
  <2>1. UNCHANGED <<semval, semadj, semid, setvals>>
    BY <1>1 DEF Start, OpenFails, Write, ReadSame, semVars
  <2>2. Inside' = Inside
    BY <1>1, <2>1 DEF Start, OpenFails, Write, ReadSame, Inside, Section, Live, InSection
  <2>3. \A q \in Process : id'[q] <= semid
    BY <1>1 DEF Start, OpenFails, Write, ReadSame
  <2> QED
    BY <2>1, <2>2, <2>3
<1>2. CASE Dec(p)
  <2>1. id[p] = semid /\ p \notin Inside
    BY <1>2 DEF Dec, SemDec, Inside, Section, InSection
  <2>2. /\ semval' = semval - 1 /\ semadj' = [semadj EXCEPT ![p] = @ + 1]
        /\ pc' = [pc EXCEPT ![p] = "write"] /\ UNCHANGED <<id, semid, setvals>>
    BY <1>2 DEF Dec, SemDec
  <2>3. Inside' = Inside \cup {p}
    BY <2>1, <2>2 DEF Inside, Section, InSection
  <2>4. Cardinality(Inside') = Cardinality(Inside) + 1
    BY <2>1, <2>3, InsideCount, FS_AddElement
  <2>5. ASSUME NEW q \in Process PROVE semadj'[q] <= IF q \in Inside' THEN 1 ELSE 0
    BY <2>1, <2>2, <2>3
  <2> QED
    BY <2>2, <2>4, <2>5, InsideCount
<1>3. CASE Inc(p)
  <2>1. id[p] = semid /\ p \in Inside
    BY <1>3 DEF Inc, SemInc, Inside, Section, InSection
  <2>2. /\ semval' = semval + 1 /\ semadj' = [semadj EXCEPT ![p] = @ - 1]
        /\ UNCHANGED <<id, semid, setvals>>
    BY <1>3 DEF Inc, SemInc
  <2>3. Inside' = Inside \ {p}
    BY <1>3, <2>2 DEF Inc, Inside, Section, InSection
  <2>4. Cardinality(Inside') = Cardinality(Inside) - 1
    BY <2>1, <2>3, InsideCount, FS_RemoveElement
  <2>5. ASSUME NEW q \in Process PROVE semadj'[q] <= IF q \in Inside' THEN 1 ELSE 0
    BY <2>1, <2>2, <2>3
  <2> QED
    BY <2>2, <2>4, <2>5, InsideCount
<1> QED
  BY <1>1, <1>2, <1>3

LEMMA ExitBound ==
    ASSUME TypeInv, BoundInv, NEW p \in Process, NEW how \in {"off", "not_same"}, Leave(p, how)
    PROVE  BoundInv'
<1> USE DEF TypeInv, TypeOK, BoundInv
<1>1. /\ pc' = [pc EXCEPT ![p] = how] /\ id' = [id EXCEPT ![p] = 0]
      /\ semval' = IF semval + semadj[p] >= 0 THEN semval + semadj[p] ELSE 0
      /\ semadj' = [semadj EXCEPT ![p] = 0] /\ UNCHANGED <<semid, setvals>>
  BY DEF Leave, SemExit
<1>2. Inside' = Inside \ {p}
  BY <1>1 DEF Inside, Section, InSection
<1>3. Cardinality(Inside') = IF p \in Inside THEN Cardinality(Inside) - 1 ELSE Cardinality(Inside)
  BY <1>2, InsideCount, FS_RemoveElement
<1>4. semval' + Cardinality(Inside') <= semval + Cardinality(Inside)
  BY <1>1, <1>3, InsideCount
<1>5. ASSUME NEW q \in Process PROVE semadj'[q] <= IF q \in Inside' THEN 1 ELSE 0
  BY <1>1, <1>2
<1>6. \A q \in Process : id'[q] <= semid'
  BY <1>1
<1>7. semval' \in Int /\ Cardinality(Inside') \in Int
  BY <1>1, <1>3, InsideCount
<1> QED
  BY <1>1, <1>4, <1>5, <1>6, <1>7, InsideCount

LEMMA OperatorBound == ASSUME TypeInv, BoundInv, Setval \/ Rmid PROVE BoundInv'
<1> USE DEF TypeInv, TypeOK, BoundInv
<1>1. CASE Setval
  <2>1. Inside' = Inside
    BY <1>1 DEF Setval, SemSetval, rwVars, Inside, Section
  <2> QED
    BY <1>1, <2>1, InsideCount DEF Setval, SemSetval, rwVars
<1>2. CASE Rmid
  <2>1. Inside' = {}
    BY <1>2 DEF Rmid, SemRmid, rwVars, Inside, Section
  <2> QED
    BY <1>2, <2>1, FS_EmptySet DEF Rmid, SemRmid, rwVars
<1> QED
  BY <1>1, <1>2

LEMMA StepHolds == IInv /\ [Next]_vars => IInv'
<1> SUFFICES ASSUME IInv, [Next]_vars PROVE IInv'
  OBVIOUS
<1> USE DEF IInv
<1>1. ASSUME NEW p \in Process, Start(p) \/ Dec(p) \/ OpenFails(p) \/ Write(p) \/ ReadSame(p) \/ Inc(p) PROVE IInv'
  <2>1. OperatorOnce' => OperatorOnce
    BY <1>1 DEF OperatorOnce, Start, Dec, SemDec, OpenFails, Write, ReadSame, Inc, SemInc, semVars
  <2> QED
    BY <1>1, <2>1, MoveTypes, MoveBound, MoveUnit
<1>2. ASSUME NEW p \in Process, Return(p) \/ BadFile(p) \/ Error(p) \/ Die(p) PROVE IInv'
  <2>1. Leave(p, "off") /\ ended' \in 0 .. MaxKill
    BY <1>2, RWAssumption DEF Return, BadFile, Error, Die, TypeInv, TypeOK
  <2>2. UNCHANGED <<semid, setvals>>
    BY <2>1 DEF Leave, SemExit
  <2>3. OperatorOnce' => OperatorOnce /\ setvals \in {0, 1}
    BY <2>2 DEF OperatorOnce, TypeInv, TypeOK
  <2> QED
    BY <2>1, <2>3, ExitTypes, ExitBound, ExitUnit
<1>3. ASSUME NEW p \in Process, ReadNotSame(p) PROVE IInv'
  <2>1. UNCHANGED <<semid, setvals>> /\ ended' \in 0 .. MaxKill
    BY <1>3 DEF ReadNotSame, Leave, SemExit, TypeInv, TypeOK
  <2>2. ~ OperatorOnce'
    BY <1>3, <2>1 DEF ReadNotSame, UnitInv, OperatorOnce
  <2> QED
    BY <1>3, <2>1, <2>2, ExitTypes, ExitBound DEF ReadNotSame
<1>4. CASE Setval
  <2>1. OperatorOnce' => OperatorOnce /\ setvals = 0
    BY <1>4 DEF Setval, SemSetval, OperatorOnce, TypeInv, TypeOK
  <2>2. OperatorOnce /\ setvals = 0 => UnitInv'
    BY <1>4 DEF Setval, SemSetval, rwVars, UnitInv, Nobody
  <2> QED
    BY <1>4, <2>1, <2>2, OperatorTypes, OperatorBound
<1>5. CASE Rmid
  <2>1. ~ OperatorOnce'
    BY <1>5 DEF Rmid, SemRmid, OperatorOnce, TypeInv, TypeOK
  <2> QED
    BY <1>5, <2>1, OperatorTypes, OperatorBound
<1>6. CASE UNCHANGED vars
  BY <1>6 DEF vars, semVars, rwVars, TypeInv, TypeOK, BoundInv, Inside, Section, UnitInv,
              OperatorOnce, Nobody, Only
<1> QED
  BY <1>1, <1>2, <1>3, <1>4, <1>5, <1>6 DEF Next, Step

THEOREM RWInvariant == Spec => []IInv
BY InitHolds, StepHolds, PTL DEF Spec

(* Types and bounds hold whatever is killed, opened again or removed: the  *)
(* value of the semaphore never goes below 0.                              *)
THEOREM RWTypeOK == Spec => []TypeOK
<1>1. IInv => TypeOK
  BY DEF IInv, TypeInv
<1> QED
  BY <1>1, RWInvariant, PTL

(* One unit, in the semaphore or with one process, for any number of       *)
(* processes and kills (rw.c:44-93); and one more at the most for each     *)
(* SETVAL of an operator who does not wait for the section to be empty.    *)
THEOREM RWUnitConserved == Spec => []UnitConserved
<1>1. IInv => UnitConserved
  <2> SUFFICES ASSUME IInv, OperatorOnce PROVE semval + Cardinality(Section) = setvals
    BY DEF UnitConserved, IInv, BoundInv
  <2> USE DEF IInv, UnitInv, TypeInv, TypeOK
  <2>1. CASE semval = setvals /\ Nobody
    <3>1. Section = {}
      BY <2>1 DEF Section, Nobody
    <3> QED
      BY <2>1, <3>1, FS_EmptySet
  <2>2. CASE semval = 0 /\ setvals = 1 /\ \E p \in Process : Only(p)
    <3>1. PICK p \in Process : Section = {p}
      BY <2>2 DEF Section, Only
    <3>2. Cardinality(Section) = 1
      BY <3>1, FS_Singleton
    <3> QED
      BY <2>2, <3>2
  <2> QED
    BY <2>1, <2>2
<1> QED
  BY <1>1, RWInvariant, PTL

(* Nobody reads back a letter another process wrote (rw.c:84).             *)
THEOREM RWNeverNotSame == Spec => []NeverNotSame
<1>1. IInv => NeverNotSame
  BY DEF IInv, UnitInv, NeverNotSame
<1> QED
  BY <1>1, RWInvariant, PTL
=============================================================================
