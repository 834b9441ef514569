SPECIFICATION FairSpec
CONSTANTS
    Process = {p1, p2, p3}
    LOOP_COUNT = 2
    MaxKill = 1
    MaxSetval = 2
    MaxSemRmid = 1
INVARIANTS
    TypeOK
    UnitConserved
    NeverNotSame
PROPERTIES
    Finishes
CHECK_DEADLOCK FALSE
