SPECIFICATION FairSpec
CONSTANTS
    Producer = {p1, p2}
    Consumer = {c1}
    Process = {p1, p2, c1}
    Time = {"t1", "t2"}
    TIMEOUT = 1
    MaxKill = 1
    MaxSetval = 1
    MaxSemRmid = 1
INVARIANTS
    TypeOK
    UnitConserved
    PrintedWhole
    ChecksumFailsOnlyAfterKill
PROPERTIES
    ConsumersEnd
CHECK_DEADLOCK FALSE
