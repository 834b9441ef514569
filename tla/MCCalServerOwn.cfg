SPECIFICATION CalSpec
CONSTANTS
    Client = {c1, c2}
    Calculator = {s1}
    Op <- MCOp
    Width = 4
    MTYPE_C2S = 1
    MTYPE_S2C = 2
    Junk = Junk
    Capacity = 2
    MaxRmid = 0
    MaxClientKill = 0
    MaxServerKill = 0
INVARIANTS
    OwnEquation
CHECK_DEADLOCK FALSE
