SPECIFICATION CalSpec
CONSTANTS
    Client = {c1, c2}
    Calculator = {s1, s2}
    Op <- MCOp
    Width = 4
    MTYPE_C2S = 1
    MTYPE_S2C = 2
    Junk = Junk
    Capacity = 2
    MaxRmid = 1
    MaxClientKill = 1
    MaxServerKill = 1
INVARIANTS
    EquationsOnce
CHECK_DEADLOCK FALSE
