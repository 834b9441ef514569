SPECIFICATION FairSpec
CONSTANTS
    present = present
    absent = absent
    size = size
    NoFile = NoFile
    Junk = Junk
    MTYPE_C2S = MTYPE_C2S
    Pid = {p1, p2}
    Server = {s1, s2}
    Name = {present, absent}
    Stat <- MCStat
    Capacity = 3
    MaxRmid = 1
    MaxClientKill = 1
    MaxServerKill = 1
INVARIANTS
    TypeOK
    Conservation
    NoSendBlocks
    OwnAnswer
    TrueAnswer
PROPERTIES
    Answered
    ImplementsService
