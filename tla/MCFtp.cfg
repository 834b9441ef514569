SPECIFICATION FtpFairSpec
CONSTANTS
    c1 = c1
    c2 = c2
    Client = {c1, c2}
    Main = main
    Process = {main, c1, c2}
    None = none
    Backlog = 1
    MaxKill = 1
    File = {"f", "g"}
    Absent = {"g"}
    Rand <- Ports
    Retry = 2
    FdMax = 5
    Inherited = {0, 4}
    Script <- Lines
    MaxBusy = 1
INVARIANTS
    FtpTypeOK
    DescriptorsAccounted
    OwnData
PROPERTIES
    LineIsAnswered
CHECK_DEADLOCK FALSE
