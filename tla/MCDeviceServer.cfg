SPECIFICATION FairSpec
CONSTANTS
    c1 = c1
    c2 = c2
    Client = {c1, c2}
    Main = main
    Process = {main, c1, c2}
    None = none
    Backlog = 1
    Word = {1, 2}
    MaxAsk <- Asks
    MaxKill = 1
INVARIANTS
    TypeOK
    OwnConnection
PROPERTIES
    AskedIsAnswered
    ImplementsDevice
CHECK_DEADLOCK FALSE
