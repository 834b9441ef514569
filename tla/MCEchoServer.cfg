SPECIFICATION FairSpec
CONSTANTS
    Client = {c1, c2}
    Main = main
    Process = {main}
    None = none
    Backlog = 1
    Program = {"tcp", "timeout", "multi", "thread"}
    Bytes = 2
    Cap = 1
INVARIANTS
    TypeOK
    WholeEcho
PROPERTIES
    Served
CHECK_DEADLOCK FALSE
