SPECIFICATION Spec
CONSTANTS
    Client = {c1, c2}
    Main = main
    Process = {main}
    None = none
    Backlog = 1
    Program = {"thread"}
    Bytes = 2
    Cap = 1
INVARIANTS
    EchoBack
CHECK_DEADLOCK FALSE
