SPECIFICATION FairSpec
CONSTANTS
    max = 8
    Signal = 4
INVARIANTS
    TypeOK
    CountsAddUp
    SecondWaits
PROPERTIES
    Terminates
CHECK_DEADLOCK FALSE
