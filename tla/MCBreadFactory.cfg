SPECIFICATION FairSpec
CONSTANTS
    NumMakers = 2
    NUM_OF_BREAD = 6
    BoxSize = 2
    NUM_OF_BOX = 3
INVARIANTS
    TypeOK
    StockOK
    NobodyLeavesEarly
PROPERTIES
    EndsUnlessStarved
    ImplementsFactory
CHECK_DEADLOCK FALSE
