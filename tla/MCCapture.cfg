SPECIFICATION FairSpec
CONSTANTS
    XRes = 3
    YRes = 3
    Geometry <- MCGeometry
    Picture <- MCPicture
    Position <- MCPosition
    Counts <- MCCounts
    Granted <- MCGranted
    None = None
    MaxFrame = 3
INVARIANTS
    TypeOK
    ShownIsFrame
PROPERTIES
    Ends
