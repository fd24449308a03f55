CONSTANTS
    MaxDepth = 2
    MaxQueue = 2
    MaxDrags = 1
    MaxPostFailures = 1
SPECIFICATION FairSpec
INVARIANTS
    GatesMatchStack
    TeardownOnClearStack
    CloseKept
PROPERTIES
    DiskTellsTheEnd
    UserCloseResolves
