CONSTANTS
    MaxDepth = 3
    MaxQueue = 3
    MaxDrags = 1
    MaxPostFailures = 1
SPECIFICATION Spec
INVARIANTS
    NoUnrequestedClose
