CONSTANTS
    PaneSlots = 2
    MaxCreated = 2
    MaxPosted = 2
    MaxNested = 2
SPECIFICATION Spec
INVARIANTS
    BoundPanesLive
    PassAndPanesAgree
PROPERTIES
    DeletesChosenGroup
