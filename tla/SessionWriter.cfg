CONSTANTS
    Delay = 2
    MaxDirtyAge = 5
SPECIFICATION WriterSpec
INVARIANTS
    DirtyIsOwed
PROPERTIES
    DirtyIsSaved
