SPECIFICATION FairSpec
CONSTANTS
    LastName = 3
    Given = {2, 3}
    Page = 2
    SetupCalls = 1
    MaxPending = 2
    QueuedBatches = 2
    MaxCommands = 2
    MaxEvents = 2
INVARIANTS
    NewFoldersStayLast
    EditOnItsRow
    CommitNamesItsItem
PROPERTIES
    EndsAsTheFolder
CHECK_DEADLOCK FALSE
