SPECIFICATION FairSpec
CONSTANTS
    LastRow = 2
    WindowRows = 2
    Keys = {"name", "p", "q"}
    Interest = 2
    IconResults = 1
    Capacity = 2
    MergeSteps = 2
    MaxDisturbances = 2
INVARIANTS
    SlotsMatchKeys
    NothingOlderThanItsRow
    DoneMeansSorted
    OwedIsComing
PROPERTIES
    ComesToRest
CHECK_DEADLOCK FALSE
