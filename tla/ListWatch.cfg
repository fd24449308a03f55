SPECIFICATION FairSpec
CONSTANTS
  LastName = 3
  Untouched = {3}
  Kinds = {"directory", "namespace"}
  ReturnsAt = {"idle", "look"}
  BatchRows = 2
  QueuedBatches = 2
  KernelRecords = 2
  MaxChanges = 2
  MaxFaults = 1
  MaxRefreshes = 1
INVARIANTS
    NeverSilentlyStale
    RowsInOrder
    SelectionIsTheUsers
    OnlyFaultsEndTheWatch
PROPERTIES
    UntouchedRowsStay
    SettlesAtLast
CHECK_DEADLOCK FALSE
