SPECIFICATION Spec
CONSTANTS
  Panes = {1}
  MaxRequests = 3
  Namespaces = {2}
  QueuedBatches = 2
  Live = 1
  Reserve = 1
INVARIANTS
    ThreadsAccounted
    LoadingIsOwed
PROPERTIES
    AnswersInOrder
    NoWakeUpMissed
CHECK_DEADLOCK FALSE
