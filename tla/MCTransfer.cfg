SPECIFICATION FairSpec
CONSTANTS
  Orders <- MCOrders
  Found <- MCFound
  MaxWorkers = 2
  MaxSaves = 1
CHECK_DEADLOCK FALSE
INVARIANTS
  CancelReaches
  NoOrphan
  TrafficRecorded
  NoLeftover
PROPERTIES
  CleaningSpares
  EveryWorkerRetires
