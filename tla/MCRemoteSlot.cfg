SPECIFICATION FairSpec
CONSTANTS
  A = A
  B = B
  Repos <- MCRepos
  LastRepository = A
  MaxWorkers = 3
  MaxPrefetches = 2
INVARIANTS
  OneTransfer
  TransfersHeld
  StoppedStaysStopped
  RetryIsOwn
  EnabledMeansFree
PROPERTIES
  SlotFreed
CHECK_DEADLOCK FALSE
