SPECIFICATION FairSpec
CONSTANTS
  A = A
  B = B
  Repos <- MCRepos
  LastRepository = A
  MaxJobs = 2
  MaxQueues = 3
INVARIANTS
  FlagIsOwed
  FreshWhenQuiet
PROPERTIES
  FlagRedeemed
CHECK_DEADLOCK FALSE
