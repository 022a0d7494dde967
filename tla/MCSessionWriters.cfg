SPECIFICATION Spec
CONSTANTS
  A = A
  B = B
  Repos <- MCRepos
  LastRepository = A
  MaxJobs = 2
  MaxQueues = 3
INVARIANTS
  OneWriterPerRepo
CHECK_DEADLOCK FALSE
