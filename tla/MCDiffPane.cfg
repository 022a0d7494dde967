SPECIFICATION Spec
CONSTANTS
  A = A
  B = B
  c1 = c1
  p = p
  None = None
  Repos <- MCRepos
  Commits <- MCCommits
  Paths <- MCPaths
  LastRepository = A
  MaxRequests = 3
  MaxEdits = 1
  MaxJobs = 1
INVARIANTS
  LastAskedIsShown
  
  FreshAfterApply
PROPERTIES
  NeverOlder
CHECK_DEADLOCK FALSE
