SPECIFICATION Spec
CONSTANTS
  Paths <- MCPaths
  Past <- MCPast
  Start = 2
  Tips = {2, 3, 4}
  Picked = {1}
  Writes <- MCWrites
  MaxCommits = 5
  MaxWrites = 5
  MaxStash = 1
CHECK_DEADLOCK FALSE
INVARIANTS
  OnlyOwnChanges
PROPERTIES
  WorkKept
  StagedKept
  StashKept
  AbortRestores
