SPECIFICATION Spec
CONSTANTS
  Paths <- MCPaths
  Past <- MCPastAbort
  Start = 2
  Tips = {2, 3, 4}
  Picked = {1}
  Writes <- MCWrites
  MaxCommits = 5
  MaxWrites = 3
  MaxStash = 1
CHECK_DEADLOCK FALSE
PROPERTIES
  AbortKeepsUnrelated
