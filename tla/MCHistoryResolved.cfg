SPECIFICATION Spec
CONSTANTS
  Paths = {"p"}
  Past <- MCPast
  Tips <- MCTips
  Upstream <- MCUpstream
  Starts <- MCStarts
  Sources = {"main"}
  NewName = "new"
  Picked = {2}
  MaxJobs = 2
PROPERTIES
  ResolvedAsSeen
