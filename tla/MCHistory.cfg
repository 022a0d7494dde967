SPECIFICATION Spec
CONSTANTS
  Paths = {"p"}
  Past <- MCPast
  Tips <- MCTips
  Upstream <- MCUpstream
  Starts <- MCStarts
  Sources = {"main", "topic"}
  NewName = "new"
  Picked = {2}
  MaxJobs = 3
INVARIANTS
  NothingLost
  ViewIsTrue
PROPERTIES
  SkippedAsAsked
  MergeCommitJoins
  PullIntoItsOwn
