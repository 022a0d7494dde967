SPECIFICATION Spec
CHECK_DEADLOCK FALSE
CONSTANTS
  Commits = 5
  Loaded = 5
  MaxParents = 3
  Palette = 3
INVARIANTS
  TellsHistory
  ColourKept
  RoomForAll
