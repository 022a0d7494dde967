SPECIFICATION StagingSpec
CONSTANTS
  MaxLines = 5
  Context = 1
INVARIANTS
  AppliesAsChosen
  WholeIsReached
  UndoneByMirror
  OrderNeverTurned
CHECK_DEADLOCK FALSE
