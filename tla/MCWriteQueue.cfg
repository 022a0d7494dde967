SPECIFICATION FairSpec
CONSTANT MaxJobs = 4
INVARIANTS
  IdleNotLost
PROPERTIES
  IdleIsQuiet
  ImplementsSerial
  EveryJobReported
CHECK_DEADLOCK FALSE
