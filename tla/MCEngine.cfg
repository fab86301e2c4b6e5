CONSTANTS
  MaxCommands = 3
  InitOnGameThread = FALSE
SPECIFICATION FairSpec
INVARIANTS
  OnlyIfStarted
  ConfigIsLastAccepted
  AcksTruthful
  NoneUnacked
PROPERTIES
  ConfigAcked
  StartRuns
CHECK_DEADLOCK FALSE
