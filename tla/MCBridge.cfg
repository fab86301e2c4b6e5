CONSTANTS
  MaxRuns = 2
  MaxSignals = 1
  App = {game}
  Thread = {t1, t2}
SPECIFICATION LoaderSpec
INVARIANTS
  LeftAsFound
  LatchAgrees
  ReadWithPayload
PROPERTIES
  Ends
  Loads
CHECK_DEADLOCK FALSE
