CONSTANTS
  IntMax = 7
  Wide = 64
  Second = 4
  MaxKeep = 5
  None = None
  Games <- MCGames
SPECIFICATION Spec
INVARIANTS
  ReadyMeansReadable
  PointersLive
  NumbersTrue
CHECK_DEADLOCK FALSE
