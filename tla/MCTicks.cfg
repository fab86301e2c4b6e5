CONSTANTS
  ConfigTick <- MCConfigTick
  DefaultTick <- MCDefaultTick
  Develop = TRUE
  Modulus = 16
  PerSecond = 2
  MaxTime = 5
  MaxEdits = 2
SPECIFICATION FairTicksSpec
PROPERTIES
  NoEarlyFiring
  LoadedOnce
  EditReachesLua
