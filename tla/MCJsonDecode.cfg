CONSTANTS
  Below = 1
  MaxTables = 4
  MaxCount = 2
SPECIFICATION Spec
INVARIANTS
  CountsAgree
  StoresInPlace
  Balanced
  HeightBound
CHECK_DEADLOCK FALSE
