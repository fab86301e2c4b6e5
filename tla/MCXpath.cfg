CONSTANTS
  top = top  a = a  b = b  c = c  nameX = nameX  clsA = clsA  clsB = clsB  nameD = nameD
  Node = {top, a, b, c}
  Top = top
  Kids <- MCKids
  Parent <- MCParent
  Name <- MCName
  Class <- MCClass
  Empty = Empty
  Dollar <- MCDollar
  Root = Root
  None = None
  Scenes <- MCScenes
  Routes <- MCRoutes
  MaxTrees = 2
  MaxHandles = 3
SPECIFICATION Spec
INVARIANTS
  OnlyAliasesDangle
  FoundIfThere
  FreshReachable
CHECK_DEADLOCK FALSE
