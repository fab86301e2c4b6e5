CONSTANT
  TreeSet <- MCTrees
SPECIFICATION BothSpec
INVARIANTS
  InKeyOrder
  EachOnce
CHECK_DEADLOCK FALSE
