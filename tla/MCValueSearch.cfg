CONSTANTS
  Tables <- MCTables
  Keys <- MCKeys
SPECIFICATION ValueSpec
INVARIANTS
  FindsAllButLast
CHECK_DEADLOCK FALSE
