CONSTANTS
  Size = 8
  Maps <- MCMaps
SPECIFICATION SearchSpec
INVARIANTS
  FindsIfThere
CHECK_DEADLOCK FALSE
