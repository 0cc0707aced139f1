CONSTANTS
  GRANULARITY_SECONDS = 2
  I64_MAX = 7
  Methods = {"GET", "POST"}
  Paths <- MCPaths
  Pieces <- MCPieces
  MaxPieces = 5
SPECIFICATION Spec
CHECK_DEADLOCK FALSE
INVARIANT TakesExactlyTheDocumented
