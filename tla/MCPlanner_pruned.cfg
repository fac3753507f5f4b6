CONSTANTS
  Unknown = Unknown
  None = None
  MaxU64 = 6
  Bounds <- MCBounds
  Later <- Same
  Snapshots <- Pruned
  Requests <- Searched

SPECIFICATION VSpec

INVARIANT
  PruningKeepsRoutes

CHECK_DEADLOCK FALSE
