CONSTANTS
  Unknown = Unknown
  None = None
  MaxU64 = 6
  Bounds <- MCBounds
  Later <- Same
  Snapshots <- Grouped
  Requests <- Searched

SPECIFICATION VSpec

INVARIANT
  DomainDisjoint

CHECK_DEADLOCK FALSE
