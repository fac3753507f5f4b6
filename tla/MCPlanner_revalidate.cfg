CONSTANTS
  Unknown = Unknown
  None = None
  MaxU64 = 6
  Bounds <- MCBounds
  Later <- MCLater
  Snapshots <- Switched
  Requests <- Searched

SPECIFICATION VSpec

INVARIANT
  DecisionsRederived

CHECK_DEADLOCK FALSE
