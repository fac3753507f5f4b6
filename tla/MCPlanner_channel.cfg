CONSTANTS
  Unknown = Unknown
  None = None
  MaxU64 = 6
  Bounds <- MCBounds
  Later <- Same
  Snapshots <- Plain
  Requests <- Searched

SPECIFICATION VSpec

INVARIANT
  ChannelConstant

CHECK_DEADLOCK FALSE
