CONSTANTS
  Unknown = Unknown
  None = None
  MaxU64 = 6
  Bounds <- MCBounds
  Later <- MCLater
  Snapshots <- MCSnapshots
  Requests <- MCRequests

SPECIFICATION VSpec

INVARIANTS
  LabelsExact
  RetainedIsPareto
  
  InfeasibleSound
  OptimalSound
  RebuildSucceeds
  PairwiseDisjoint
  
  

PROPERTY
  PlanReturns

CHECK_DEADLOCK FALSE
