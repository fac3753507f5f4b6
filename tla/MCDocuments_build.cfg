SPECIFICATION MCSpec
CONSTANTS
  Catalogue <- MCCatalogue
  Options <- MCOptions
  MaxPerKind = 3
  MaxDomains = 2
  MaxRecords = 5
  MaxToken = 6
  MaxNumber = 2
  IdOrder <- MCIdOrder
  Scalars <- MCScalars
  MaxSlots = 2
  Words = 2
  WordBits = 4
  DigitBits = 2
  Samples <- MCSamples
  Scraps <- MCScraps
INVARIANTS
  
  CompleteIsWhole
  FrontierMarked
  OrderLeavesNoTrace
  ReadsBack
  SealHolds
  DigestTells
  ContributionCovers
PROPERTY
  MasksAgree
CHECK_DEADLOCK FALSE
