SPECIFICATION OperatorSpec
CONSTANTS
  Ranks = {0, 1}
  DomainEntities = {"d0", "d1", "d2"}
  RangeEntities = {"e0", "e1"}
  DomainOwner <- MCDomainOwner
  RangeOwner <- MCRangeOwner
  DomainShapes <- MCDomainShapes
  RangeShapes <- MCRangeShapes
  Coords = {0, 1, 2, 3, 4, 5}
  TolNum = 1
  TolDen = 2
  SafeTolNum = 2
  KNN = 2
  EmptyDomains = FALSE
  TrackMissed = {FALSE, TRUE}
  MaxSearches = 1
  SupportOf <- MCSameIds
  KeepMissed = {FALSE, TRUE}
  FieldValues = {0, 6}
  RangeValue = 7
  MaxApplies = 2
INVARIANTS
  OperatorTypeOK
  MeanTransferred
  MissedKeepTheirData
CHECK_DEADLOCK FALSE
