SPECIFICATION Spec
CONSTANTS
  Ranks = {0, 1}
  DomainEntities = {"d0", "d1", "d2"}
  RangeEntities = {"e0", "e1", "e2"}
  DomainOwner <- MCDomainOwner
  RangeOwner <- MCRangeOwner
  DomainShapes <- MCDomainShapes
  RangeShapes <- MCRangeShapes
  Coords = {0, 1, 2, 3, 4, 5}
  TolNum = 1
  TolDen = 2
  SafeTolNum = 2
  KNN = 2
  EmptyDomains = FALSE
  TrackMissed = {TRUE}
  MaxSearches = 1
INVARIANTS
  TypeOK
  SearchSound
  SearchComplete
  AllAccountedFor
CHECK_DEADLOCK FALSE
