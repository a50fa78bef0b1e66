SPECIFICATION Spec
CONSTANTS
  Ranks = {0, 1}
  DomainEntities = {"d0", "d2"}
  RangeEntities = {"e0", "e1"}
  DomainOwner <- MCDomainOwner2
  RangeOwner <- MCRangeOwner2
  DomainShapes <- MCDomainShapes2
  RangeShapes <- MCRangeShapes2
  Coords = {0, 1, 2, 3, 4, 5}
  TolNum = 1
  TolDen = 2
  SafeTolNum = 2
  KNN = 1
  EmptyDomains = FALSE
  TrackMissed = {TRUE}
  MaxSearches = 2
INVARIANTS
  MissedOfLastSearch
CHECK_DEADLOCK FALSE
