SPECIFICATION Spec
CONSTANTS
  Ranks = {0, 1, 2}
  DomainEntities = {"d0", "d1", "d2"}
  RangeEntities = {"e0", "e1"}
  DomainOwner <- MCDomainOwner3
  RangeOwner <- MCRangeOwner2
  DomainShapes <- MCDomainShapes2
  RangeShapes <- MCRangeShapes3
  Coords = {0, 1, 2, 3, 4, 5}
  TolNum = 1
  TolDen = 2
  SafeTolNum = 2
  KNN = 1
  EmptyDomains = TRUE
  TrackMissed = {TRUE, FALSE}
  MaxSearches = 2
INVARIANTS
  OwnersCorrect
  SearchSound
  GraphAgreement
  MissedNotMapped
PROPERTIES
  SearchesReturn
  ImplementsPromise
CHECK_DEADLOCK FALSE
