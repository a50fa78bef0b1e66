SPECIFICATION ProjectionSpec
CONSTANTS
  Ranks = {0, 1}
  DomainEntities = {"d0", "d1", "d2"}
  RangeEntities = {0, 1, 2}
  DomainOwner <- MCDomainOwner
  RangeOwner <- MCRangeOwner
  DomainShapes <- MCDomainShapes
  RangeShapes <- MCRangeShapes
  Coords = {0, 1, 2, 3}
  TolNum = 0
  TolDen = 1
  SafeTolNum = 0
  KNN = 2
  EmptyDomains = FALSE
  TrackMissed = {TRUE}
  MaxSearches = 1
  EntitySet <- MCEntitySet
  CellOwner <- MCCellOwner
  SelectedCells = {"A", "B"}
  CellSupports <- MCCellSupports
  CellRule <- MCCellRule
  SupportOwner <- MCSupportOwner
  DomainSupports <- MCDomainSupports
  DomainShape <- MCDomainShape
  CellUnity = 2
  DomainUnity = 2
INVARIANTS
  MassIsQuadrature
  PointsFound
  PairsKnown
  CouplingIsQuadrature
  ConstantsProjected
PROPERTY
  SetupReturns
CHECK_DEADLOCK FALSE
