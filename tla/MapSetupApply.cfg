SPECIFICATION MapSpec
CONSTANTS
  Ranks = {0, 1}
  DomainEntities = {"d0", "d1", "d2"}
  RangeEntities <- MCPoints
  DomainOwner <- MCDomainOwner
  RangeOwner <- MCPointOwner
  DomainShapes <- MCDomainShapes
  RangeShapes <- MCRangeShapes
  Coords = {0, 1, 2, 3, 4, 5}
  TolNum = 0
  TolDen = 1
  SafeTolNum = 0
  KNN = 2
  EmptyDomains = TRUE
  TrackMissed = {TRUE}
  MaxSearches = 1
  SourceComms <- MCSourceComms
  TargetComms <- MCTargetComms
  SourceIsMesh = {FALSE, TRUE}
  MaxPoints = 2
  FieldDims <- MCDims
INVARIANTS
  MapTypeOK
  OrdinalsUnique
  EvaluatedOnce
  MissedAreZero
  DimensionsAgree
PROPERTIES
  MapReturns
CHECK_DEADLOCK FALSE
