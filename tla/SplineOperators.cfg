SPECIFICATION SplineSpec
CONSTANTS
  Radius = 2
  NumNeighbors = 2
  MinPoints = 2
  RingPoints = 2
  Guard = 3
  RowChoice = 3
  Ranks = {0, 1}
  Sources = {0, 1, 2}
  Targets = {0, 1}
  Applications <- MCApplications
  Basis <- MCBasis
  Unknowns <- MCUnknowns
INVARIANTS
  CoefficientsAreGlobal
  EvaluationIsGlobal
PROPERTY
  OperatorsReturn
CHECK_DEADLOCK FALSE
