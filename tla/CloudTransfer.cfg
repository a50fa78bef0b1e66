SPECIFICATION CloudSpec
CONSTANTS
  Radius = 2
  NumNeighbors = 2
  MinPoints = 2
  RingPoints = 2
  Guard = 3
  RowChoice = 3
  Ranks = {0, 1}
  Sources = {"a", "b", "c", "d"}
  Targets = {"t", "u"}
  Applications <- MCApplications
  FieldValues <- MCFieldValues
  Reconstructions <- MCReconstructions
  Sigma = 2
INVARIANTS
  TransferTypeOK
  NoSourceLost
  StencilIsGlobal
  ChildrenOnce
  CoveredCloudsSetUp
  UniformFieldStays
PROPERTIES
  CroppedIntoRow
  CallsReturn
CHECK_DEADLOCK FALSE
