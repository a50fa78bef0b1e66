SPECIFICATION CloudSpec
CONSTANTS
  Radius = 2
  NumNeighbors = 2
  MinPoints = 2
  RingPoints = 2
  Guard = 3
  RowChoice = 3
  Ranks = {0, 1}
  Sources = {"a", "b", "c", "d"}
  Targets = {"t", "u"}
  Applications <- MCNeighborsApart
  FieldValues <- MCFieldValues
  Reconstructions <- MCReconstructions
  Sigma = 2
INVARIANT
  NeighborsFoundInParallel
CHECK_DEADLOCK FALSE
