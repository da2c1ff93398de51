CONSTANTS
  T = {1, 2, 3}
  max = 9
  MaxEdges = 3
  MaxCopies = 1
  AlwaysInPlace = TRUE
SPECIFICATION ContainersSpec
INVARIANT AdjacentMeansEdge
