CONSTANTS
  T = {1, 2, 3}
  max = 9
  MaxEdges = 3
  MaxCopies = 2
  AlwaysInPlace = FALSE
SPECIFICATION ContainersSpec
INVARIANTS Shape SearchesComplete
PROPERTIES AdjImplements EdgeListImplements CSRImplements
