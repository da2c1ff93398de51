CONSTANTS
  num_threads = 3
  Vertices = {0, 1, 2, 3, 4}
  start = 0
  Graphs <- LayeredGraphs
  Versions = {1, 2, 3}
  Cuts = {0, 1, 11, 16}
  Garbage = {0, 5}
  NoFile = NoFile
SPECIFICATION BenchmarkSpec
INVARIANTS SharesAreCurrent SearchesTheBuiltGraph
PROPERTIES ImplementsBreadthFirst SearchEnds
