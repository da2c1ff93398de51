CONSTANTS
  t1 = t1
  t2 = t2
  t3 = t3
  n1 = n1
  n2 = n2
  n3 = n3
  n4 = n4
  n5 = n5
  Null = Null
  SENTINEL_BEGIN = 0
  SENTINEL_END = 9
  Threads = {t1, t2, t3}
  Values = {1, 2}
  Nodes = {n1, n2, n3, n4, n5}
SYMMETRY Symmetry
SPECIFICATION PhasesSpec

PROPERTY ImplementsSet
