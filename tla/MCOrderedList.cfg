CONSTANTS
  t1 = t1
  t2 = t2
  n1 = n1
  n2 = n2
  n3 = n3
  n4 = n4
  Null = Null
  SENTINEL_BEGIN = 0
  SENTINEL_END = 9
  Threads = {t1, t2}
  Values = {1, 2}
  Nodes = {n1, n2, n3, n4}
  Survivors = {t1}
SPECIFICATION SurvivorSpec
INVARIANTS Sorted EveryRemoveHasItsAdd
PROPERTIES RemovedFrozen NonBlocking
