CONSTANTS
  t1 = t1
  t2 = t2
  t3 = t3
  Null = Null
  NoValue = NoValue
  Threads = {t1, t2, t3}
  Values = {1, 2, 3}
  Nodes = {1, 2, 3}
  Survivors = {t1}
SPECIFICATION SurvivorSpec
INVARIANTS HeadTailOrder NoNullDereference
PROPERTIES ImplementsFifo NonBlocking
