CONSTANTS
  t1 = t1
  t2 = t2
  t3 = t3
  v1 = v1
  v2 = v2
  v3 = v3
  n1 = n1
  n2 = n2
  n3 = n3
  Null = Null
  NoValue = NoValue
  PopToken = PopToken
  Threads = {t1, t2, t3}
  Values = {v1, v2, v3}
  Nodes = {n1, n2, n3}
  Survivors = {t1}
SPECIFICATION SurvivorSpec
INVARIANTS ChainShape NoReuse
PROPERTIES ImplementsStack NonBlocking
