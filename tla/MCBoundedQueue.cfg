CONSTANTS
  p1 = p1
  p2 = p2
  c1 = c1
  c2 = c2
  v1 = v1
  v2 = v2
  n1 = n1
  n2 = n2
  n3 = n3
  Null = Null
  NoValue = NoValue
  Nobody = Nobody
  Threads = {p1, p2, c1, c2}
  Producers = {p1, p2}
  Values = {v1, v2}
  Nodes = {n1, n2, n3}
  Capacity = 1
  Twice = {p1, c1}
  MaxSpurious = 1
SPECIFICATION WorkSpec
INVARIANTS CapacityRespected NoUseAfterFree NoLostWakeup
PROPERTIES ImplementsFifo Termination
