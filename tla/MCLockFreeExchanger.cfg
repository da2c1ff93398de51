CONSTANTS
  t1 = t1
  t2 = t2
  t3 = t3
  s1 = s1
  NoItem = NoItem
  Threads = {t1, t2, t3}
  Slots = {s1}
  T_BITS = 1
  BITS_POS = 2
  Survivors = {t1}
SPECIFICATION SurvivorSpec
INVARIANTS SlotOwnership NoInvalidState
PROPERTIES ImplementsExchanger VisitReturns
