SPECIFICATION FairSpec
CONSTANTS
  s1 = s1
  s2 = s2
  k1 = k1
  k2 = k2
  Steerers = {s1, s2}
  Cancellers = {k1, k2}
  Transports = {"cli", "foreground", "tui"}
  Nobody = Nobody
  MaxFaults = 1
INVARIANTS OneCancel TakenInOrder
PROPERTIES NothingAfterTheEnd EveryCallReturns
CHECK_DEADLOCK FALSE
