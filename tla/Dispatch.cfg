SPECIFICATION FairSpec
CONSTANTS
  g1 = g1
  g2 = g2
  c1 = c1
  c2 = c2
  c3 = c3
  s1 = s1
  s2 = s2
  lane = lane
  other = other
  ui = ui
  work = work
  chore = chore
  Calls = {c1, c2, c3}
  Gateways = {g1, g2}
  Scenarios <- MCScenarios
  Continuation <- MCContinuation
  MaxAsync = 1
  None = None
  Nobody = Nobody
  MaxFaults = 1
INVARIANTS NoDuplicateWork CapacityHolds LaunchedOrFinal
PROPERTIES ReusedRunsAreDecided EveryCallIsAnswered
CHECK_DEADLOCK FALSE
