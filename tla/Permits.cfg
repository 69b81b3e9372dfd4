SPECIFICATION FairSpec
CONSTANTS
  w1 = w1
  w2 = w2
  w3 = w3
  Workers = {w1, w2, w3}
  MaxConcurrent = 1
  Free = Free
  MaxFaults = 1
INVARIANT LivingChildIsAccountedFor
PROPERTY PermitsComeBack
CHECK_DEADLOCK FALSE
