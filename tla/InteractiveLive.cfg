SPECIFICATION FairSpec
CONSTANTS
  Steers = {s1}
  Cancel = k
  MaxWire = 2
  MaxFaults = 1
PROPERTY EveryRunEnds
CHECK_DEADLOCK FALSE
