SPECIFICATION Spec
CONSTANTS
  Steers = {s1, s2}
  Cancel = k
  MaxWire = 2
  MaxFaults = 1
SYMMETRY SteerSymmetry
INVARIANTS ReceiptsAreTrue SilenceIsNoSuccess VerdictIsEarned
CHECK_DEADLOCK FALSE
