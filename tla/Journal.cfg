SPECIFICATION Spec
CONSTANTS
  w1 = w1
  w2 = w2
  Writers = {w1, w2}
  MaxFrames = 3
  MaxEvents = 2
  MaxBytes = 8
  Reserve = 4
  MaxBuffer = 1
  Coalesce = 2
  MaxFaults = 1
  Nobody = Nobody
SYMMETRY WriterSymmetry
INVARIANTS SeqIsGapless NothingBehindTheMarker LossIsReported PeersNeverDisable ShownOnce
CHECK_DEADLOCK FALSE
