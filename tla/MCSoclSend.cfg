SPECIFICATION Spec
CONSTANTS
  Writers = {w1, w2}
  NoWriter = none
  Protos = {"TCP", "UDP"}
  SndLen = 2
  WrtSize = 3
  QueueMax = 2
  PoolSize = 3
  OtherMax = 1
  MssVals = {1}
  Lens = {1, 2}
  MaxBytes = 4
SYMMETRY Symmetry
INVARIANTS SendSound PacketsConserved FlushBeforeFin DatagramWhole
PROPERTIES StreamSpec
CHECK_DEADLOCK FALSE
