SPECIFICATION Spec
CONSTANTS
  Writers = {w1}
  NoWriter = none
  Protos = {"TCP", "UDP"}
  SndLen = 2
  WrtSize = 3
  QueueMax = 2
  PoolSize = 2
  OtherMax = 1
  MssVals = {1}
  Lens = {1,3}
  MaxBytes = 4
PROPERTIES CallsReturn
CHECK_DEADLOCK FALSE
