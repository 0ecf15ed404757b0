SPECIFICATION ReadSpec
CONSTANTS
  NoReader = NoReader
  Readers = {r1, r2}
  RcvSize = 3
  ConsumedMin = 2
  QueueMax = 2
  Lens = {1, 2}
  MaxBytes = 4
  UdpMax = 3
  MaxGrams = 4
INVARIANTS
  RestIsUnread
  EofTrue
  StallOnlyRefused
  GramsKept
  NobodyForgotten
PROPERTIES
  StreamSpec
  ReadReturns
CHECK_DEADLOCK FALSE
