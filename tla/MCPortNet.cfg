\* Two sockets that are created, bound, bound again and released in any
\* order, bytes on one of them, and an array with a slot more than sockets.
SPECIFICATION Spec
CONSTANTS
  Socks = {s1, s2}
  Talkers = {s1}
  None = none
  Addrs = {a, b}
  Ephemeral = {b}
  Slots = 3
  RcvSize = 2
  Retries = 1
  MaxBytes = 3
CHECK_DEADLOCK FALSE
INVARIANTS TableSound Heard BytesWhole
