\* Two application threads that may make any call, a receive pipe that
\* holds a close, the command behind it and the terminating NULL, and a
\* send pipe of one.
SPECIFICATION Spec
CONSTANTS
  Apps = {a1, a2}
  Recv = recv
  Send = send
  RecvMax = 3
  SendMax = 1
  None = none
SYMMETRY Symmetry
CHECK_DEADLOCK FALSE
INVARIANTS NoLockCycle ClosedForGood BitsBacked
