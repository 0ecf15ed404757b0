\* Two callers may fill both queues while the socket is closed under them.
\* A close command that waits on its own full queue stops the system.
SPECIFICATION Spec
CONSTANTS
  Callers = {c1, c2}
  NoCaller = NoCaller
  PoolSize = 3
  Modes = {"TCP", "UDP", "PORT_UDP", "UDPSEND"}
  QueueMax = 2
  MaxCalls = 3
SYMMETRY Symmetry
CHECK_DEADLOCK FALSE
INVARIANTS PacketsConserved WaitersQueued AnswerTrue CloseInOrder
