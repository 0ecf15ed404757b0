\* Two callers and a close; the pool holds a packet for every command.
SPECIFICATION Spec
CONSTANTS
  Callers = {c1, c2}
  NoCaller = NoCaller
  PoolSize = 3
  Modes = {"TCP", "UDP", "PORT_UDP", "UDPSEND"}
  QueueMax = 2
  MaxCalls = 2
CHECK_DEADLOCK FALSE
PROPERTIES WaitsEnd
