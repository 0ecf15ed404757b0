\* The UDP-send socket and one more, two application threads of which one
\* cleans up, and a pool that two closes exhaust.
SPECIFICATION Spec
CONSTANTS
  Slots = {s1, s2}
  Apps = {app, main}
  Main = main
  Scavenger = scavenger
  PoolSize = 1
  None = None
CHECK_DEADLOCK FALSE
INVARIANTS MisuseOnlyRaced CleanIsEmpty
PROPERTIES CleanupEnds
