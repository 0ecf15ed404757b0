SPECIFICATION Spec
CONSTANTS
  Builds <- AllBuilds
  MaxFaults = 2
INVARIANTS
  RestIsQuiet
  ResetBacked
  DcfJoined
  RestIsAnswered
PROPERTIES
  NoticeTrue
  Settles
CHECK_DEADLOCK FALSE
