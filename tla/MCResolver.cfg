\* Two threads that each resolve a name, and convert addresses, and two
\* ports that come round while answers are under way.
SPECIFICATION Spec
CONSTANTS
  Threads = {t1, t2}
  None = none
  a = a
  b = b
  Settings <- MCSettings
  Tries = 2
  NPorts = 2
  MaxCalls = 1
  MaxAnswers = 2
SYMMETRY Symmetry
INVARIANTS ResolveTrue DnsKept
