\* Three threads: one sends, one waits, one is woken between them; the
\* driver may hold two empty frames.
SPECIFICATION CpsifSpec
CONSTANTS
  Threads = {t1, t2, t3}
  NoThread = none
  Irq = irq
  NullMax = 2
SYMMETRY Symmetry
INVARIANTS FrameWhole NeverStuck
