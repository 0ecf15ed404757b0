SPECIFICATION ApListSpec
CONSTANTS
  NoBssid = NoBssid
  Bssids = {a1, a2, a3, a4}
  Levels = {0, 1}
  maxBlock = 3
  MaxNest = 2
SYMMETRY Symmetry
INVARIANTS
  ListWhole
  ReadStable
PROPERTIES
  LruSpec
