CONSTANTS
  Readers = {p1, p2}
  Writers = {w1, w2}
  MaxVersion = 3
SPECIFICATION CacheFairSpec
INVARIANTS
  StaleForAReason
PROPERTY
  StalenessEnds
