SPECIFICATION FairSpec
CONSTANTS
  w1 = w1
  g1 = g1
  g2 = g2
  one = one
  two = two
  Requests = {w1, g1, g2}
  Writes = {w1}
  Lanes = {one, two}
  PoolLimit = 3
  MaxStatements = 2
INVARIANTS
  NoLeak
PROPERTIES
  EveryRequestEnds
  OnlyHoldAndWaitBlocks
