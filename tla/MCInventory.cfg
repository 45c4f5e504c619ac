SPECIFICATION Spec
CONSTANTS
  rice = rice
  soap = soap
  o1 = o1
  m1 = m1
  s1 = s1
  r1 = r1
  r2 = r2
  k1 = k1
  k2 = k2
  NoDocument = NoDocument
  Products = {rice, soap}
  Requests = {r1, r2}
  Polls = {k1, k2}
  Orders = {o1}
  Mutations = {m1}
  Sales = {s1}
  InitialStock <- MCStock
  Ordered <- MCOrdered
  Delta <- MCDelta
  Bought <- MCBought
  ReturnLists <- MCReturns
SYMMETRY AnyOne
INVARIANTS
  StockNeverNegative
  AppliedAsDecided
  GoodsBackOncePerVoid
  LedgerExplainsStock
  LatestEntryIsStock
CHECK_DEADLOCK FALSE
