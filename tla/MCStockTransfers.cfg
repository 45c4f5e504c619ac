SPECIFICATION FairSpec
CONSTANTS
  main = main
  branch = branch
  rice = rice
  soap = soap
  t1 = t1
  t2 = t2
  r1 = r1
  r2 = r2
  NoPlan = NoPlan
  NoTransfer = NoTransfer
  Outlets = {main, branch}
  Products = {rice, soap}
  Transfers = {t1, t2}
  Requests = {r1, r2}
  Plans <- MCPlans
  InitialStock <- MCStock
INVARIANTS
  TypeOK
  StockNeverNegative
  UncontestedTransfersBalance
PROPERTIES
  UncontestedLifecycle
  EveryRequestEnds
CHECK_DEADLOCK FALSE
