SPECIFICATION Spec
CONSTANTS
  s1 = s1
  s2 = s2
  k1 = k1
  k2 = k2
  rice = rice
  soap = soap
  NoSale = NoSale
  Products = {rice, soap}
  Sales = {s1, s2}
  Polls = {k1, k2}
  InitialStock <- MCStock
  Orders <- MCOrders
  MonthlyLimit = 2
  MaxFailures = 1
INVARIANTS
  TypeOK
  StockNeverNegative
  
  
  
PROPERTY
  KeepsLifecycle
CHECK_DEADLOCK FALSE
