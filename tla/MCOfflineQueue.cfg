CONSTANTS
  Sales = {s1, s2}
  Syncs = {p1, p2}
SPECIFICATION QueueFairSpec
INVARIANTS
  SavedSalesSurvive
  RecordedOnce
PROPERTY
  QueuedSalesAreSent
