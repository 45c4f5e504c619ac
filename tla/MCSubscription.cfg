CONSTANTS
  b1 = b1
  b2 = b2
  growth = growth
  enterprise = enterprise
  r1 = r1
  r2 = r2
  NoInvoice = NoInvoice
  Branches = {b1, b2}
  Invoices = {growth, enterprise}
  Requests = {r1, r2}
  InvoiceTier <- MCInvoiceTier
  FreeOutlets = 1
  GrowthOutlets = 2
SPECIFICATION Spec
SYMMETRY AnyName
INVARIANTS
  TypeOK
  DowngradeStands
  InvoiceAppliedOnce
  OutletsWithinPlan
  DowngradeShutsBranches
