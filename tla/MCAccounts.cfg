CONSTANTS
  a1 = a1
  a2 = a2
  r1 = r1
  r2 = r2
  cashier = cashier
  manager = manager
  Applicants = {a1}
  Hires = {a2}
  Roles = {cashier, manager}
  Requests = {r1, r2}
  Cashier = cashier
  NoRole = NoRole
  FreeStaff = 1
  MaxLinks = 2
  Movers = {a1}
SPECIFICATION Spec
SYMMETRY AnyRequest
INVARIANTS
  OneRole
  LatestLinkWorks
  FreeStaffAfterDowngrade
PROPERTY
  VerifiedAccountsStay
