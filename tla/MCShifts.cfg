SPECIFICATION Spec
CONSTANTS
  owner = owner
  branch = branch
  r1 = r1
  r2 = r2
  x1 = x1
  x2 = x2
  s1 = s1
  Main = main
  Nobody = Nobody
  NoOutlet = NoOutlet
  NoShift = NoShift
  NoSale = NoSale
  Users = {owner}
  Branches = {branch}
  TenantWide = {owner}
  Access <- MCAccess
  ShiftIds = {x1, x2}
  Sales = {s1}
  Requests = {r1, r2}
INVARIANTS
  OneOpenShift
  ClosedShiftsCountTheirCash
  OpenShiftsAreAtActiveOutlets
PROPERTY
  ClosedShiftsStand
SYMMETRY AnyName
