SPECIFICATION Spec
CONSTANTS
  r1 = r1
  r2 = r2
  r3 = r3
  acme = acme
  globex = globex
  ann = ann
  bob = bob
  eve = eve
  Requests = {r1, r2, r3}
  Users <- People
  Fields = {"name", "description"}
  Updates <- OneField
  FirstRows <- ThreeRows
  NoRow = NoRow
  MaxRows = 4
  PageLimits = {0, 3}
  DEFAULT_PAGE_SIZE = 1
  MAX_PAGE_SIZE = 2
  MaxFaults = 1
SYMMETRY Alike
INVARIANTS TypeOK TenantsApart DeletedOnce OnlyOverlapLosesUpdates WalkIsComplete
CHECK_DEADLOCK FALSE
