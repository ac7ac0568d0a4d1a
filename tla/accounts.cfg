SPECIFICATION Spec
CONSTANTS
  r1 = r1
  r2 = r2
  r3 = r3
  ann = ann
  bob = bob
  acme = acme
  globex = globex
  userRole = userRole
  adminRole = adminRole
  Requests = {r1, r2, r3}
  Emails = {ann, bob}
  Slugs = {acme, globex}
  Roles = {userRole, adminRole}
  FirstTenants <- OneTenant
  FirstRoles = {userRole}
  FirstAccounts <- OneAccount
  Nobody = Nobody
  MaxFaults = 1
SYMMETRY Alike
INVARIANTS TypeOK OneAccountPerEmail FailsOnlyInRaces ConfirmedLogoutRevokes AnsweredIsLogged TokensCarryRoleHeld
CHECK_DEADLOCK FALSE
