SPECIFICATION Spec
CONSTANTS
  c1 = c1
  c2 = c2
  c3 = c3
  acme = acme
  globex = globex
  api = api
  Unused = Unused
  Callers = {c1, c2, c3}
  TenantOf <- Tenants
  ProviderOf <- OneProvider
  StepOf <- OwnStep
  Limit <- SmallLimits
  MaxTroubles = 1
SYMMETRY Alike
INVARIANTS TypeOK InFlightWithinLimits SlotsComeBack WindowsHold WindowsEnd
CHECK_DEADLOCK FALSE
