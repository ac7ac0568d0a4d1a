SPECIFICATION Spec
CONSTANTS
  s1 = s1
  s2 = s2
  w1 = w1
  w2 = w2
  None = None
  Slots = {s1, s2}
  Workers = {w1}
  WorkerOf <- OneProcess
  NumSteps = 2
  MaxNormalRetries = 1
  MaxRateLimitDeferrals = 0
  JobIds = {1, 2}
  LetterIds = {1}
  Operators = {o1, o2}
  Failures <- Rejected
  MaxStalls = 1
  MaxCrashes = 0
  MaxPauses = 1
  MayExpire = FALSE
INVARIANTS
  OrphanOnlyByCrash
PROPERTIES
  ImplementsLifecycle
CHECK_DEADLOCK FALSE
