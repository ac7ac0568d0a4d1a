SPECIFICATION Spec
CONSTANTS
  s1 = s1
  s2 = s2
  w1 = w1
  w2 = w2
  None = None
  Slots = {s1, s2}
  Workers = {w1}
  WorkerOf <- OneProcess
  NumSteps = 2
  MaxNormalRetries = 2
  MaxRateLimitDeferrals = 0
  JobIds = {1, 2}
  LetterIds = {1}
  Operators = {}
  Failures = {}
  MaxStalls = 1
  MaxCrashes = 1
  MaxPauses = 0
  MayExpire = FALSE
INVARIANTS
  NoDuplicateExecution
CHECK_DEADLOCK FALSE
