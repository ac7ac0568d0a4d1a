SPECIFICATION Spec
CONSTANTS
  s1 = s1
  s2 = s2
  w1 = w1
  w2 = w2
  None = None
  Slots = {s1, s2}
  Workers = {w1}
  WorkerOf <- OneProcess
  NumSteps = 2
  MaxNormalRetries = 2
  MaxRateLimitDeferrals = 1
  JobIds = {1, 2, 3}
  LetterIds = {1, 2}
  Operators = {o1}
  Failures <- OfEachClass
  MaxStalls = 1
  MaxCrashes = 1
  MaxPauses = 0
  MayExpire = FALSE
INVARIANTS
  TypeOK
  CompletedMeansSucceeded
  ExactlyOnceInCalm
CHECK_DEADLOCK FALSE
