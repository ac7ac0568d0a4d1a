SPECIFICATION FairSpec
CONSTANTS
  r1 = r1
  r2 = r2
  r3 = r3
  p1 = p1
  p2 = p2
  Requests = {r1, r2, r3}
  Processes = {p1, p2}
  ProcessOf <- TwoAndOne
  MaxTroubles = 1
INVARIANTS TypeOK LockExcludes MemoryRunsOnce AnswersAreQueued RetryReusesAnswer
PROPERTIES EveryRequestEnds ImplementsKeyedOperation
CHECK_DEADLOCK FALSE
