SPECIFICATION Spec
CONSTANTS
  MaxNormalRetries = 3
  MaxRateLimitDeferrals = 2
  InitialDelayMs = 1000
  MaxDelayMs = 60000
  JitterMs = 200
  MaxLifetimeMs = 240000
  Answers <- MCAnswers
  Jitters <- MCJitters
  RunTimes <- MCRunTimes
  QueueTimes <- MCQueueTimes
INVARIANTS
  TypeOK
  DelayWithinBounds
  RetryAfterRespected
  EveryJobIsPaidFor
PROPERTIES
  PermanentFailureEndsChain
  ChainEnds
CHECK_DEADLOCK FALSE
