------------------------- MODULE RetryScheduleProofs -------------------------
(***************************************************************************)
(* Theorems about RetrySchedule, for all budgets, delays, answers, jitters *)
(* and times.                                                              *)
(***************************************************************************)
EXTENDS RetrySchedule, TLAPS

\* The part of the type invariant that the counters need.
CountersOK ==
  /\ attempt \in 1 .. MaxNormalRetries
  /\ deferrals \in 0 .. MaxRateLimitDeferrals
  /\ started \in Nat

PaidInv == CountersOK /\ EveryJobIsPaidFor

\* A positive decision spends exactly one unit of exactly one budget, a negative one
\* spends nothing, and neither overdraws.
LEMMA DecisionSpendsOne ==
  ASSUME NEW err, NEW n \in 1 .. MaxNormalRetries, NEW d \in 0 .. MaxRateLimitDeferrals, NEW late
  PROVE  LET r == calculateRetryDecision(err, n, d, late)
         IN  /\ r.attempt \in 1 .. MaxNormalRetries
             /\ r.deferrals \in 0 .. MaxRateLimitDeferrals
             /\ r.attempt + r.deferrals = n + d + (IF r.shouldRetry THEN 1 ELSE 0)
  BY RetryBudgetAssumption DEF calculateRetryDecision, Stop, RetryAs

LEMMA PaidWithinBudgets == PaidInv => started <= MaxJobs
  BY RetryBudgetAssumption DEF PaidInv, CountersOK, EveryJobIsPaidFor, MaxJobs

LEMMA PaidInit == Init => PaidInv
  BY RetryBudgetAssumption DEF Init, PaidInv, CountersOK, EveryJobIsPaidFor

LEMMA PaidStep == PaidInv /\ [Next]_vars => PaidInv'
<1> SUFFICES ASSUME PaidInv, [Next]_vars PROVE PaidInv' OBVIOUS
<1>0. started <= MaxJobs BY PaidWithinBudgets
<1>1. CASE Succeed BY <1>1 DEF Succeed, PaidInv, CountersOK, EveryJobIsPaidFor
<1>2. ASSUME NEW a \in Answers, NEW ms \in RunTimes, NEW jitter \in Jitters, Fail(a, ms, jitter)
      PROVE  PaidInv'
  <2> DEFINE r == calculateRetryDecision(classifyHttpError(a), attempt, deferrals,
                                         Aged(ms) >= MaxLifetimeMs)
  <2>1. /\ phase = "running" /\ phase' = IF r.shouldRetry THEN "delayed" ELSE "dead"
        /\ attempt' = r.attempt /\ deferrals' = r.deferrals /\ started' = started
    BY <1>2 DEF Fail
  <2>2. /\ r.attempt \in 1 .. MaxNormalRetries /\ r.deferrals \in 0 .. MaxRateLimitDeferrals
        /\ r.attempt + r.deferrals = attempt + deferrals + (IF r.shouldRetry THEN 1 ELSE 0)
    BY DecisionSpendsOne DEF PaidInv, CountersOK
  <2> HIDE DEF r
  <2> QED BY <2>1, <2>2, RetryBudgetAssumption DEF PaidInv, CountersOK, EveryJobIsPaidFor
<1>3. ASSUME NEW ms \in QueueTimes, StartDelayed(ms) PROVE PaidInv'
  <2>1. started' = started + 1
    BY <1>0, <1>3, RetryBudgetAssumption DEF StartDelayed, AtMost, MaxJobs, PaidInv, CountersOK
  <2> QED BY <1>3, <2>1 DEF StartDelayed, PaidInv, CountersOK, EveryJobIsPaidFor
<1>4. CASE UNCHANGED vars BY <1>4 DEF vars, PaidInv, CountersOK, EveryJobIsPaidFor
<1> QED BY <1>1, <1>2, <1>3, <1>4 DEF Next

\* Every job of a chain after the first is paid for out of one of the two budgets.
THEOREM EveryJobIsPaidForHolds == Spec => []EveryJobIsPaidFor
<1>1. PaidInv => EveryJobIsPaidFor BY DEF PaidInv
<1> QED BY <1>1, PaidInit, PaidStep, PTL DEF Spec

\* However failures alternate, a trigger runs at most MaxNormalRetries +
\* MaxRateLimitDeferrals jobs.
THEOREM ChainIsBoundedHolds == Spec => []ChainIsBounded
<1>1. PaidInv => ChainIsBounded BY PaidWithinBudgets DEF ChainIsBounded
<1> QED BY <1>1, PaidInit, PaidStep, PTL DEF Spec

-----------------------------------------------------------------------------
(* A failure that is not to be retried ends the chain. *)


\* What makes PermanentFailureEndsChain inductive.
DeadAfterPermanent == Permanent(failure) => phase = "dead"

LEMMA PermanentIsNotRetried ==
  ASSUME NEW a \in Answers, Permanent(a), NEW n, NEW d, NEW late \in BOOLEAN
  PROVE  ~calculateRetryDecision(classifyHttpError(a), n, d, late).shouldRetry
<1>0. \A s, t : ~HttpStepError("PERMANENT_FAILURE", s, t).isRetryable
  BY Zenon DEF HttpStepError
<1>1. ~classifyHttpError(a).isRetryable
  <2>1. CASE a.status \in 400 .. 499 \ {408, 429}
    <3>1. a.status # 429 /\ a.status # 408 /\ a.status >= 400 BY <2>1
    <3>2. classifyHttpError(a) = HttpStepError("PERMANENT_FAILURE", a.status, NoRetryAfter)
      BY <2>1, <3>1 DEF classifyHttpError, classifyResponse
    <3> QED BY <1>0, <3>2
  <2>2. CASE a.code = "CERT_HAS_EXPIRED"
    <3>1. a.status = 0 BY <2>2, ScheduleAssumption
    <3>2. classifyHttpError(a) = classifyNetworkError("CERT_HAS_EXPIRED")
      BY <2>2, <3>1 DEF classifyHttpError
    <3>3. classifyNetworkError("CERT_HAS_EXPIRED")
            = HttpStepError("PERMANENT_FAILURE", 0, NoRetryAfter)
      BY DEF classifyNetworkError
    <3> QED BY <1>0, <3>2, <3>3
  <2> QED BY <2>1, <2>2 DEF Permanent
<1> QED BY <1>1 DEF calculateRetryDecision, Stop

LEMMA DeadInit == Init => DeadAfterPermanent
  BY DEF Init, DeadAfterPermanent, Permanent, NoFailure, Unanswered

LEMMA DeadStep ==
  ASSUME DeadAfterPermanent, [Next]_vars
  PROVE  DeadAfterPermanent' /\ (Permanent(failure) => phase' = phase)
<1>1. CASE Succeed BY <1>1 DEF Succeed, DeadAfterPermanent
<1>2. ASSUME NEW a \in Answers, NEW ms \in RunTimes, NEW jitter \in Jitters, Fail(a, ms, jitter)
      PROVE  DeadAfterPermanent' /\ (Permanent(failure) => phase' = phase)
  <2> DEFINE late == Aged(ms) >= MaxLifetimeMs
             r == calculateRetryDecision(classifyHttpError(a), attempt, deferrals, late)
  <2>1. /\ phase = "running" /\ failure' = a
        /\ phase' = IF r.shouldRetry THEN "delayed" ELSE "dead"
    BY <1>2 DEF Fail
  <2>2. late \in BOOLEAN OBVIOUS
  <2> HIDE DEF late
  <2>3. Permanent(a) => ~r.shouldRetry BY <2>2, PermanentIsNotRetried
  <2> HIDE DEF r
  <2> QED BY <2>1, <2>3 DEF DeadAfterPermanent
<1>3. CASE \E ms \in QueueTimes : StartDelayed(ms)
  BY <1>3 DEF StartDelayed, DeadAfterPermanent
<1>4. CASE UNCHANGED vars BY <1>4 DEF vars, DeadAfterPermanent
<1> QED BY <1>1, <1>2, <1>3, <1>4 DEF Next

\* A client error or a broken certificate ends the chain, for good, while both budgets
\* may be unspent.
THEOREM PermanentFailureEndsChainHolds == Spec => PermanentFailureEndsChain
<1>1. DeadAfterPermanent /\ [Next]_vars => [Permanent(failure) => phase' = phase]_vars
  BY DeadStep
<1>2. DeadAfterPermanent /\ [Next]_vars => DeadAfterPermanent' BY DeadStep
<1> QED BY <1>1, <1>2, DeadInit, PTL DEF Spec, PermanentFailureEndsChain
-----------------------------------------------------------------------------
(* The type invariant and the bounds of the delays. *)

\* A delayed job waits within the bounds, and as long as it was asked to.
DelayInv == TypeOK /\ DelayWithinBounds /\ RetryAfterRespected

LEMMA BackoffWithinBounds ==
  ASSUME NEW n \in 1 .. MaxNormalRetries, NEW jitter \in Jitters
  PROVE  calculateExponentialBackoff(n, jitter) \in InitialDelayMs .. MaxDelayMs
<1> DEFINE k == AtLeast(0, n - 1)
           doubled == InitialDelayMs * 2^k
<1>1. k \in 0 .. MaxNormalRetries BY RetryBudgetAssumption DEF AtLeast
<1> HIDE DEF k
<1>2. 2^k \in Nat \ {0} BY <1>1, PowerAssumption
<1>3. \A i, p \in Nat : p # 0 => i * p \in Nat /\ i * p >= i OBVIOUS
<1>4. doubled \in Nat /\ doubled >= InitialDelayMs BY <1>2, <1>3, ScheduleAssumption
<1> HIDE DEF doubled
<1>5. calculateExponentialBackoff(n, jitter) = AtMost(MaxDelayMs, doubled + jitter)
  BY DEF calculateExponentialBackoff, doubled, k
<1> QED BY <1>4, <1>5, ScheduleAssumption DEF AtMost

\* What the classifier makes of the answers: the Retry-After of an answer that may be
\* retried is kept, but for a 408 and for an answer that is no error.
LEMMA ClassifiedRetryAfter ==
  ASSUME NEW a \in Answers
  PROVE  LET err == classifyHttpError(a)
         IN  /\ err.http
             /\ err.retryAfter \in Nat \cup {NoRetryAfter}
             /\ (a.status >= 400 /\ a.status # 408 /\ err.isRetryable)
                  => err.retryAfter = a.retryAfter
<1> DEFINE err == classifyHttpError(a)
<1>0. a.status \in Nat /\ a.retryAfter \in Nat \cup {NoRetryAfter} BY ScheduleAssumption
<1>1. ASSUME NEW c, NEW s, NEW t
      PROVE  /\ HttpStepError(c, s, t).http
             /\ HttpStepError(c, s, t).retryAfter = t
             /\ HttpStepError(c, s, t).isRetryable <=> c # "PERMANENT_FAILURE"
  BY Zenon DEF HttpStepError
<1>2. CASE a.status < 400
  <2>1. err = classifyNetworkError(a.code) BY <1>0, <1>2 DEF classifyHttpError
  <2>2. PICK c : classifyNetworkError(a.code) = HttpStepError(c, 0, NoRetryAfter)
    BY Zenon DEF classifyNetworkError
  <2> QED BY <1>0, <1>1, <1>2, <2>1, <2>2
<1>3. CASE a.status >= 400
  <2>1. err = classifyResponse(a) BY <1>3 DEF classifyHttpError
  <2>2. CASE a.status = 429 BY <1>0, <1>1, <2>1, <2>2 DEF classifyResponse
  <2>3. CASE a.status = 408 BY <1>0, <1>1, <2>1, <2>3 DEF classifyResponse
  <2>4. CASE a.status \in 400 .. 499 \ {408, 429}
    <3>1. err = HttpStepError("PERMANENT_FAILURE", a.status, NoRetryAfter)
      BY <2>1, <2>4 DEF classifyResponse
    <3> QED BY <1>1, <3>1
  <2>5. CASE a.status > 499
    <3>1. err = HttpStepError("TRANSIENT_FAILURE", a.status, a.retryAfter)
      BY <1>0, <2>1, <2>5 DEF classifyResponse
    <3> QED BY <1>0, <1>1, <3>1
  <2> QED BY <1>0, <1>3, <2>2, <2>3, <2>4, <2>5
<1> QED BY <1>0, <1>2, <1>3

LEMMA ChosenDelay ==
  ASSUME NEW a \in Answers, NEW n \in 1 .. MaxNormalRetries, NEW jitter \in Jitters
  PROVE  LET err == classifyHttpError(a)
             ms == delayMs(err, n, jitter)
         IN  /\ ms \in InitialDelayMs .. MaxDelayMs
             /\ (a.retryAfter # NoRetryAfter /\ a.status >= 400 /\ a.status # 408
                   /\ err.isRetryable) => ms >= AtMost(MaxDelayMs, a.retryAfter * 1000)
<1> DEFINE err == classifyHttpError(a)
           ms == delayMs(err, n, jitter)
<1>1. /\ err.http /\ err.retryAfter \in Nat \cup {NoRetryAfter}
      /\ (a.status >= 400 /\ a.status # 408 /\ err.isRetryable)
           => err.retryAfter = a.retryAfter
  BY ClassifiedRetryAfter
<1> HIDE DEF err
<1>2. CASE err.retryAfter = NoRetryAfter
  <2>1. ms = calculateExponentialBackoff(n, jitter) BY <1>2 DEF delayMs
  <2> QED BY <1>1, <1>2, <2>1, BackoffWithinBounds DEF err
<1>3. CASE err.retryAfter # NoRetryAfter
  <2>1. ms = AtMost(MaxDelayMs, AtLeast(InitialDelayMs, err.retryAfter * 1000))
    BY <1>1, <1>3 DEF delayMs, Deferrable
  <2>2. err.retryAfter \in Nat BY <1>1, <1>3
  <2>3. ms \in InitialDelayMs .. MaxDelayMs /\ ms >= AtMost(MaxDelayMs, err.retryAfter * 1000)
    BY <2>1, <2>2, ScheduleAssumption DEF AtMost, AtLeast
  <2> QED BY <1>1, <2>3 DEF err
<1> QED BY <1>2, <1>3

LEMMA OnlyRetryable ==
  ASSUME NEW a \in Answers, NEW n, NEW d, NEW late \in BOOLEAN,
         calculateRetryDecision(classifyHttpError(a), n, d, late).shouldRetry
  PROVE  classifyHttpError(a).isRetryable
  BY DEF calculateRetryDecision, Stop

LEMMA AgedInRange ==
  ASSUME elapsed \in 0 .. MaxLifetimeMs, NEW ms \in Nat
  PROVE  Aged(ms) \in 0 .. MaxLifetimeMs
  BY ScheduleAssumption DEF Aged

LEMMA DelayInit == Init => DelayInv
  BY RetryBudgetAssumption, ScheduleAssumption
  DEF Init, DelayInv, TypeOK, DelayWithinBounds, RetryAfterRespected, MaxJobs

LEMMA DelayStep == DelayInv /\ [Next]_vars => DelayInv'
<1> SUFFICES ASSUME DelayInv, [Next]_vars PROVE DelayInv' OBVIOUS
<1> USE DEF DelayInv, DelayWithinBounds, RetryAfterRespected
<1>1. CASE Succeed BY <1>1 DEF Succeed, TypeOK
<1>2. ASSUME NEW a \in Answers, NEW ms \in RunTimes, NEW jitter \in Jitters, Fail(a, ms, jitter)
      PROVE  DelayInv'
  <2> DEFINE err == classifyHttpError(a)
             late == Aged(ms) >= MaxLifetimeMs
             r == calculateRetryDecision(err, attempt, deferrals, late)
             chosen == delayMs(err, attempt, jitter)
  <2>0. attempt \in 1 .. MaxNormalRetries /\ deferrals \in 0 .. MaxRateLimitDeferrals
    BY DEF TypeOK
  <2>1. /\ failure' = a /\ elapsed' = Aged(ms) /\ started' = started
        /\ phase' = IF r.shouldRetry THEN "delayed" ELSE "dead"
        /\ attempt' = r.attempt /\ deferrals' = r.deferrals
        /\ delay' = IF r.shouldRetry THEN chosen ELSE 0
    BY <1>2 DEF Fail
  <2>2. r.attempt \in 1 .. MaxNormalRetries /\ r.deferrals \in 0 .. MaxRateLimitDeferrals
    BY <2>0, DecisionSpendsOne
  <2>3. Aged(ms) \in 0 .. MaxLifetimeMs BY AgedInRange, ScheduleAssumption DEF TypeOK
  <2>4. late \in BOOLEAN OBVIOUS
  <2> HIDE DEF late
  <2>5. r.shouldRetry => err.isRetryable BY <2>4, OnlyRetryable
  <2>6. /\ chosen \in InitialDelayMs .. MaxDelayMs
        /\ (a.retryAfter # NoRetryAfter /\ a.status >= 400 /\ a.status # 408
              /\ err.isRetryable) => chosen >= AtMost(MaxDelayMs, a.retryAfter * 1000)
    BY <2>0, ChosenDelay
  <2> HIDE DEF err, r, chosen
  <2>7. TypeOK'
    BY <2>1, <2>2, <2>3, <2>6, ScheduleAssumption DEF TypeOK, MaxJobs
  <2>8. DelayWithinBounds' BY <2>1, <2>6, ScheduleAssumption
  <2>9. RetryAfterRespected' BY <2>1, <2>5, <2>6
  <2> QED BY <2>7, <2>8, <2>9
<1>3. ASSUME NEW ms \in QueueTimes, StartDelayed(ms) PROVE DelayInv'
  <2>1. Aged(delay + ms) \in 0 .. MaxLifetimeMs BY AgedInRange, ScheduleAssumption DEF TypeOK
  <2>2. AtMost(MaxJobs + 1, started + 1) \in 1 .. (MaxJobs + 1)
    BY RetryBudgetAssumption DEF AtMost, MaxJobs, TypeOK
  <2> QED BY <1>3, <2>1, <2>2 DEF StartDelayed, TypeOK
<1>4. CASE UNCHANGED vars BY <1>4 DEF vars, TypeOK
<1> QED BY <1>1, <1>2, <1>3, <1>4 DEF Next

\* The counters and the clock of a chain stay in their ranges.
THEOREM TypeCorrect == Spec => []TypeOK
<1>1. DelayInv => TypeOK BY DEF DelayInv
<1> QED BY <1>1, DelayInit, DelayStep, PTL DEF Spec

\* No retry is immediate and none waits longer than maxDelayMs.
THEOREM DelayWithinBoundsHolds == Spec => []DelayWithinBounds
<1>1. DelayInv => DelayWithinBounds BY DEF DelayInv
<1> QED BY <1>1, DelayInit, DelayStep, PTL DEF Spec

\* No retry is earlier than the provider asked for, up to maxDelayMs.
THEOREM RetryAfterRespectedHolds == Spec => []RetryAfterRespected
<1>1. DelayInv => RetryAfterRespected BY DEF DelayInv
<1> QED BY <1>1, DelayInit, DelayStep, PTL DEF Spec
=============================================================================
