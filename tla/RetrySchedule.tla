---------------------------- MODULE RetrySchedule ----------------------------
(***************************************************************************)
(* The chain of jobs one trigger gives rise to when nothing crashes: each  *)
(* failed job is judged by calculateRetryDecision and, if it is to be      *)
(* retried, followed by a new job with the delay the decision chose.  This *)
(* is where time is modelled: the back-off, the Retry-After delay, the     *)
(* time jobs spend running and queued, and the lifetime limit.             *)
(***************************************************************************)
EXTENDS RetryPolicy

CONSTANTS
  InitialDelayMs, MaxDelayMs, JitterMs,  \* RetryPolicyConfig
  MaxLifetimeMs,                         \* config.maxExecutionLifetimeMs
  Answers,     \* the failures a request may come back with
  Jitters,     \* samples of Math.floor(Math.random() * jitterMs)
  RunTimes,    \* how long a job may run before it fails, in ms
  QueueTimes   \* how long a due job may wait for a worker, in ms

ASSUME ScheduleAssumption ==
  /\ InitialDelayMs \in Nat \ {0} /\ MaxDelayMs \in Nat /\ JitterMs \in Nat \ {0}
  /\ InitialDelayMs <= MaxDelayMs
  /\ MaxLifetimeMs \in Nat
  /\ Jitters \subseteq 0 .. (JitterMs - 1)
  /\ RunTimes \subseteq Nat /\ QueueTimes \subseteq Nat
  /\ \A a \in Answers : /\ a.status \in Nat /\ a.retryAfter \in Nat \cup {NoRetryAfter}
                        /\ a.code # "none" => a.status = 0

\* Arithmetic that TLC evaluates and the provers lack.
ASSUME PowerAssumption == \A k \in 0 .. MaxNormalRetries : 2^k \in Nat \ {0}

VARIABLES
  phase,      \* "running", "delayed", "succeeded" or "dead"
  attempt,    \* job.data.normalAttempts of the current job
  deferrals,  \* job.data.rateLimitDeferrals of the current job
  elapsed,    \* ms since execution.startedAt
  delay,      \* the delay option of the job last added
  failure,    \* what the last failed job's request came back with
  started     \* history: how many jobs of the chain have started, up to MaxJobs + 1

vars == <<phase, attempt, deferrals, elapsed, delay, failure, started>>

NoFailure == Unanswered("none")

\* What the two budgets allow together.
MaxJobs == MaxNormalRetries + MaxRateLimitDeferrals

\* Jobs stop ageing at the limit: the decision only compares with it.
Aged(ms) == IF elapsed + ms > MaxLifetimeMs THEN MaxLifetimeMs ELSE elapsed + ms

AtMost(cap, n) == IF n > cap THEN cap ELSE n
AtLeast(floor, n) == IF n < floor THEN floor ELSE n

calculateExponentialBackoff(n, jitter) ==
  AtMost(MaxDelayMs, InitialDelayMs * 2^AtLeast(0, n - 1) + jitter)

\* Mutants of delayMs: Retry-After taken as it is; Retry-After not looked at.
delayAsAsked(err, n, jitter) ==
  IF Deferrable(err) /\ err.retryAfter # NoRetryAfter
  THEN err.retryAfter * 1000 ELSE calculateExponentialBackoff(n, jitter)

delayByBackoff(err, n, jitter) == calculateExponentialBackoff(n, jitter)

\* The delayMs of a positive decision on err; attempt is the failed job's.
delayMs(err, n, jitter) ==
  IF Deferrable(err) /\ err.retryAfter # NoRetryAfter
  THEN AtMost(MaxDelayMs, AtLeast(InitialDelayMs, err.retryAfter * 1000))
  ELSE calculateExponentialBackoff(n, jitter)

TypeOK ==
  /\ phase \in {"running", "delayed", "succeeded", "dead"}
  /\ attempt \in 1 .. MaxNormalRetries
  /\ deferrals \in 0 .. MaxRateLimitDeferrals
  /\ elapsed \in 0 .. MaxLifetimeMs
  /\ delay \in Nat
  /\ failure \in Answers \cup {NoFailure}
  /\ started \in 1 .. (MaxJobs + 1)

Init ==
  /\ phase = "running" /\ attempt = 1 /\ deferrals = 0
  /\ elapsed = 0 /\ delay = 0 /\ failure = NoFailure /\ started = 1

Succeed ==
  /\ phase = "running"
  /\ phase' = "succeeded"
  /\ UNCHANGED <<attempt, deferrals, elapsed, delay, failure, started>>

\* The worker's 'failed' handler: judge the error, then add the next job or
\* give the execution up.
Fail(a, ms, jitter) ==
  LET err == classifyHttpError(a)
      decision ==
        calculateRetryDecision(err, attempt, deferrals, Aged(ms) >= MaxLifetimeMs)
  IN  /\ phase = "running"
      /\ failure' = a
      /\ elapsed' = Aged(ms)
      /\ phase' = IF decision.shouldRetry THEN "delayed" ELSE "dead"
      /\ attempt' = decision.attempt
      /\ deferrals' = decision.deferrals
      /\ delay' = IF decision.shouldRetry THEN delayMs(err, attempt, jitter) ELSE 0
      /\ UNCHANGED started

\* The delay elapses and, after queueing, a worker takes the job.
StartDelayed(ms) ==
  /\ phase = "delayed"
  /\ phase' = "running"
  /\ elapsed' = Aged(delay + ms)
  /\ started' = AtMost(MaxJobs + 1, started + 1)
  /\ UNCHANGED <<attempt, deferrals, delay, failure>>

Next ==
  \/ Succeed
  \/ \E a \in Answers, ms \in RunTimes, jitter \in Jitters : Fail(a, ms, jitter)
  \/ \E ms \in QueueTimes : StartDelayed(ms)

\* Providers answer or time out (axios is given a timeout) and BullMQ promotes
\* delayed jobs, so a chain never stands still; nothing forces a success.
Spec == Init /\ [][Next]_vars /\ WF_vars(Next)

-----------------------------------------------------------------------------
\* However failures of different kinds alternate, a trigger runs at most
\* MaxNormalRetries + MaxRateLimitDeferrals jobs: the two budgets add up and
\* neither is ever refilled (README.md: "strict upper bounds ... to prevent
\* infinite loops").
ChainIsBounded == started <= MaxJobs

\* No retry is immediate and none waits longer than maxDelayMs, whatever the
\* Retry-After header, the attempt and the jitter.
DelayWithinBounds ==
  phase = "delayed" => InitialDelayMs <= delay /\ delay <= MaxDelayMs

\* A retry is never earlier than the provider asked for, up to maxDelayMs,
\* whichever class the error (429, 503, 529 ...) falls into; the Retry-After of a
\* 408, and of a redirect that came back, is the one the classifier drops.
RetryAfterRespected ==
  (phase = "delayed" /\ failure.retryAfter # NoRetryAfter
      /\ failure.status >= 400 /\ failure.status # 408)
    => delay >= AtMost(MaxDelayMs, failure.retryAfter * 1000)

\* A client error or a broken certificate is never tried twice in a chain:
\* once one is met, the chain is over, even while both budgets are unspent.
Permanent(a) == a.status \in 400 .. 499 \ {408, 429} \/ a.code = "CERT_HAS_EXPIRED"
PermanentFailureEndsChain == [][Permanent(failure) => phase' = phase]_vars

\* Every chain ends, in a success or in the dead-letter queue.
ChainEnds == <>(phase \in {"succeeded", "dead"})

\* The inductive form of ChainIsBounded: each job after the first was paid for
\* by exactly one unit of one of the two budgets.
EveryJobIsPaidFor ==
  started + (IF phase = "delayed" THEN 1 ELSE 0) = attempt + deferrals
=============================================================================
