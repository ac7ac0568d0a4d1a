----------------------------- MODULE RetryPolicy -----------------------------
(***************************************************************************)
(* How a failed job of the workflow engine is judged: the classification   *)
(* of an HTTP failure (http-step-classifier.ts) and the decision taken     *)
(* from it (http-retry-scheduler.ts).  Both are pure functions in the code *)
(* and plain operators here.  The delay of a retry is in RetrySchedule:    *)
(* the engine's correctness does not depend on it.                         *)
(***************************************************************************)
EXTENDS Integers

CONSTANTS
  MaxNormalRetries,       \* config.maxNormalRetries, 3 by default
  MaxRateLimitDeferrals   \* config.maxRateLimitDeferrals, 5 by default

ASSUME RetryBudgetAssumption ==
  /\ MaxNormalRetries \in Nat \ {0}
  /\ MaxRateLimitDeferrals \in Nat

NoRetryAfter == -1  \* the code's null: no usable Retry-After header

(***************************************************************************)
(* What a request came back with: an HTTP status and its Retry-After, or   *)
(* no response (status 0) and the code of the network error.               *)
(***************************************************************************)
Answered(status, retryAfter) ==
  [status |-> status, retryAfter |-> retryAfter, code |-> "none"]

Unanswered(code) == [status |-> 0, retryAfter |-> NoRetryAfter, code |-> code]

Categories == {"PERMANENT_FAILURE", "TRANSIENT_FAILURE", "RATE_LIMITED",
               "NETWORK_FAILURE", "TIMEOUT"}

\* An HttpStepError: TIMEOUT and the like are categories, "http" tells it from
\* any other Error object.
HttpStepError(category, status, retryAfter) ==
  [http |-> TRUE, category |-> category,
   isRetryable |-> category # "PERMANENT_FAILURE",
   status |-> status, retryAfter |-> retryAfter]

\* Any other Error: a database error, BullMQ's "job stalled" error.
GenericError ==
  [http |-> FALSE, category |-> "NONE", isRetryable |-> TRUE,
   status |-> 0, retryAfter |-> NoRetryAfter]

classifyResponse(a) ==
  CASE a.status = 429 -> HttpStepError("RATE_LIMITED", 429, a.retryAfter)
    [] a.status = 408 -> HttpStepError("TRANSIENT_FAILURE", 408, NoRetryAfter)
    [] a.status \in 400..499 \ {408, 429} ->
         HttpStepError("PERMANENT_FAILURE", a.status, NoRetryAfter)
    [] OTHER -> HttpStepError("TRANSIENT_FAILURE", a.status, a.retryAfter)

classifyNetworkError(code) ==
  LET category ==
        CASE code \in {"ECONNREFUSED", "ENOTFOUND", "EAI_AGAIN", "ECONNRESET"} ->
               "NETWORK_FAILURE"
          [] code = "CERT_HAS_EXPIRED" -> "PERMANENT_FAILURE"
          [] code \in {"ETIMEDOUT", "ESOCKETTIMEDOUT", "ECONNABORTED"} -> "TIMEOUT"
          [] OTHER -> "TRANSIENT_FAILURE"
  IN  HttpStepError(category, 0, NoRetryAfter)

\* axios rejects on every status outside 200..299; a 3xx response matches no
\* branch on the status and is classified by its (absent) error code.
classifyHttpError(a) ==
  IF a.status >= 400 THEN classifyResponse(a) ELSE classifyNetworkError(a.code)

-----------------------------------------------------------------------------
(***************************************************************************)
(* calculateRetryDecision.  The order of the tests is the code's: lifetime *)
(* first, then permanence, then the deferral budget, then the normal one.  *)
(***************************************************************************)
Deferrable(err) ==
  err.http /\ \/ err.category = "RATE_LIMITED"
              \/ err.retryAfter # NoRetryAfter
              \/ err.status = 529

Stop(reason, attempt, deferrals) ==
  [shouldRetry |-> FALSE, reason |-> reason,
   attempt |-> attempt, deferrals |-> deferrals]

RetryAs(reason, attempt, deferrals) ==
  [shouldRetry |-> TRUE, reason |-> reason,
   attempt |-> attempt, deferrals |-> deferrals]

\* Mutants of calculateRetryDecision: retries that are not counted; a permanent
\* failure like any other; deferrals that neither the budget nor the lifetime ends;
\* attempts compared with > for >=.
RetriesUncounted(err, attempt, deferrals, expired) ==
  CASE expired -> Stop("max_lifetime_exceeded", attempt, deferrals)
    [] ~expired /\ ~err.isRetryable -> Stop("permanent_failure", attempt, deferrals)
    [] OTHER -> RetryAs("transient_backoff_retry", attempt, deferrals)

PermanenceIgnored(err, attempt, deferrals, expired) ==
  IF expired \/ attempt >= MaxNormalRetries THEN Stop("exhausted", attempt, deferrals)
  ELSE RetryAs("transient_backoff_retry", attempt + 1, deferrals)

DeferredForever(err, attempt, deferrals, expired) ==
  IF Deferrable(err)
  THEN RetryAs("rate_limited_deferred", attempt,
               IF deferrals >= MaxRateLimitDeferrals THEN deferrals ELSE deferrals + 1)
  ELSE Stop("permanent_failure", attempt, deferrals)

AttemptsOffByOne(err, attempt, deferrals, expired) ==
  IF expired \/ ~err.isRetryable \/ attempt > MaxNormalRetries
  THEN Stop("exhausted", attempt, deferrals)
  ELSE RetryAs("transient_backoff_retry", attempt + 1, deferrals)

calculateRetryDecision(err, attempt, deferrals, expired) ==
  CASE expired -> Stop("max_lifetime_exceeded", attempt, deferrals)
    [] ~expired /\ ~err.isRetryable -> Stop("permanent_failure", attempt, deferrals)
    [] ~expired /\ err.isRetryable /\ Deferrable(err) ->
         IF deferrals >= MaxRateLimitDeferrals
         THEN Stop("max_rate_limit_deferrals_exceeded", attempt, deferrals)
         ELSE RetryAs("rate_limited_deferred", attempt, deferrals + 1)
    [] OTHER ->
         IF attempt >= MaxNormalRetries
         THEN Stop("max_normal_retries_exceeded", attempt, deferrals)
         ELSE RetryAs("transient_backoff_retry", attempt + 1, deferrals)
=============================================================================
