--------------------------- MODULE MCRetrySchedule ---------------------------
(***************************************************************************)
(* RetrySchedule with one answer of each class, Retry-After headers below, *)
(* between and above the delay bounds, and the code's default delays.      *)
(***************************************************************************)
EXTENDS RetrySchedule

MCAnswers ==
  {Answered(s, NoRetryAfter) : s \in {304, 400, 408, 429, 500, 503, 529}}
    \cup {Answered(s, 0) : s \in {429}}
    \cup {Answered(s, 5) : s \in {304, 404, 408, 429, 503}}
    \cup {Answered(s, 120) : s \in {429, 529}}
    \cup {Unanswered(c) : c \in {"ECONNRESET", "CERT_HAS_EXPIRED", "ETIMEDOUT"}}
MCJitters == {0, JitterMs - 1}
MCRunTimes == {50, 60000}
MCQueueTimes == {0, 90000}

=============================================================================
