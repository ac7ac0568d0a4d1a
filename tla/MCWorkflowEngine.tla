--------------------------- MODULE MCWorkflowEngine ---------------------------
(***************************************************************************)
(* Instances of WorkflowEngine: two job slots, in one process or in two.   *)
(***************************************************************************)
EXTENDS WorkflowEngine

CONSTANTS s1, s2, w1, w2

OneProcess == [i \in Slots |-> w1]
TwoProcesses == [i \in Slots |-> IF i = s1 THEN w1 ELSE w2]

\* Failures: a client error; a client error, an overload and a rate limit.
Rejected == {Answered(400, NoRetryAfter)}
OfEachClass == {Answered(400, NoRetryAfter), Answered(500, NoRetryAfter), Answered(429, 5)}
=============================================================================
