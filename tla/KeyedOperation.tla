---------------------------- MODULE KeyedOperation ----------------------------
(***************************************************************************)
(* What triggerWorkflow promises to clients whose requests may bear one    *)
(* idempotency key, with no record, lock, poll or process in sight:        *)
(*   - an answer is an execution that has a job;                           *)
(*   - a request adds one job, and is answered with its execution; only a  *)
(*     request with the key may be answered with another's instead, and    *)
(*     never with that of a request without the key;                       *)
(*   - a request that comes after an answer to a peer with the key adds no *)
(*     job, and nobody is refused or adds a second one, unless something   *)
(*     has gone wrong.                                                     *)
(* It does not promise one execution per key: see OncePerKey. Nor does it  *)
(* promise that all requests are peers: with Redis they are, without it    *)
(* only those of one process.                                              *)
(* ApiIdempotency implements this specification                            *)
(* (ImplementsKeyedOperation).                                             *)
(***************************************************************************)
EXTENDS Naturals

CONSTANT Requests   \* API calls

VARIABLES
  stage,    \* of each request: new, begun, served, then answered or refused
  keyed,    \* the requests that bear the key
  peers,    \* of each request, those whose answers it can be given
  late,     \* the requests with the key that began after an answer to a peer
  answer,   \* the execution a request is, or is to be, answered with
  queued,   \* the executions that have been given a job
  troubled  \* whether anything has gone wrong

vars == <<stage, keyed, peers, late, answer, queued, troubled>>

Stages == {"new", "begun", "served", "answered", "refused"}
NoAnswer == 0

Init ==
  /\ stage = [r \in Requests |-> "new"] /\ keyed = {} /\ late = {}
  /\ peers \in [Requests -> SUBSET Requests]
  /\ answer = [r \in Requests |-> NoAnswer] /\ queued = {} /\ troubled = FALSE

\* Trouble may begin with any step, and stays.
Watch == troubled => troubled'

Begin(r, withKey) ==
  /\ stage[r] = "new" /\ stage' = [stage EXCEPT ![r] = "begun"]
  /\ keyed' = IF withKey THEN keyed \cup {r} ELSE keyed
  /\ late' = IF withKey /\ \E q \in keyed \cap peers[r] : stage[q] = "answered"
             THEN late \cup {r} ELSE late
  /\ UNCHANGED <<peers, answer, queued, troubled>>

AddsJob(e) == e \notin queued /\ queued' = queued \cup {e}

\* A job for the request, which may be answered at once.
Serve(r, e) ==
  /\ stage[r] = "begun" /\ (r \in late => troubled) /\ AddsJob(e)
  /\ \E place \in {"served", "answered"} : stage' = [stage EXCEPT ![r] = place]
  /\ answer' = [answer EXCEPT ![r] = e]
  /\ Watch /\ UNCHANGED <<keyed, peers, late>>

Answer(r) ==
  /\ stage[r] = "served" /\ stage' = [stage EXCEPT ![r] = "answered"]
  /\ Watch /\ UNCHANGED <<keyed, peers, late, answer, queued>>

\* The answer is the execution of another request with the key.
Reuse(r, e) ==
  /\ stage[r] = "begun" /\ r \in keyed
  /\ e \in queued /\ \A q \in Requests \ keyed : answer[q] # e
  /\ stage' = [stage EXCEPT ![r] = "answered"] /\ answer' = [answer EXCEPT ![r] = e]
  /\ Watch /\ UNCHANGED <<keyed, peers, late, queued>>

\* When something goes wrong, requests in progress are refused or start again, and a job
\* may have been added for one of them.
Stumble ==
  /\ troubled' /\ stage' \in [Requests -> Stages] /\ answer' \in [Requests -> Nat]
  /\ \A r \in Requests :
       \/ stage'[r] = stage[r] /\ answer'[r] = answer[r]
       \/ /\ stage[r] \in {"begun", "served"} /\ stage'[r] \in {"begun", "refused"}
          /\ answer'[r] = NoAnswer
  /\ queued' = queued \/ \E e \in queued' : AddsJob(e)
  /\ UNCHANGED <<keyed, peers, late>>

Next ==
  \/ \E r \in Requests : \/ \E withKey \in BOOLEAN : Begin(r, withKey)
                         \/ \E e \in queued' : Serve(r, e)
                         \/ Answer(r)
                         \/ \E e \in queued : Reuse(r, e)
  \/ Stumble

Spec == Init /\ [][Next]_vars
=============================================================================
