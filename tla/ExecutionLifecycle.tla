-------------------------- MODULE ExecutionLifecycle --------------------------
(***************************************************************************)
(* What the workflow service promises to whoever polls an execution, with  *)
(* no queue, worker, step or lease in sight:                               *)
(*   - it is created once, as pending, and completes only from a claimed   *)
(*     status;                                                             *)
(*   - it is failed only by a handler that has put a dead letter where the *)
(*     operators find it, and a completed execution is never failed;       *)
(*   - once completed or failed, only a request that has seen a dead       *)
(*     letter opens it again, and at most once.                            *)
(* WorkflowEngine implements this specification (ImplementsLifecycle).   *)
(***************************************************************************)

CONSTANTS
  Handlers,   \* whoever may give an execution up
  Letters,    \* dead letters
  Requests    \* replay requests

VARIABLES
  status,   \* the status the API reports
  buried,   \* the dead letters an operator can see
  giving,   \* the handlers that have buried the execution, not yet failed it
  replaying \* the requests that have seen a letter, not yet reopened it

vars == <<status, buried, giving, replaying>>

Live == {"pending", "running", "retrying"}
Claimed == {"running", "retrying"}

Init == status = "none" /\ buried = {} /\ giving = {} /\ replaying = {}

Create ==
  /\ status = "none" /\ status' = "pending"
  /\ UNCHANGED <<buried, giving, replaying>>

\* A job starts, or a stale step sends the execution back.
Work ==
  /\ status \in Live /\ status' \in Claimed
  /\ UNCHANGED <<buried, giving, replaying>>

Complete ==
  /\ status \in Claimed /\ status' = "completed"
  /\ UNCHANGED <<buried, giving, replaying>>

Bury(h, l) ==
  /\ h \notin giving /\ l \notin buried
  /\ giving' = giving \cup {h} /\ buried' = buried \cup {l}
  /\ UNCHANGED <<status, replaying>>

GiveUp(h) ==
  /\ h \in giving /\ giving' = giving \ {h}
  /\ status' = IF status = "completed" THEN status ELSE "failed"
  /\ UNCHANGED <<buried, replaying>>

See(r, l) ==
  /\ l \in buried /\ r \notin replaying
  /\ replaying' = replaying \cup {r}
  /\ UNCHANGED <<status, buried, giving>>

\* The letter goes; another request may have been faster.
UseUp(l) ==
  /\ replaying # {} /\ buried' = buried \ {l}
  /\ UNCHANGED <<status, giving, replaying>>

Reopen(r) ==
  /\ r \in replaying /\ replaying' = replaying \ {r}
  /\ status' = "running"
  /\ UNCHANGED <<buried, giving>>

\* Requests are refused, and a crash loses handlers and requests half-way; it never
\* loses a dead letter.
Forget ==
  /\ giving' \subseteq giving /\ replaying' \subseteq replaying
  /\ UNCHANGED <<status, buried>>

Next ==
  \/ Create \/ Work \/ Complete \/ Forget
  \/ \E h \in Handlers : GiveUp(h) \/ \E l \in Letters : Bury(h, l)
  \/ \E l \in Letters : UseUp(l)
  \/ \E r \in Requests : Reopen(r) \/ \E l \in Letters : See(r, l)

Spec == Init /\ [][Next]_vars
=============================================================================
