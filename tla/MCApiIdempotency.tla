-------------------------- MODULE MCApiIdempotency --------------------------
(* Instances of ApiIdempotency: requests r1 and r2 in one process, r3 in another. *)
EXTENDS ApiIdempotency, TLC

CONSTANTS r1, r2, r3, p1, p2

TwoAndOne == (r1 :> p1) @@ (r2 :> p1) @@ (r3 :> p2)
=============================================================================
