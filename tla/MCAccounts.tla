------------------------------ MODULE MCAccounts ------------------------------
(* Instances of Accounts: an installation with one tenant, one role and one account. *)
EXTENDS Accounts, TLC

CONSTANTS r1, r2, r3, ann, bob, acme, globex, userRole, adminRole

OneTenant == <<acme>>
OneAccount == [e \in {ann} |-> [tenant |-> 1, role |-> userRole, by |-> Nobody]]

Alike == Permutations(Requests)
=============================================================================
