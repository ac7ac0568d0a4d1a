------------------------------ MODULE MCLimiters ------------------------------
(* Instances of Limiters: three callers of two tenants and one provider. *)
EXTENDS Limiters, TLC

CONSTANTS c1, c2, c3, acme, globex, api

Tenants == (c1 :> acme) @@ (c2 :> acme) @@ (c3 :> globex)
OneProvider == [c \in {c1, c2, c3} |-> api]
OwnStep == [c \in {c1, c2, c3} |-> c]

Counter(limiter, name, tenant, provider) ==
  [limiter |-> limiter, scope |-> name, tenant |-> tenant, provider |-> provider, step |-> Unused]

\* A rate and slots for one tenant and for all, and the gateway's window of each tenant.
SmallLimits ==
  (Counter("rate", "tenant_provider", acme, api) :> 1) @@ (Counter("rate", "global", Unused, Unused) :> 2)
  @@ (Counter("conc", "tenant", acme, Unused) :> 1)
  @@ (Counter("conc", "global", Unused, Unused) :> 1)
  @@ (Counter("gate", "tenant", acme, Unused) :> 1) @@ (Counter("gate", "tenant", globex, Unused) :> 1)

\* Callers of one tenant are alike.
Alike == Permutations({c1, c2})
=============================================================================
