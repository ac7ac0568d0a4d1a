------------------------------ MODULE MCCatalog ------------------------------
(* Instances of Catalog: two workflows of one tenant and one of another. *)
EXTENDS Catalog, TLC

CONSTANTS r1, r2, r3, acme, globex, ann, bob, eve

Person(id, role, tenant) == [id |-> id, role |-> role, tenant |-> tenant]
People == {Person(ann, "user", acme), Person(bob, "admin", acme), Person(eve, "operator", globex)}
OneField == {{f} : f \in Fields}

RowOf(id, tenant) == [tenant |-> tenant, createdById |-> id, value |-> [f \in Fields |-> NoRow]]
ThreeRows == <<RowOf(ann, acme), RowOf(eve, globex), RowOf(bob, acme)>>

Alike == Permutations(Requests)
=============================================================================
