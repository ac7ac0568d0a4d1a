------------------------------- MODULE Accounts -------------------------------
(***************************************************************************)
(* The auth service: requests that register, log in, log out, change roles *)
(* and rename tenants.                                                     *)
(*                                                                         *)
(* An action is one statement in the database or in Redis with the local   *)
(* work around it; a request's first statement belongs to its beginning.   *)
(* A user is known by his email, which never changes, a tenant by its      *)
(* number, and the tokens of a session by the request that made it.        *)
(***************************************************************************)
EXTENDS Integers, Sequences, FiniteSets

CONSTANTS
  Requests,       \* the calls of the API
  Emails, Slugs,  \* what people register with: their emails and their tenants' slugs
  Roles,          \* the names of roles
  FirstTenants,   \* the tenants there are: a sequence of their slugs
  FirstRoles,     \* the roles there are
  FirstAccounts,  \* the accounts there are: a function from emails to accounts
  Nobody,         \* null: no account, or no role in a request
  MaxFaults       \* bound: statements that reject

Account == [tenant : Nat, role : Roles, by : Requests \cup {Nobody}]

ASSUME AccountsAssumption ==
  /\ Nobody \notin Requests \cup Roles \cup Account /\ MaxFaults \in Nat
  /\ Emails # {} /\ Slugs # {}
  /\ FirstTenants \in Seq(Slugs) /\ FirstRoles \subseteq Roles
  /\ \A t, u \in DOMAIN FirstTenants : FirstTenants[t] = FirstTenants[u] => t = u
  /\ DOMAIN FirstAccounts \subseteq Emails
  /\ \A e \in DOMAIN FirstAccounts :
       /\ FirstAccounts[e] \in [tenant : 1 .. Len(FirstTenants), role : FirstRoles, by : {Nobody}]

VARIABLES
  tenants,    \* the slug of each tenant
  roles,      \* the names of the roles
  accounts,   \* the account of each email, Nobody where there is none
  session,    \* what the refresh token of each request is: "none", "live", "revoked"
  blacklist,  \* the requests whose access token Redis lists as revoked
  audit,      \* the audit log: records [action, by]
  \* Each request:
  op, pc,     \* what it asks for and where it is
  email,      \* whom it is about
  slug, role, \* the slug and the role it gives, or the role it has read
  tenant,     \* the tenant it has found or made
  presented,  \* of a logout: the requests whose access token it presents, one or none
  \* History:
  raced,      \* what others have put in since it began that it may collide with
  livened,    \* of a logout: the sessions of the user it names that were live when it began
  held,       \* the roles that the account has had since it began
  faults      \* statements that have rejected

tables == <<tenants, roles, accounts, session, blacklist, audit>>
asked == <<op, email, slug, presented, livened>>
history == <<raced, held>>
vars == <<tables, op, pc, email, slug, role, tenant, presented, raced, livened, held, faults>>

Taken(s) == \E t \in DOMAIN tenants : tenants[t] = s
Known(e) == accounts[e] # Nobody

Ops == {"none", "register", "login", "logout", "verify", "changeRole", "permissions",
        "rename", "apiKey"}
\* What the audit log calls an operation.
Action(operation) ==
  CASE operation = "register" -> "user.registered" [] operation = "login" -> "user.login"
    [] operation = "logout" -> "user.logout" [] operation = "changeRole" -> "user.role_changed"
    [] operation = "permissions" -> "role.permissions_updated"
    [] operation = "rename" -> "tenant.updated" [] OTHER -> "apikey.created"
Actions == {Action(o) : o \in Ops} \cup {"token.revoked"}
Ends == {"answered", "loggedOut", "refused", "notFound", "error"}

TypeOK ==
  /\ tenants \in Seq(Slugs) /\ \A t, u \in DOMAIN tenants : tenants[t] = tenants[u] => t = u
  /\ roles \subseteq Roles
  /\ accounts \in [Emails -> Account \cup {Nobody}]
  /\ \A e \in Emails :
       Known(e) => accounts[e].tenant \in DOMAIN tenants /\ accounts[e].role \in roles
  /\ session \in [Requests -> {"none", "live", "revoked"}]
  /\ blacklist \subseteq Requests /\ audit \subseteq [action : Actions, by : Requests]
  /\ op \in [Requests -> Ops]
  /\ pc \in [Requests -> {"idle", "tenant", "createTenant", "role", "createRole", "createUser",
                          "setRole", "tokens", "revoke", "audit", "auditRevoked"} \cup Ends]
  /\ email \in [Requests -> Emails] /\ slug \in [Requests -> Slugs]
  /\ role \in [Requests -> Roles \cup {Nobody}]
  /\ tenant \in [Requests -> 0 .. Len(tenants)]
  /\ presented \in [Requests -> SUBSET Requests] /\ livened \in [Requests -> SUBSET Requests]
  /\ raced \in [Requests -> SUBSET {"tenant", "role", "account"}]
  /\ held \in [Requests -> SUBSET Roles]
  /\ faults \in 0 .. MaxFaults

Init ==
  /\ tenants = FirstTenants /\ roles = FirstRoles
  /\ accounts = [e \in Emails |-> IF e \in DOMAIN FirstAccounts THEN FirstAccounts[e] ELSE Nobody]
  /\ session = [r \in Requests |-> "none"] /\ blacklist = {} /\ audit = {}
  /\ op = [r \in Requests |-> "none"] /\ pc = [r \in Requests |-> "idle"]
  /\ email = [r \in Requests |-> CHOOSE e \in Emails : TRUE]
  /\ slug = [r \in Requests |-> CHOOSE s \in Slugs : TRUE]
  /\ role = [r \in Requests |-> Nobody] /\ tenant = [r \in Requests |-> 0]
  /\ presented = [r \in Requests |-> {}] /\ livened = [r \in Requests |-> {}]
  /\ raced = [r \in Requests |-> {}] /\ held = [r \in Requests |-> {}] /\ faults = 0

-----------------------------------------------------------------------------
Works == faults' = faults
Fails == faults < MaxFaults /\ faults' = faults + 1

Goto(r, place) == pc' = [pc EXCEPT ![r] = place]
Rejects(r) == Fails /\ Goto(r, "error")

\* The requests under way that a new row of this kind can get in the way of.
Collide(r, kind, same(_)) ==
  raced' = [q \in Requests |-> IF q # r /\ op[q] # "none" /\ same(q) THEN raced[q] \cup {kind}
                                                                     ELSE raced[q]]
Hold(e, n) ==
  held' = [q \in Requests |-> IF op[q] # "none" /\ email[q] = e THEN held[q] \cup {n} ELSE held[q]]

-----------------------------------------------------------------------------
(* How requests begin. *)

Ask(r, operation, e, s, n, place) ==
  /\ pc[r] = "idle"
  /\ op' = [op EXCEPT ![r] = operation] /\ Goto(r, place)
  /\ email' = [email EXCEPT ![r] = e] /\ slug' = [slug EXCEPT ![r] = s]
  /\ role' = [role EXCEPT ![r] = n]
  /\ held' = [held EXCEPT ![r] = IF Known(e) THEN {accounts[e].role} ELSE {}]
  /\ UNCHANGED <<tenant, raced>>
NoLogout == UNCHANGED <<presented, livened>>
Change == UNCHANGED <<tenants, roles, session, blacklist, audit>>

\* A request whose first statement reads, and leads to this place unless it rejects.
AskAndRead(r, operation, e, s, n, place) ==
  /\ \/ Works /\ Ask(r, operation, e, s, n, place)
     \/ Fails /\ Ask(r, operation, e, s, n, "error")
  /\ Change /\ UNCHANGED accounts /\ NoLogout

\* register first looks for the email.
Register(r, e, s, n) ==
  AskAndRead(r, "register", e, s, n, IF Known(e) THEN "refused" ELSE "tenant")

\* Mutant of Login: the account comes from a cache that nobody refreshes.
LoginFromCache(r, e) ==
  IF Known(e)
  THEN AskAndRead(r, "login", e, slug[r],
         IF e \in DOMAIN FirstAccounts THEN FirstAccounts[e].role ELSE accounts[e].role, "audit")
  ELSE AskAndRead(r, "login", e, slug[r], Nobody, "refused")

\* login reads the account and verifies the password, which the model has right.
Login(r, e) ==
  IF Known(e) THEN AskAndRead(r, "login", e, slug[r], accounts[e].role, "audit")
              ELSE AskAndRead(r, "login", e, slug[r], Nobody, "refused")

\* revokeToken: the access token that is presented, if any, goes to the blacklist.  The
\* user is the one the body names, whoever's the token is.
Logout(r, e, token) ==
  /\ presented' = [presented EXCEPT ![r] = token]
  /\ livened' = [livened EXCEPT ![r] = {q \in Requests : email[q] = e /\ session[q] = "live"}]
  /\ \/ Works /\ Ask(r, "logout", e, slug[r], Nobody, "revoke")
        /\ blacklist' = blacklist \cup token
     \/ Fails /\ Ask(r, "logout", e, slug[r], Nobody, "loggedOut")
        /\ blacklist' \in {blacklist, blacklist \cup token}
  /\ UNCHANGED <<tenants, roles, accounts, session, audit>>

\* verifyToken
Verify(r, q) ==
  AskAndRead(r, "verify", email[q], slug[r], Nobody, IF q \in blacklist THEN "refused" ELSE "answered")

\* Mutant of ChangeUserRole: a role that is not there is not refused.
ChangeAnyRole(r, e, n) == AskAndRead(r, "changeRole", e, slug[r], n, "setRole")

\* changeUserRole and updateRolePermissions look for the role.
ChangeUserRole(r, e, n) ==
  AskAndRead(r, "changeRole", e, slug[r], n, IF n \in roles THEN "setRole" ELSE "notFound")

UpdateRolePermissions(r, n) ==
  AskAndRead(r, "permissions", email[r], slug[r], n, IF n \in roles THEN "audit" ELSE "createRole")

\* updateTenant: slugs are unique, and 0 stands for a tenant that there is not.
CanRename(t, s) == t \in DOMAIN tenants /\ (~Taken(s) \/ tenants[t] = s)
Renamed(r, t, s) ==
  /\ CanRename(t, s) /\ tenants' = [tenants EXCEPT ![t] = s]
  /\ Collide(r, "tenant", LAMBDA q : slug[q] = s)
UpdateTenant(r, t, s) ==
  /\ pc[r] = "idle" /\ op' = [op EXCEPT ![r] = "rename"] /\ slug' = [slug EXCEPT ![r] = s]
  /\ \/ Works /\ Renamed(r, t, s) /\ Goto(r, "audit")
     \/ Works /\ ~CanRename(t, s) /\ Goto(r, "error") /\ UNCHANGED <<tenants, raced>>
     \/ Rejects(r) /\ Renamed(r, t, s)
     \/ Rejects(r) /\ UNCHANGED <<tenants, raced>>
  /\ UNCHANGED <<roles, accounts, session, blacklist, audit, email, role, tenant, held>> /\ NoLogout

\* createApiKey makes up a placeholder and logs it.
CreateApiKey(r) ==
  /\ pc[r] = "idle" /\ op' = [op EXCEPT ![r] = "apiKey"] /\ Goto(r, "audit")
  /\ Works /\ UNCHANGED <<tables, email, slug, role, tenant, history>> /\ NoLogout

\* The requests whose access token a client has.
Signed == {q \in Requests : pc[q] = "answered" /\ session[q] # "none"}

Begin(r) ==
  \/ \E e \in Emails, s \in Slugs, n \in Roles : Register(r, e, s, n)
  \/ \E e \in Emails : Login(r, e) \/ \E n \in Roles : ChangeUserRole(r, e, n)
  \/ \E e \in Emails, token \in {{q} : q \in Signed} \cup {{}} : Logout(r, e, token)
  \/ \E q \in Signed : Verify(r, q)
  \/ \E n \in Roles : UpdateRolePermissions(r, n)
  \/ \E t \in 0 .. Len(tenants), s \in Slugs : UpdateTenant(r, t, s)
  \/ CreateApiKey(r)

-----------------------------------------------------------------------------
(* The statements that follow. *)

Step(r, place) == pc[r] = place /\ UNCHANGED <<asked>>

\* Mutant of FindTenant: the tenant is taken to be new.
AssumeNoTenant(r) ==
  /\ Step(r, "tenant") /\ UNCHANGED role /\ UNCHANGED <<tables, history>>
  /\ tenant' = tenant
  /\ (Works /\ Goto(r, "createTenant")) \/ Rejects(r)

FindTenant(r) ==
  /\ Step(r, "tenant") /\ UNCHANGED role /\ UNCHANGED <<tables, history>>
  /\ \/ Works /\ \E t \in DOMAIN tenants :
          tenants[t] = slug[r] /\ tenant' = [tenant EXCEPT ![r] = t] /\ Goto(r, "role")
     \/ Works /\ ~Taken(slug[r]) /\ tenant' = tenant /\ Goto(r, "createTenant")
     \/ Rejects(r) /\ tenant' = tenant

Made(r) ==
  /\ ~Taken(slug[r]) /\ tenants' = Append(tenants, slug[r])
  /\ tenant' = [tenant EXCEPT ![r] = Len(tenants')]
  /\ Collide(r, "tenant", LAMBDA q : slug[q] = slug[r])
CreateTenant(r) ==
  /\ Step(r, "createTenant") /\ UNCHANGED <<role, held, roles, accounts, session, blacklist, audit>>
  /\ \/ Works /\ Made(r) /\ Goto(r, "role")
     \/ Works /\ Taken(slug[r]) /\ Goto(r, "error") /\ UNCHANGED <<tenants, tenant, raced>>
     \/ Rejects(r) /\ Made(r)
     \/ Rejects(r) /\ UNCHANGED <<tenants, tenant, raced>>

FindRole(r) ==
  /\ Step(r, "role") /\ UNCHANGED <<role, tenant>> /\ UNCHANGED <<tables, history>>
  /\ \/ Works /\ Goto(r, IF role[r] \in roles THEN "createUser" ELSE "createRole")
     \/ Rejects(r)

\* register and updateRolePermissions make the role they have not found.
Named(r) ==
  /\ role[r] \notin roles /\ roles' = roles \cup {role[r]}
  /\ Collide(r, "role", LAMBDA q : role[q] = role[r])
CreateRole(r) ==
  /\ Step(r, "createRole") /\ UNCHANGED <<role, tenant, held, tenants, accounts, session, blacklist, audit>>
  /\ \/ Works /\ Named(r) /\ Goto(r, IF op[r] = "register" THEN "createUser" ELSE "audit")
     \/ Works /\ role[r] \in roles /\ Goto(r, "error") /\ UNCHANGED <<roles, raced>>
     \/ Rejects(r) /\ Named(r)
     \/ Rejects(r) /\ UNCHANGED <<roles, raced>>

Enrolled(r) ==
  /\ accounts' = [accounts EXCEPT ![email[r]] =
                    [tenant |-> tenant[r], role |-> role[r], by |-> r]]
  /\ Hold(email[r], role[r]) /\ Collide(r, "account", LAMBDA q : email[q] = email[r])

\* Mutant of CreateUser: an account that is there is written over.
UpsertUser(r) ==
  /\ Step(r, "createUser") /\ UNCHANGED <<role, tenant, tenants, roles, session, blacklist, audit>>
  /\ \/ Works /\ Enrolled(r) /\ Goto(r, "audit")
     \/ Rejects(r) /\ UNCHANGED <<accounts, history>>

CreateUser(r) ==
  /\ Step(r, "createUser") /\ UNCHANGED <<role, tenant, tenants, roles, session, blacklist, audit>>
  /\ \/ Works /\ ~Known(email[r]) /\ Enrolled(r) /\ Goto(r, "audit")
     \/ Works /\ Known(email[r]) /\ Goto(r, "error") /\ UNCHANGED <<accounts, history>>
     \/ Rejects(r) /\ ~Known(email[r]) /\ Enrolled(r)
     \/ Rejects(r) /\ UNCHANGED <<accounts, history>>

SetRole(r) ==
  LET changed == /\ Known(email[r]) /\ accounts' = [accounts EXCEPT ![email[r]].role = role[r]]
                 /\ Hold(email[r], role[r])
  IN  /\ Step(r, "setRole")
      /\ UNCHANGED <<role, tenant, raced, tenants, roles, session, blacklist, audit>>
      /\ \/ Works /\ changed /\ Goto(r, "audit")
         \/ Works /\ ~Known(email[r]) /\ Goto(r, "error") /\ UNCHANGED <<accounts, held>>
         \/ Rejects(r) /\ changed
         \/ Rejects(r) /\ UNCHANGED <<accounts, held>>

\* Mutant of Revoke: only the session of the token that is presented.
RevokeOne(r) ==
  /\ Step(r, "revoke") /\ Works /\ Goto(r, "audit")
  /\ session' = [q \in Requests |-> IF q \in presented[r] THEN "revoked" ELSE session[q]]
  /\ UNCHANGED <<role, tenant, history, tenants, roles, accounts, blacklist, audit>>

\* updateMany: the user's refresh tokens that are not revoked yet.  Whatever rejects in
\* revokeToken, the answer is "Logged out".
Revoke(r) ==
  LET all == [q \in Requests |-> IF session[q] = "live" /\ email[q] = email[r] THEN "revoked"
                                                                               ELSE session[q]]
  IN  /\ Step(r, "revoke")
      /\ UNCHANGED <<role, tenant, history, tenants, roles, accounts, blacklist, audit>>
      /\ \/ Works /\ session' = all /\ Goto(r, "audit")
         \/ Fails /\ session' \in {session, all} /\ Goto(r, "loggedOut")

Afterwards(r) == CASE op[r] \in {"register", "login"} -> "tokens"
                   [] op[r] = "logout" -> "auditRevoked" [] OTHER -> "answered"
Entry(r) == [action |-> IF pc[r] = "audit" THEN Action(op[r]) ELSE "token.revoked", by |-> r]
NextPlace(r) == IF pc[r] = "audit" THEN Afterwards(r) ELSE "answered"

\* Mutant of RecordAuditLog: it is not awaited.
RecordInBackground(r) ==
  /\ pc[r] \in {"audit", "auditRevoked"} /\ audit' \in {audit, audit \cup {Entry(r)}}
  /\ Works /\ Goto(r, NextPlace(r))
  /\ UNCHANGED <<asked, role, tenant, history, tenants, roles, accounts, session, blacklist>>

RecordAuditLog(r) ==
  /\ pc[r] \in {"audit", "auditRevoked"}
  /\ \/ Works /\ audit' = audit \cup {Entry(r)} /\ Goto(r, NextPlace(r))
     \/ /\ Fails /\ audit' \in {audit, audit \cup {Entry(r)}}
        /\ Goto(r, IF op[r] = "logout" THEN "loggedOut" ELSE "error")
  /\ UNCHANGED <<asked, role, tenant, history, tenants, roles, accounts, session, blacklist>>

\* generateTokens signs the role that the request has, and stores the refresh token.
GenerateTokens(r) ==
  /\ Step(r, "tokens") /\ UNCHANGED <<role, tenant, history, tenants, roles, accounts, blacklist, audit>>
  /\ \/ Works /\ session' = [session EXCEPT ![r] = "live"] /\ Goto(r, "answered")
     \/ Rejects(r) /\ session' \in {session, [session EXCEPT ![r] = "live"]}

Statement(r) ==
  \/ FindTenant(r) \/ CreateTenant(r) \/ FindRole(r) \/ CreateRole(r) \/ CreateUser(r)
  \/ SetRole(r) \/ Revoke(r) \/ RecordAuditLog(r) \/ GenerateTokens(r)

Next == \E r \in Requests : Begin(r) \/ Statement(r)

Spec == Init /\ [][Next]_vars

-----------------------------------------------------------------------------
(* Properties. *)

\* However registrations of one email overlap, at most one gets the account: the
\* one that goes on to answer is the one whose tenant the account is in.
OneAccountPerEmail ==
  \A r \in Requests :
    /\ op[r] = "register" /\ pc[r] \in {"audit", "tokens", "answered"} =>
         accounts[email[r]].by = r /\ accounts[email[r]].tenant = tenant[r]
    /\ session[r] # "none" => Known(email[r])

\* If the database works, the check-then-create of tenant, role and account fails only
\* for a request that another one has overtaken with the same slug, role or email, and
\* such a failed registration leaves no account.
FailsOnlyInRaces ==
  faults = 0 => \A r \in Requests :
    op[r] \in {"register", "permissions"} /\ pc[r] = "error" =>
      /\ raced[r] # {}
      /\ \A e \in Emails : Known(e) => accounts[e].by # r

\* "Token revoked successfully": the access token that was presented, if any, is on the
\* blacklist, and every session that the user named by the request had when it began is
\* revoked, also if it is another device's.  It says nothing of the token's owner, whom the
\* code does not compare with the user named.
ConfirmedLogoutRevokes ==
  \A r \in Requests : op[r] = "logout" /\ pc[r] = "answered" =>
    /\ presented[r] \subseteq blacklist
    /\ \A q \in livened[r] : session[q] = "revoked"

\* What has been answered is in the audit log, and who is given tokens has a session.
AnsweredIsLogged ==
  \A r \in Requests : pc[r] = "answered" /\ op[r] # "verify" =>
    /\ [action |-> Action(op[r]), by |-> r] \in audit
    /\ op[r] = "logout" => [action |-> "token.revoked", by |-> r] \in audit
    /\ op[r] \in {"register", "login"} => session[r] # "none"

\* Tokens carry a role that the account had while the request ran: after a change of
\* role, the next login has the new one.
TokensCarryRoleHeld ==
  \A r \in Requests : session[r] # "none" => role[r] \in held[r]
=============================================================================
