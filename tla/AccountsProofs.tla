---------------------------- MODULE AccountsProofs ----------------------------
(***************************************************************************)
(* Theorems about Accounts, for all sets of requests, people, tenants and  *)
(* roles and any number of rejected statements.                            *)
(***************************************************************************)
EXTENDS Accounts, TLAPS

\* The type invariant in parts, with what the place of a request says about it.
RequestsOK ==
  /\ op \in [Requests -> Ops]
  /\ pc \in [Requests -> {"idle", "tenant", "createTenant", "role", "createRole", "createUser",
                          "setRole", "tokens", "revoke", "audit", "auditRevoked"} \cup Ends]
  /\ email \in [Requests -> Emails] /\ slug \in [Requests -> Slugs]
  /\ role \in [Requests -> Roles \cup {Nobody}]
  /\ session \in [Requests -> {"none", "live", "revoked"}]

PathsOK ==
  \A r \in Requests :
    /\ pc[r] = "idle" <=> op[r] = "none"
    /\ pc[r] \in {"tenant", "createTenant", "role", "createUser"} => op[r] = "register"
    /\ pc[r] = "createRole" => op[r] \in {"register", "permissions"}
    /\ pc[r] = "setRole" => op[r] = "changeRole"
    /\ pc[r] \in {"revoke", "auditRevoked"} => op[r] = "logout"
    /\ pc[r] = "tokens" => op[r] \in {"register", "login"}
    /\ pc[r] = "audit" => op[r] \notin {"none", "verify"}
    /\ pc[r] \notin {"answered", "error"} => session[r] = "none"
    /\ op[r] \in {"register", "permissions", "changeRole"} => role[r] \in Roles

HistoryOK ==
  /\ blacklist \subseteq Requests /\ audit \subseteq [action : Actions, by : Requests]
  /\ presented \in [Requests -> SUBSET Requests] /\ livened \in [Requests -> SUBSET Requests]
  /\ raced \in [Requests -> SUBSET {"tenant", "role", "account"}]
  /\ held \in [Requests -> SUBSET Roles]
  /\ faults \in 0 .. MaxFaults

TablesOK ==
  /\ tenants \in Seq(Slugs) /\ \A t, u \in DOMAIN tenants : tenants[t] = tenants[u] => t = u
  /\ roles \subseteq Roles
  /\ tenant \in [Requests -> 0 .. Len(tenants)]

\* What a request has found stays: tenants and roles are never removed.
FoundOK ==
  \A r \in Requests :
    /\ pc[r] \in {"role", "createRole", "createUser"} /\ op[r] = "register" => tenant[r] # 0
    /\ pc[r] \in {"createUser", "setRole"} => role[r] \in roles

AccountsOK ==
  /\ accounts \in [Emails -> Account \cup {Nobody}]
  /\ \A e \in Emails :
       Known(e) => accounts[e].tenant \in DOMAIN tenants /\ accounts[e].role \in roles

TypeInv == RequestsOK /\ PathsOK /\ HistoryOK /\ TablesOK /\ FoundOK /\ AccountsOK

LEMMA TypeInit == Init => TypeInv
<1> SUFFICES ASSUME Init PROVE TypeInv OBVIOUS
<1> USE AccountsAssumption DEF Init
<1>1. RequestsOK /\ PathsOK BY DEF RequestsOK, PathsOK, Ops, Ends
<1>2. HistoryOK BY DEF HistoryOK
<1>5. FoundOK BY DEF FoundOK
<1>3. TablesOK BY DEF TablesOK
<1>4. AccountsOK
  <2> SUFFICES ASSUME NEW e \in Emails
               PROVE  /\ accounts[e] \in Account \cup {Nobody} /\ accounts \in [Emails -> Account \cup {Nobody}]
                      /\ Known(e) => accounts[e].tenant \in DOMAIN tenants /\ accounts[e].role \in roles
    BY DEF AccountsOK, Known
  <2> QED BY DEF Known, Account
<1> QED BY <1>1, <1>2, <1>3, <1>4, <1>5 DEF TypeInv

\* A request stays at one of its places.
LEMMA RequestsStep == RequestsOK /\ AccountsOK /\ [Next]_vars => RequestsOK'
<1> SUFFICES ASSUME RequestsOK, AccountsOK, [Next]_vars PROVE RequestsOK' OBVIOUS
<1>a. \A e \in Emails : Known(e) => accounts[e].role \in Roles
  BY DEF AccountsOK, Known, Account
<1> USE AccountsAssumption, <1>a DEF RequestsOK, Ops, Ends
<1>1. ASSUME NEW r \in Requests, NEW e \in Emails, NEW s \in Slugs, NEW n \in Roles, Register(r, e, s, n) PROVE RequestsOK'
  BY <1>1 DEF Register, AskAndRead, Ask, Works, Fails, Change, NoLogout, Goto
<1>2. ASSUME NEW r \in Requests, NEW e \in Emails, Login(r, e) PROVE RequestsOK'
  <2>1. CASE Known(e)
    <3>1. /\ accounts[e].role \in Roles /\ session' = session
          /\ \/ Ask(r, "login", e, slug[r], accounts[e].role, "audit")
             \/ Ask(r, "login", e, slug[r], accounts[e].role, "error")
      BY <1>2, <2>1 DEF Login, AskAndRead, Change
    <3>2. CASE Ask(r, "login", e, slug[r], accounts[e].role, "audit")
      BY <3>1, <3>2 DEF Ask, Goto
    <3>3. CASE Ask(r, "login", e, slug[r], accounts[e].role, "error")
      BY <3>1, <3>3 DEF Ask, Goto
    <3> QED BY <3>1, <3>2, <3>3
  <2>2. CASE ~Known(e)
    BY <1>2, <2>2 DEF Login, AskAndRead, Ask, Goto, Works, Fails, Change, NoLogout
  <2> QED BY <2>1, <2>2
<1>3. ASSUME NEW r \in Requests, NEW e \in Emails, NEW n \in Roles, ChangeUserRole(r, e, n) PROVE RequestsOK'
  BY <1>3 DEF ChangeUserRole, AskAndRead, Ask, Works, Fails, Change, NoLogout, Goto
<1>4. ASSUME NEW r \in Requests, NEW e \in Emails, NEW token \in SUBSET Requests, Logout(r, e, token) PROVE RequestsOK'
  <2>1. CASE Ask(r, "logout", e, slug[r], Nobody, "revoke")
    BY <1>4, <2>1 DEF Ask, Goto, Logout
  <2>2. CASE Ask(r, "logout", e, slug[r], Nobody, "loggedOut")
    BY <1>4, <2>2 DEF Ask, Goto, Logout
  <2> QED BY <1>4, <2>1, <2>2 DEF Logout
<1>5. ASSUME NEW r \in Requests, NEW q \in Requests, Verify(r, q) PROVE RequestsOK'
  BY <1>5 DEF Verify, AskAndRead, Ask, Works, Fails, Change, NoLogout, Goto
<1>6. ASSUME NEW r \in Requests, NEW n \in Roles, UpdateRolePermissions(r, n) PROVE RequestsOK'
  BY <1>6 DEF UpdateRolePermissions, AskAndRead, Ask, Works, Fails, Change, NoLogout, Goto
<1>7. ASSUME NEW r \in Requests, NEW t \in 0 .. Len(tenants), NEW s \in Slugs, UpdateTenant(r, t, s) PROVE RequestsOK'
  BY <1>7 DEF UpdateTenant, Renamed, CanRename, Works, Rejects, Fails, Collide, Taken, NoLogout, Goto
<1>8. ASSUME NEW r \in Requests, CreateApiKey(r) PROVE RequestsOK'
  BY <1>8 DEF CreateApiKey, Works, NoLogout, tables, history, Goto
<1>9. ASSUME NEW r \in Requests, FindTenant(r) PROVE RequestsOK'
  BY <1>9 DEF FindTenant, Step, Works, Rejects, Fails, asked, tables, history, Taken, Goto
<1>10. ASSUME NEW r \in Requests, CreateTenant(r) PROVE RequestsOK'
  BY <1>10 DEF CreateTenant, Made, Step, Works, Rejects, Fails, asked, Taken, Collide, Goto
<1>11. ASSUME NEW r \in Requests, FindRole(r) PROVE RequestsOK'
  BY <1>11 DEF FindRole, Step, Works, Rejects, Fails, asked, tables, history, Goto
<1>12. ASSUME NEW r \in Requests, CreateRole(r) PROVE RequestsOK'
  BY <1>12 DEF CreateRole, Named, Step, Works, Rejects, Fails, asked, Collide, Goto
<1>13. ASSUME NEW r \in Requests, CreateUser(r) PROVE RequestsOK'
  BY <1>13 DEF CreateUser, Enrolled, Step, Works, Rejects, Fails, asked, Collide, Hold, history, Goto
<1>14. ASSUME NEW r \in Requests, SetRole(r) PROVE RequestsOK'
  BY <1>14 DEF SetRole, Step, Works, Rejects, Fails, asked, Hold, Goto
<1>15. ASSUME NEW r \in Requests, Revoke(r) PROVE RequestsOK'
  <2>1. CASE session' = session
    BY <1>15, <2>1 DEF Revoke, Step, asked, Goto
  <2>2. CASE session' # session
    BY <1>15, <2>2 DEF Revoke, Step, asked, Goto
  <2> QED BY <2>1, <2>2
<1>16. ASSUME NEW r \in Requests, RecordAuditLog(r) PROVE RequestsOK'
  BY <1>16 DEF RecordAuditLog, Works, Fails, asked, history, Entry, NextPlace, Afterwards, Goto
<1>17. ASSUME NEW r \in Requests, GenerateTokens(r) PROVE RequestsOK'
  BY <1>17 DEF GenerateTokens, Step, Works, Rejects, Fails, asked, history, Goto
<1>18. CASE UNCHANGED vars BY <1>18 DEF vars, tables, Known
<1> QED
  BY <1>1, <1>2, <1>3, <1>4, <1>5, <1>6, <1>7, <1>8, <1>9, <1>10, <1>11, <1>12, <1>13, <1>14, <1>15, <1>16, <1>17, <1>18 DEF Next, Begin, Statement, Signed

\* Each place belongs to its operations, and a session is the last that a request makes.
LEMMA PathsStep == RequestsOK /\ PathsOK /\ [Next]_vars => PathsOK'
<1> SUFFICES ASSUME RequestsOK, PathsOK, [Next]_vars PROVE PathsOK' OBVIOUS
<1> USE AccountsAssumption DEF RequestsOK, PathsOK, Ops, Ends
<1>1. ASSUME NEW r \in Requests, NEW e \in Emails, NEW s \in Slugs, NEW n \in Roles, Register(r, e, s, n) PROVE PathsOK'
  BY <1>1 DEF Register, AskAndRead, Ask, Works, Fails, Change, NoLogout, Goto
<1>2. ASSUME NEW r \in Requests, NEW e \in Emails, Login(r, e) PROVE PathsOK'
  BY <1>2 DEF Login, AskAndRead, Ask, Works, Fails, Change, NoLogout, Goto
<1>3. ASSUME NEW r \in Requests, NEW e \in Emails, NEW n \in Roles, ChangeUserRole(r, e, n) PROVE PathsOK'
  BY <1>3 DEF ChangeUserRole, AskAndRead, Ask, Works, Fails, Change, NoLogout, Goto
<1>4. ASSUME NEW r \in Requests, NEW e \in Emails, NEW token \in SUBSET Requests, Logout(r, e, token) PROVE PathsOK'
  BY <1>4 DEF Logout, Ask, Works, Fails, Goto
<1>5. ASSUME NEW r \in Requests, NEW q \in Requests, Verify(r, q) PROVE PathsOK'
  BY <1>5 DEF Verify, AskAndRead, Ask, Works, Fails, Change, NoLogout, Goto
<1>6. ASSUME NEW r \in Requests, NEW n \in Roles, UpdateRolePermissions(r, n) PROVE PathsOK'
  BY <1>6 DEF UpdateRolePermissions, AskAndRead, Ask, Works, Fails, Change, NoLogout, Goto
<1>7. ASSUME NEW r \in Requests, NEW t \in 0 .. Len(tenants), NEW s \in Slugs, UpdateTenant(r, t, s) PROVE PathsOK'
  BY <1>7 DEF UpdateTenant, Renamed, CanRename, Works, Rejects, Fails, Collide, Taken, NoLogout, Goto
<1>8. ASSUME NEW r \in Requests, CreateApiKey(r) PROVE PathsOK'
  BY <1>8 DEF CreateApiKey, Works, NoLogout, tables, history, Goto
<1>9. ASSUME NEW r \in Requests, FindTenant(r) PROVE PathsOK'
  BY <1>9 DEF FindTenant, Step, Works, Rejects, Fails, asked, tables, history, Taken, Goto
<1>10. ASSUME NEW r \in Requests, CreateTenant(r) PROVE PathsOK'
  BY <1>10 DEF CreateTenant, Made, Step, Works, Rejects, Fails, asked, Taken, Collide, Goto
<1>11. ASSUME NEW r \in Requests, FindRole(r) PROVE PathsOK'
  BY <1>11 DEF FindRole, Step, Works, Rejects, Fails, asked, tables, history, Goto
<1>12. ASSUME NEW r \in Requests, CreateRole(r) PROVE PathsOK'
  BY <1>12 DEF CreateRole, Named, Step, Works, Rejects, Fails, asked, Collide, Goto
<1>13. ASSUME NEW r \in Requests, CreateUser(r) PROVE PathsOK'
  BY <1>13 DEF CreateUser, Enrolled, Step, Works, Rejects, Fails, asked, Collide, Hold, history, Goto
<1>14. ASSUME NEW r \in Requests, SetRole(r) PROVE PathsOK'
  BY <1>14 DEF SetRole, Step, Works, Rejects, Fails, asked, Hold, Goto
<1>15. ASSUME NEW r \in Requests, Revoke(r) PROVE PathsOK'
  BY <1>15 DEF Revoke, Step, Works, Fails, asked, history, Goto
<1>16. ASSUME NEW r \in Requests, RecordAuditLog(r) PROVE PathsOK'
  BY <1>16 DEF RecordAuditLog, Works, Fails, asked, history, Entry, NextPlace, Afterwards, Goto
<1>17. ASSUME NEW r \in Requests, GenerateTokens(r) PROVE PathsOK'
  BY <1>17 DEF GenerateTokens, Step, Works, Rejects, Fails, asked, history, Goto
<1>18. CASE UNCHANGED vars BY <1>18 DEF vars, tables, Known
<1> QED
  BY <1>1, <1>2, <1>3, <1>4, <1>5, <1>6, <1>7, <1>8, <1>9, <1>10, <1>11, <1>12, <1>13, <1>14, <1>15, <1>16, <1>17, <1>18 DEF Next, Begin, Statement, Signed

\* The history is about requests and roles.
LEMMA HistoryStep == RequestsOK /\ PathsOK /\ AccountsOK /\ HistoryOK /\ [Next]_vars => HistoryOK'
<1> SUFFICES ASSUME RequestsOK, PathsOK, AccountsOK, HistoryOK, [Next]_vars PROVE HistoryOK' OBVIOUS
<1>a. \A e \in Emails : Known(e) => accounts[e].role \in Roles
  BY DEF AccountsOK, Known, Account
<1> USE AccountsAssumption, <1>a DEF RequestsOK, PathsOK, HistoryOK, Ops
<1>1. ASSUME NEW r \in Requests, NEW e \in Emails, NEW s \in Slugs, NEW n \in Roles, Register(r, e, s, n) PROVE HistoryOK'
  BY <1>1 DEF Register, AskAndRead, Ask, Works, Fails, Change, NoLogout, Goto
<1>2. ASSUME NEW r \in Requests, NEW e \in Emails, Login(r, e) PROVE HistoryOK'
  <2>1. CASE Known(e)
    BY <1>2, <2>1 DEF Login, AskAndRead, Ask, Works, Fails, Change, NoLogout
  <2>2. CASE ~Known(e)
    BY <1>2, <2>2 DEF Login, AskAndRead, Ask, Works, Fails, Change, NoLogout
  <2> QED BY <2>1, <2>2
<1>3. ASSUME NEW r \in Requests, NEW e \in Emails, NEW n \in Roles, ChangeUserRole(r, e, n) PROVE HistoryOK'
  BY <1>3 DEF ChangeUserRole, AskAndRead, Ask, Works, Fails, Change, NoLogout, Goto
<1>4. ASSUME NEW r \in Requests, NEW e \in Emails, NEW token \in SUBSET Requests, Logout(r, e, token) PROVE HistoryOK'
  <2>1. presented' \in [Requests -> SUBSET Requests] /\ livened' \in [Requests -> SUBSET Requests]
    BY <1>4 DEF Logout
  <2>2. blacklist' \subseteq Requests /\ audit' = audit /\ faults' \in 0 .. MaxFaults
    BY <1>4 DEF Logout, Works, Fails
  <2>3. raced' = raced /\ held' \in [Requests -> SUBSET Roles]
    BY <1>4 DEF Logout, Ask
  <2> QED BY <2>1, <2>2, <2>3
<1>5. ASSUME NEW r \in Requests, NEW q \in Requests, Verify(r, q) PROVE HistoryOK'
  BY <1>5 DEF Verify, AskAndRead, Ask, Works, Fails, Change, NoLogout, Goto
<1>6. ASSUME NEW r \in Requests, NEW n \in Roles, UpdateRolePermissions(r, n) PROVE HistoryOK'
  BY <1>6 DEF UpdateRolePermissions, AskAndRead, Ask, Works, Fails, Change, NoLogout, Goto
<1>7. ASSUME NEW r \in Requests, NEW t \in 0 .. Len(tenants), NEW s \in Slugs, UpdateTenant(r, t, s) PROVE HistoryOK'
  BY <1>7 DEF UpdateTenant, Renamed, CanRename, Works, Rejects, Fails, Collide, Taken, NoLogout, Goto
<1>8. ASSUME NEW r \in Requests, CreateApiKey(r) PROVE HistoryOK'
  BY <1>8 DEF CreateApiKey, Works, NoLogout, tables, history, Goto
<1>9. ASSUME NEW r \in Requests, FindTenant(r) PROVE HistoryOK'
  BY <1>9 DEF FindTenant, Step, Works, Rejects, Fails, asked, tables, history, Taken, Goto
<1>10. ASSUME NEW r \in Requests, CreateTenant(r) PROVE HistoryOK'
  <2>1. CASE Made(r)
    BY <1>10, <2>1 DEF CreateTenant, Made, Step, Works, Rejects, Fails, asked, Collide
  <2>2. CASE UNCHANGED raced
    BY <1>10, <2>2 DEF CreateTenant, Step, Works, Rejects, Fails, asked
  <2> QED BY <1>10, <2>1, <2>2 DEF CreateTenant
<1>11. ASSUME NEW r \in Requests, FindRole(r) PROVE HistoryOK'
  BY <1>11 DEF FindRole, Step, Works, Rejects, Fails, asked, tables, history, Goto
<1>12. ASSUME NEW r \in Requests, CreateRole(r) PROVE HistoryOK'
  <2>1. CASE Named(r)
    BY <1>12, <2>1 DEF CreateRole, Named, Step, Works, Rejects, Fails, asked, Collide
  <2>2. CASE UNCHANGED raced
    BY <1>12, <2>2 DEF CreateRole, Step, Works, Rejects, Fails, asked
  <2> QED BY <1>12, <2>1, <2>2 DEF CreateRole
<1>13. ASSUME NEW r \in Requests, CreateUser(r) PROVE HistoryOK'
  <2>1. role[r] \in Roles BY <1>13 DEF CreateUser, Step
  <2>2. CASE Enrolled(r)
    BY <1>13, <2>1, <2>2 DEF CreateUser, Enrolled, Step, Works, Rejects, Fails, asked, Collide, Hold
  <2>3. CASE UNCHANGED history
    BY <1>13, <2>3 DEF CreateUser, Step, Works, Rejects, Fails, asked, history
  <2> QED BY <1>13, <2>2, <2>3 DEF CreateUser
<1>14. ASSUME NEW r \in Requests, SetRole(r) PROVE HistoryOK'
  <2>1. role[r] \in Roles BY <1>14 DEF SetRole, Step
  <2>2. CASE Hold(email[r], role[r])
    BY <1>14, <2>1, <2>2 DEF SetRole, Step, Works, Rejects, Fails, asked, Hold
  <2>3. CASE UNCHANGED held
    BY <1>14, <2>3 DEF SetRole, Step, Works, Rejects, Fails, asked
  <2> QED BY <1>14, <2>2, <2>3 DEF SetRole
<1>15. ASSUME NEW r \in Requests, Revoke(r) PROVE HistoryOK'
  BY <1>15 DEF Revoke, Step, Works, Fails, asked, history, Goto
<1>16. ASSUME NEW r \in Requests, RecordAuditLog(r) PROVE HistoryOK'
  <2>1. Entry(r) \in [action : Actions, by : Requests]
    BY DEF Entry, Actions
  <2> QED BY <1>16, <2>1 DEF RecordAuditLog, Works, Fails, asked, history
<1>17. ASSUME NEW r \in Requests, GenerateTokens(r) PROVE HistoryOK'
  BY <1>17 DEF GenerateTokens, Step, Works, Rejects, Fails, asked, history, Goto
<1>18. CASE UNCHANGED vars BY <1>18 DEF vars, tables, Known
<1> QED
  BY <1>1, <1>2, <1>3, <1>4, <1>5, <1>6, <1>7, <1>8, <1>9, <1>10, <1>11, <1>12, <1>13, <1>14, <1>15, <1>16, <1>17, <1>18 DEF Next, Begin, Statement, Signed

\* Slugs stay unique.
LEMMA TablesStep == RequestsOK /\ PathsOK /\ TablesOK /\ [Next]_vars => TablesOK'
<1> SUFFICES ASSUME RequestsOK, PathsOK, TablesOK, [Next]_vars PROVE TablesOK' OBVIOUS
<1> USE AccountsAssumption DEF RequestsOK, PathsOK, TablesOK
<1>1. ASSUME NEW r \in Requests, NEW e \in Emails, NEW s \in Slugs, NEW n \in Roles, Register(r, e, s, n) PROVE TablesOK'
  BY <1>1 DEF Register, AskAndRead, Ask, Works, Fails, Change, NoLogout, Goto
<1>2. ASSUME NEW r \in Requests, NEW e \in Emails, Login(r, e) PROVE TablesOK'
  BY <1>2 DEF Login, AskAndRead, Ask, Works, Fails, Change, NoLogout, Goto
<1>3. ASSUME NEW r \in Requests, NEW e \in Emails, NEW n \in Roles, ChangeUserRole(r, e, n) PROVE TablesOK'
  BY <1>3 DEF ChangeUserRole, AskAndRead, Ask, Works, Fails, Change, NoLogout, Goto
<1>4. ASSUME NEW r \in Requests, NEW e \in Emails, NEW token \in SUBSET Requests, Logout(r, e, token) PROVE TablesOK'
  BY <1>4 DEF Logout, Ask, Works, Fails, Goto
<1>5. ASSUME NEW r \in Requests, NEW q \in Requests, Verify(r, q) PROVE TablesOK'
  BY <1>5 DEF Verify, AskAndRead, Ask, Works, Fails, Change, NoLogout, Goto
<1>6. ASSUME NEW r \in Requests, NEW n \in Roles, UpdateRolePermissions(r, n) PROVE TablesOK'
  BY <1>6 DEF UpdateRolePermissions, AskAndRead, Ask, Works, Fails, Change, NoLogout, Goto
<1>7. ASSUME NEW r \in Requests, NEW t \in 0 .. Len(tenants), NEW s \in Slugs, UpdateTenant(r, t, s) PROVE TablesOK'
  <2>1. CASE UNCHANGED tenants
    BY <1>7, <2>1 DEF UpdateTenant, Works, Taken, NoLogout
  <2>2. CASE Renamed(r, t, s)
    <3>1. tenants' \in Seq(Slugs) /\ Len(tenants') = Len(tenants) /\ DOMAIN tenants' = DOMAIN tenants
      BY <2>2 DEF Renamed, CanRename
    <3>2. \A u \in DOMAIN tenants : tenants'[u] = IF u = t THEN s ELSE tenants[u]
      BY <2>2 DEF Renamed, CanRename
    <3> QED BY <1>7, <2>2, <3>1, <3>2 DEF UpdateTenant, Renamed, CanRename, Taken, NoLogout
  <2> QED BY <1>7, <2>1, <2>2 DEF UpdateTenant
<1>8. ASSUME NEW r \in Requests, CreateApiKey(r) PROVE TablesOK'
  BY <1>8 DEF CreateApiKey, Works, NoLogout, tables, history, Goto
<1>9. ASSUME NEW r \in Requests, FindTenant(r) PROVE TablesOK'
  BY <1>9 DEF FindTenant, Step, Works, Rejects, Fails, asked, tables, history, Taken, Goto
<1>10. ASSUME NEW r \in Requests, CreateTenant(r) PROVE TablesOK'
  <2>1. CASE UNCHANGED <<tenants, tenant>>
    BY <1>10, <2>1 DEF CreateTenant, Step, asked
  <2>2. CASE Made(r)
    <3>1. /\ tenants' \in Seq(Slugs) /\ Len(tenants') = Len(tenants) + 1
          /\ \A u \in 1 .. Len(tenants') : tenants'[u] = IF u <= Len(tenants) THEN tenants[u] ELSE slug[r]
      BY <2>2 DEF Made
    <3>2. \A t, u \in DOMAIN tenants' : tenants'[t] = tenants'[u] => t = u
      BY <2>2, <3>1 DEF Made, Taken
    <3>3. tenant' \in [Requests -> 0 .. Len(tenants')]
      BY <2>2, <3>1 DEF Made
    <3> QED BY <1>10, <3>1, <3>2, <3>3 DEF CreateTenant, Step, asked
  <2> QED BY <1>10, <2>1, <2>2 DEF CreateTenant
<1>11. ASSUME NEW r \in Requests, FindRole(r) PROVE TablesOK'
  BY <1>11 DEF FindRole, Step, Works, Rejects, Fails, asked, tables, history, Goto
<1>12. ASSUME NEW r \in Requests, CreateRole(r) PROVE TablesOK'
  BY <1>12 DEF CreateRole, Named, Step, Works, Rejects, Fails, asked, Collide, Goto
<1>13. ASSUME NEW r \in Requests, CreateUser(r) PROVE TablesOK'
  BY <1>13 DEF CreateUser, Enrolled, Step, Works, Rejects, Fails, asked, Collide, Hold, history, Goto
<1>14. ASSUME NEW r \in Requests, SetRole(r) PROVE TablesOK'
  BY <1>14 DEF SetRole, Step, Works, Rejects, Fails, asked, Hold, Goto
<1>15. ASSUME NEW r \in Requests, Revoke(r) PROVE TablesOK'
  BY <1>15 DEF Revoke, Step, Works, Fails, asked, history, Goto
<1>16. ASSUME NEW r \in Requests, RecordAuditLog(r) PROVE TablesOK'
  BY <1>16 DEF RecordAuditLog, Works, Fails, asked, history, Entry, NextPlace, Afterwards, Goto
<1>17. ASSUME NEW r \in Requests, GenerateTokens(r) PROVE TablesOK'
  BY <1>17 DEF GenerateTokens, Step, Works, Rejects, Fails, asked, history, Goto
<1>18. CASE UNCHANGED vars BY <1>18 DEF vars, tables, Known
<1> QED
  BY <1>1, <1>2, <1>3, <1>4, <1>5, <1>6, <1>7, <1>8, <1>9, <1>10, <1>11, <1>12, <1>13, <1>14, <1>15, <1>16, <1>17, <1>18 DEF Next, Begin, Statement, Signed

\* What has been found stays.
LEMMA FoundStep == RequestsOK /\ PathsOK /\ TablesOK /\ FoundOK /\ [Next]_vars => FoundOK'
<1> SUFFICES ASSUME RequestsOK, PathsOK, TablesOK, FoundOK, [Next]_vars PROVE FoundOK' OBVIOUS
<1> USE AccountsAssumption DEF RequestsOK, PathsOK, TablesOK, FoundOK, Ops, Ends
<1>1. ASSUME NEW r \in Requests, NEW e \in Emails, NEW s \in Slugs, NEW n \in Roles, Register(r, e, s, n) PROVE FoundOK'
  BY <1>1 DEF Register, AskAndRead, Ask, Works, Fails, Change, NoLogout, Goto
<1>2. ASSUME NEW r \in Requests, NEW e \in Emails, Login(r, e) PROVE FoundOK'
  <2>1. UNCHANGED <<roles, tenants, tenant>> /\ pc'[r] \in {"audit", "refused", "error"}
    BY <1>2 DEF Login, AskAndRead, Ask, Change, Goto
  <2>2. \A c \in Requests \ {r} : pc'[c] = pc[c] /\ op'[c] = op[c] /\ role'[c] = role[c]
    BY <1>2 DEF Login, AskAndRead, Ask, Goto
  <2> QED BY <2>1, <2>2
<1>3. ASSUME NEW r \in Requests, NEW e \in Emails, NEW n \in Roles, ChangeUserRole(r, e, n) PROVE FoundOK'
  BY <1>3 DEF ChangeUserRole, AskAndRead, Ask, Works, Fails, Change, NoLogout, Goto
<1>4. ASSUME NEW r \in Requests, NEW e \in Emails, NEW token \in SUBSET Requests, Logout(r, e, token) PROVE FoundOK'
  <2>1. CASE Ask(r, "logout", e, slug[r], Nobody, "revoke")
    BY <1>4, <2>1 DEF Ask, Goto, Logout
  <2>2. CASE Ask(r, "logout", e, slug[r], Nobody, "loggedOut")
    BY <1>4, <2>2 DEF Ask, Goto, Logout
  <2> QED BY <1>4, <2>1, <2>2 DEF Logout
<1>5. ASSUME NEW r \in Requests, NEW q \in Requests, Verify(r, q) PROVE FoundOK'
  <2>1. UNCHANGED <<roles, tenants, tenant>> /\ pc'[r] \in {"answered", "refused", "error"}
    BY <1>5 DEF Verify, AskAndRead, Ask, Change, Goto
  <2>2. \A c \in Requests \ {r} : pc'[c] = pc[c] /\ op'[c] = op[c] /\ role'[c] = role[c]
    BY <1>5 DEF Verify, AskAndRead, Ask, Goto
  <2> QED BY <2>1, <2>2
<1>6. ASSUME NEW r \in Requests, NEW n \in Roles, UpdateRolePermissions(r, n) PROVE FoundOK'
  BY <1>6 DEF UpdateRolePermissions, AskAndRead, Ask, Works, Fails, Change, NoLogout, Goto
<1>7. ASSUME NEW r \in Requests, NEW t \in 0 .. Len(tenants), NEW s \in Slugs, UpdateTenant(r, t, s) PROVE FoundOK'
  BY <1>7 DEF UpdateTenant, Renamed, CanRename, Works, Rejects, Fails, Collide, Taken, NoLogout, Goto
<1>8. ASSUME NEW r \in Requests, CreateApiKey(r) PROVE FoundOK'
  BY <1>8 DEF CreateApiKey, Works, NoLogout, tables, history, Goto
<1>9. ASSUME NEW r \in Requests, FindTenant(r) PROVE FoundOK'
  BY <1>9 DEF FindTenant, Step, Works, Rejects, Fails, asked, tables, history, Taken, Goto
<1>10. ASSUME NEW r \in Requests, CreateTenant(r) PROVE FoundOK'
  BY <1>10 DEF CreateTenant, Made, Step, Works, Rejects, Fails, asked, Taken, Collide, Goto
<1>11. ASSUME NEW r \in Requests, FindRole(r) PROVE FoundOK'
  BY <1>11 DEF FindRole, Step, Works, Rejects, Fails, asked, tables, history, Goto
<1>12. ASSUME NEW r \in Requests, CreateRole(r) PROVE FoundOK'
  BY <1>12 DEF CreateRole, Named, Step, Works, Rejects, Fails, asked, Collide, Goto
<1>13. ASSUME NEW r \in Requests, CreateUser(r) PROVE FoundOK'
  BY <1>13 DEF CreateUser, Enrolled, Step, Works, Rejects, Fails, asked, Collide, Hold, history, Goto
<1>14. ASSUME NEW r \in Requests, SetRole(r) PROVE FoundOK'
  BY <1>14 DEF SetRole, Step, Works, Rejects, Fails, asked, Hold, Goto
<1>15. ASSUME NEW r \in Requests, Revoke(r) PROVE FoundOK'
  BY <1>15 DEF Revoke, Step, Works, Fails, asked, history, Goto
<1>16. ASSUME NEW r \in Requests, RecordAuditLog(r) PROVE FoundOK'
  BY <1>16 DEF RecordAuditLog, Works, Fails, asked, history, Entry, NextPlace, Afterwards, Goto
<1>17. ASSUME NEW r \in Requests, GenerateTokens(r) PROVE FoundOK'
  BY <1>17 DEF GenerateTokens, Step, Works, Rejects, Fails, asked, history, Goto
<1>18. CASE UNCHANGED vars BY <1>18 DEF vars, tables, Known
<1> QED
  BY <1>1, <1>2, <1>3, <1>4, <1>5, <1>6, <1>7, <1>8, <1>9, <1>10, <1>11, <1>12, <1>13, <1>14, <1>15, <1>16, <1>17, <1>18, SMTT(60) DEF Next, Begin, Statement, Signed

\* Accounts belong to tenants and have roles.
LEMMA AccountsStep == RequestsOK /\ PathsOK /\ TablesOK /\ FoundOK /\ AccountsOK /\ [Next]_vars => AccountsOK'
<1> SUFFICES ASSUME RequestsOK, PathsOK, TablesOK, FoundOK, AccountsOK, [Next]_vars PROVE AccountsOK' OBVIOUS
<1> USE AccountsAssumption DEF RequestsOK, PathsOK, TablesOK, FoundOK, AccountsOK, Known, Account
<1>1. ASSUME NEW r \in Requests, NEW e \in Emails, NEW s \in Slugs, NEW n \in Roles, Register(r, e, s, n) PROVE AccountsOK'
  BY <1>1 DEF Register, AskAndRead, Ask, Works, Fails, Change, NoLogout, Goto
<1>2. ASSUME NEW r \in Requests, NEW e \in Emails, Login(r, e) PROVE AccountsOK'
  BY <1>2 DEF Login, AskAndRead, Ask, Works, Fails, Change, NoLogout, Goto
<1>3. ASSUME NEW r \in Requests, NEW e \in Emails, NEW n \in Roles, ChangeUserRole(r, e, n) PROVE AccountsOK'
  BY <1>3 DEF ChangeUserRole, AskAndRead, Ask, Works, Fails, Change, NoLogout, Goto
<1>4. ASSUME NEW r \in Requests, NEW e \in Emails, NEW token \in SUBSET Requests, Logout(r, e, token) PROVE AccountsOK'
  BY <1>4 DEF Logout, Ask, Works, Fails, Goto
<1>5. ASSUME NEW r \in Requests, NEW q \in Requests, Verify(r, q) PROVE AccountsOK'
  BY <1>5 DEF Verify, AskAndRead, Ask, Works, Fails, Change, NoLogout, Goto
<1>6. ASSUME NEW r \in Requests, NEW n \in Roles, UpdateRolePermissions(r, n) PROVE AccountsOK'
  BY <1>6 DEF UpdateRolePermissions, AskAndRead, Ask, Works, Fails, Change, NoLogout, Goto
<1>7. ASSUME NEW r \in Requests, NEW t \in 0 .. Len(tenants), NEW s \in Slugs, UpdateTenant(r, t, s) PROVE AccountsOK'
  BY <1>7 DEF UpdateTenant, Renamed, CanRename, Works, Rejects, Fails, Collide, Taken, NoLogout, Goto
<1>8. ASSUME NEW r \in Requests, CreateApiKey(r) PROVE AccountsOK'
  BY <1>8 DEF CreateApiKey, Works, NoLogout, tables, history, Goto
<1>9. ASSUME NEW r \in Requests, FindTenant(r) PROVE AccountsOK'
  BY <1>9 DEF FindTenant, Step, Works, Rejects, Fails, asked, tables, history, Taken, Goto
<1>10. ASSUME NEW r \in Requests, CreateTenant(r) PROVE AccountsOK'
  BY <1>10 DEF CreateTenant, Made, Step, Works, Rejects, Fails, asked, Taken, Collide, Goto
<1>11. ASSUME NEW r \in Requests, FindRole(r) PROVE AccountsOK'
  BY <1>11 DEF FindRole, Step, Works, Rejects, Fails, asked, tables, history, Goto
<1>12. ASSUME NEW r \in Requests, CreateRole(r) PROVE AccountsOK'
  BY <1>12 DEF CreateRole, Named, Step, Works, Rejects, Fails, asked, Collide, Goto
<1>13. ASSUME NEW r \in Requests, CreateUser(r) PROVE AccountsOK'
  <2>1. CASE Enrolled(r)
    <3>1. role[r] \in roles /\ tenant[r] \in DOMAIN tenants BY <1>13 DEF CreateUser, Step
    <3>2. [tenant |-> tenant[r], role |-> role[r], by |-> r] \in Account
      BY <3>1
    <3> QED BY <1>13, <2>1, <3>1, <3>2 DEF CreateUser, Enrolled, Step, asked
  <2>2. CASE UNCHANGED accounts
    BY <1>13, <2>2 DEF CreateUser, Step, asked
  <2> QED BY <1>13, <2>1, <2>2 DEF CreateUser
<1>14. ASSUME NEW r \in Requests, SetRole(r) PROVE AccountsOK'
  <2>1. CASE UNCHANGED accounts
    BY <1>14, <2>1 DEF SetRole, Step, asked
  <2>2. CASE Known(email[r]) /\ accounts' = [accounts EXCEPT ![email[r]].role = role[r]]
    <3>1. role[r] \in roles /\ roles' = roles /\ tenants' = tenants BY <1>14 DEF SetRole, Step
    <3>2. \A e \in Emails :
            accounts'[e] = IF e = email[r] THEN [accounts[e] EXCEPT !.role = role[r]] ELSE accounts[e]
      BY <2>2
    <3>3. accounts[email[r]] \in Account /\ role[r] \in Roles
      BY <2>2, <3>1
    <3>4. [accounts[email[r]] EXCEPT !.role = role[r]] \in Account
      BY <3>3
    <3>5. accounts' \in [Emails -> Account \cup {Nobody}]
      BY <2>2, <3>4
    <3>6. ASSUME NEW e \in Emails, Known(e)'
          PROVE  accounts'[e].tenant \in DOMAIN tenants /\ accounts'[e].role \in roles
      BY <2>2, <3>1, <3>2, <3>3, <3>6
    <3> QED BY <3>1, <3>5, <3>6
  <2> QED BY <1>14, <2>1, <2>2 DEF SetRole
<1>15. ASSUME NEW r \in Requests, Revoke(r) PROVE AccountsOK'
  BY <1>15 DEF Revoke, Step, Works, Fails, asked, history, Goto
<1>16. ASSUME NEW r \in Requests, RecordAuditLog(r) PROVE AccountsOK'
  BY <1>16 DEF RecordAuditLog, Works, Fails, asked, history, Entry, NextPlace, Afterwards, Goto
<1>17. ASSUME NEW r \in Requests, GenerateTokens(r) PROVE AccountsOK'
  BY <1>17 DEF GenerateTokens, Step, Works, Rejects, Fails, asked, history, Goto
<1>18. CASE UNCHANGED vars BY <1>18 DEF vars, tables, Known
<1> QED
  BY <1>1, <1>2, <1>3, <1>4, <1>5, <1>6, <1>7, <1>8, <1>9, <1>10, <1>11, <1>12, <1>13, <1>14, <1>15, <1>16, <1>17, <1>18 DEF Next, Begin, Statement, Signed

\* Slugs stay unique, and every account has a tenant and a role that exist.
THEOREM TypeCorrect == Spec => []TypeOK
<1>1. TypeInv /\ [Next]_vars => TypeInv'
  BY RequestsStep, PathsStep, HistoryStep, TablesStep, FoundStep, AccountsStep DEF TypeInv
<1>2. TypeInv => TypeOK
  BY DEF TypeInv, RequestsOK, HistoryOK, TablesOK, AccountsOK, TypeOK
<1> QED BY TypeInit, <1>1, <1>2, PTL DEF Spec

-----------------------------------------------------------------------------
(* What a step of request r does to the others, to the tables and to r. *)

OthersStay(r) ==
  \A q \in Requests \ {r} :
    /\ op'[q] = op[q] /\ pc'[q] = pc[q] /\ email'[q] = email[q] /\ slug'[q] = slug[q]
    /\ role'[q] = role[q] /\ tenant'[q] = tenant[q]
    /\ presented'[q] = presented[q] /\ livened'[q] = livened[q]

Grows(r) ==
  /\ roles \subseteq roles' /\ blacklist \subseteq blacklist' /\ audit \subseteq audit'
  /\ faults <= faults'
  /\ pc'[r] = "error" /\ pc[r] \in {"tenant", "role"} => faults' # 0
  /\ \A q \in Requests \ {r} : raced[q] \subseteq raced'[q] /\ held[q] \subseteq held'[q]

SessionsMove(r) ==
  \A q \in Requests :
    \/ session'[q] = session[q]
    \/ session[q] = "live" /\ session'[q] = "revoked" /\ pc[r] = "revoke"
    \/ q = r /\ pc[r] = "tokens" /\ session'[q] = "live" /\ pc'[r] \in {"answered", "error"}

\* A step of one request leaves the others where they are.
LEMMA OthersLemma ==
  ASSUME RequestsOK, HistoryOK, TablesOK, NEW r \in Requests, Begin(r) \/ Statement(r)
  PROVE  OthersStay(r)
<1> USE AccountsAssumption DEF RequestsOK, OthersStay
<1>1. ASSUME NEW e \in Emails, NEW s \in Slugs, NEW n \in Roles, Register(r, e, s, n) PROVE OthersStay(r)
  BY <1>1 DEF Register, AskAndRead, Ask, Works, Fails, Change, NoLogout, Goto
<1>2. ASSUME NEW e \in Emails, Login(r, e) PROVE OthersStay(r)
  BY <1>2 DEF Login, AskAndRead, Ask, Works, Fails, Change, NoLogout, Goto
<1>3. ASSUME NEW e \in Emails, NEW n \in Roles, ChangeUserRole(r, e, n) PROVE OthersStay(r)
  BY <1>3 DEF ChangeUserRole, AskAndRead, Ask, Works, Fails, Change, NoLogout, Goto
<1>4. ASSUME NEW e \in Emails, NEW token \in SUBSET Requests, Logout(r, e, token) PROVE OthersStay(r)
  BY <1>4 DEF Logout, Ask, Works, Fails, Goto
<1>5. ASSUME NEW q \in Requests, Verify(r, q) PROVE OthersStay(r)
  BY <1>5 DEF Verify, AskAndRead, Ask, Works, Fails, Change, NoLogout, Goto
<1>6. ASSUME NEW n \in Roles, UpdateRolePermissions(r, n) PROVE OthersStay(r)
  BY <1>6 DEF UpdateRolePermissions, AskAndRead, Ask, Works, Fails, Change, NoLogout, Goto
<1>7. ASSUME NEW t \in 0 .. Len(tenants), NEW s \in Slugs, UpdateTenant(r, t, s) PROVE OthersStay(r)
  BY <1>7 DEF UpdateTenant, Renamed, CanRename, Works, Rejects, Fails, Collide, Taken, NoLogout, Goto
<1>8. CASE CreateApiKey(r)
  BY <1>8 DEF CreateApiKey, Works, NoLogout, tables, history, Goto
<1>9. CASE FindTenant(r)
  BY <1>9 DEF FindTenant, Step, Works, Rejects, Fails, asked, tables, history, Taken, Goto, TablesOK
<1>10. CASE CreateTenant(r)
  BY <1>10 DEF CreateTenant, Made, Step, Works, Rejects, Fails, asked, Taken, Collide, Goto, TablesOK
<1>11. CASE FindRole(r)
  BY <1>11 DEF FindRole, Step, Works, Rejects, Fails, asked, tables, history, Goto
<1>12. CASE CreateRole(r)
  BY <1>12 DEF CreateRole, Named, Step, Works, Rejects, Fails, asked, Collide, Goto
<1>13. CASE CreateUser(r)
  BY <1>13 DEF CreateUser, Enrolled, Step, Works, Rejects, Fails, asked, Collide, Hold, history, Goto
<1>14. CASE SetRole(r)
  BY <1>14 DEF SetRole, Step, Works, Rejects, Fails, asked, Hold, Goto
<1>15. CASE Revoke(r)
  BY <1>15 DEF Revoke, Step, Works, Fails, asked, history, Goto
<1>16. CASE RecordAuditLog(r)
  BY <1>16 DEF RecordAuditLog, Works, Fails, asked, history, Entry, NextPlace, Afterwards, Goto
<1>17. CASE GenerateTokens(r)
  BY <1>17 DEF GenerateTokens, Step, Works, Rejects, Fails, asked, history, Goto
<1> QED
  BY <1>1, <1>2, <1>3, <1>4, <1>5, <1>6, <1>7, <1>8, <1>9, <1>10, <1>11, <1>12, <1>13, <1>14, <1>15, <1>16, <1>17 DEF Begin, Statement, Signed

\* Roles, revocations, the audit log and the history only grow.
LEMMA GrowsLemma ==
  ASSUME RequestsOK, HistoryOK, NEW r \in Requests, Begin(r) \/ Statement(r)
  PROVE  Grows(r)
<1> USE AccountsAssumption DEF RequestsOK, HistoryOK, Grows
<1>1. ASSUME NEW e \in Emails, NEW s \in Slugs, NEW n \in Roles, Register(r, e, s, n) PROVE Grows(r)
  BY <1>1 DEF Register, AskAndRead, Ask, Works, Fails, Change, NoLogout, Goto
<1>2. ASSUME NEW e \in Emails, Login(r, e) PROVE Grows(r)
  BY <1>2 DEF Login, AskAndRead, Ask, Works, Fails, Change, NoLogout, Goto
<1>3. ASSUME NEW e \in Emails, NEW n \in Roles, ChangeUserRole(r, e, n) PROVE Grows(r)
  BY <1>3 DEF ChangeUserRole, AskAndRead, Ask, Works, Fails, Change, NoLogout, Goto
<1>4. ASSUME NEW e \in Emails, NEW token \in SUBSET Requests, Logout(r, e, token) PROVE Grows(r)
  BY <1>4 DEF Logout, Ask, Works, Fails, Goto
<1>5. ASSUME NEW q \in Requests, Verify(r, q) PROVE Grows(r)
  BY <1>5 DEF Verify, AskAndRead, Ask, Works, Fails, Change, NoLogout, Goto
<1>6. ASSUME NEW n \in Roles, UpdateRolePermissions(r, n) PROVE Grows(r)
  BY <1>6 DEF UpdateRolePermissions, AskAndRead, Ask, Works, Fails, Change, NoLogout, Goto
<1>7. ASSUME NEW t \in 0 .. Len(tenants), NEW s \in Slugs, UpdateTenant(r, t, s) PROVE Grows(r)
  <2>1. faults <= faults' /\ pc[r] = "idle" /\ UNCHANGED <<roles, blacklist, audit, held>>
    BY <1>7 DEF UpdateTenant, Works, Rejects, Fails
  <2>2. \A q \in Requests \ {r} : raced[q] \subseteq raced'[q]
    BY <1>7 DEF UpdateTenant, Renamed, Collide
  <2> QED BY <2>1, <2>2
<1>8. CASE CreateApiKey(r)
  BY <1>8 DEF CreateApiKey, Works, NoLogout, tables, history, Goto
<1>9. CASE FindTenant(r)
  BY <1>9 DEF FindTenant, Step, Works, Rejects, Fails, asked, tables, history, Taken, Goto
<1>10. CASE CreateTenant(r)
  BY <1>10 DEF CreateTenant, Made, Step, Works, Rejects, Fails, asked, Taken, Collide, Goto
<1>11. CASE FindRole(r)
  BY <1>11 DEF FindRole, Step, Works, Rejects, Fails, asked, tables, history, Goto
<1>12. CASE CreateRole(r)
  BY <1>12 DEF CreateRole, Named, Step, Works, Rejects, Fails, asked, Collide, Goto
<1>13. CASE CreateUser(r)
  BY <1>13 DEF CreateUser, Enrolled, Step, Works, Rejects, Fails, asked, Collide, Hold, history, Goto
<1>14. CASE SetRole(r)
  BY <1>14 DEF SetRole, Step, Works, Rejects, Fails, asked, Hold, Goto
<1>15. CASE Revoke(r)
  BY <1>15 DEF Revoke, Step, Works, Fails, asked, history, Goto
<1>16. CASE RecordAuditLog(r)
  BY <1>16 DEF RecordAuditLog, Works, Fails, asked, history, Entry, NextPlace, Afterwards, Goto
<1>17. CASE GenerateTokens(r)
  BY <1>17 DEF GenerateTokens, Step, Works, Rejects, Fails, asked, history, Goto
<1> QED
  BY <1>1, <1>2, <1>3, <1>4, <1>5, <1>6, <1>7, <1>8, <1>9, <1>10, <1>11, <1>12, <1>13, <1>14, <1>15, <1>16, <1>17 DEF Begin, Statement, Signed

\* A session begins at its tokens and ends at a logout.
LEMMA SessionsLemma ==
  ASSUME RequestsOK, NEW r \in Requests, Begin(r) \/ Statement(r)
  PROVE  SessionsMove(r)
<1> USE AccountsAssumption DEF RequestsOK, SessionsMove
<1>1. ASSUME NEW e \in Emails, NEW s \in Slugs, NEW n \in Roles, Register(r, e, s, n) PROVE SessionsMove(r)
  BY <1>1 DEF Register, AskAndRead, Ask, Works, Fails, Change, NoLogout, Goto
<1>2. ASSUME NEW e \in Emails, Login(r, e) PROVE SessionsMove(r)
  BY <1>2 DEF Login, AskAndRead, Ask, Works, Fails, Change, NoLogout, Goto
<1>3. ASSUME NEW e \in Emails, NEW n \in Roles, ChangeUserRole(r, e, n) PROVE SessionsMove(r)
  BY <1>3 DEF ChangeUserRole, AskAndRead, Ask, Works, Fails, Change, NoLogout, Goto
<1>4. ASSUME NEW e \in Emails, NEW token \in SUBSET Requests, Logout(r, e, token) PROVE SessionsMove(r)
  BY <1>4 DEF Logout, Ask, Works, Fails, Goto
<1>5. ASSUME NEW q \in Requests, Verify(r, q) PROVE SessionsMove(r)
  BY <1>5 DEF Verify, AskAndRead, Ask, Works, Fails, Change, NoLogout, Goto
<1>6. ASSUME NEW n \in Roles, UpdateRolePermissions(r, n) PROVE SessionsMove(r)
  BY <1>6 DEF UpdateRolePermissions, AskAndRead, Ask, Works, Fails, Change, NoLogout, Goto
<1>7. ASSUME NEW t \in 0 .. Len(tenants), NEW s \in Slugs, UpdateTenant(r, t, s) PROVE SessionsMove(r)
  BY <1>7 DEF UpdateTenant, Renamed, CanRename, Works, Rejects, Fails, Collide, Taken, NoLogout, Goto
<1>8. CASE CreateApiKey(r)
  BY <1>8 DEF CreateApiKey, Works, NoLogout, tables, history, Goto
<1>9. CASE FindTenant(r)
  BY <1>9 DEF FindTenant, Step, Works, Rejects, Fails, asked, tables, history, Taken, Goto
<1>10. CASE CreateTenant(r)
  BY <1>10 DEF CreateTenant, Made, Step, Works, Rejects, Fails, asked, Taken, Collide, Goto
<1>11. CASE FindRole(r)
  BY <1>11 DEF FindRole, Step, Works, Rejects, Fails, asked, tables, history, Goto
<1>12. CASE CreateRole(r)
  BY <1>12 DEF CreateRole, Named, Step, Works, Rejects, Fails, asked, Collide, Goto
<1>13. CASE CreateUser(r)
  BY <1>13 DEF CreateUser, Enrolled, Step, Works, Rejects, Fails, asked, Collide, Hold, history, Goto
<1>14. CASE SetRole(r)
  BY <1>14 DEF SetRole, Step, Works, Rejects, Fails, asked, Hold, Goto
<1>15. CASE Revoke(r)
  BY <1>15 DEF Revoke, Step, Works, Fails, asked, history, Goto
<1>16. CASE RecordAuditLog(r)
  BY <1>16 DEF RecordAuditLog, Works, Fails, asked, history, Entry, NextPlace, Afterwards, Goto
<1>17. CASE GenerateTokens(r)
  BY <1>17 DEF GenerateTokens, Step, Works, Rejects, Fails, asked, history, Goto
<1> QED
  BY <1>1, <1>2, <1>3, <1>4, <1>5, <1>6, <1>7, <1>8, <1>9, <1>10, <1>11, <1>12, <1>13, <1>14, <1>15, <1>16, <1>17 DEF Begin, Statement, Signed


\* How r comes to a place.
Arrivals(r) ==
  /\ pc[r] \notin Ends
  /\ pc'[r] = "tenant" => \E e \in Emails, s \in Slugs, n \in Roles : Register(r, e, s, n)
  /\ pc'[r] = "createTenant" => FindTenant(r)
  /\ pc'[r] = "role" => FindTenant(r) \/ CreateTenant(r)
  /\ pc'[r] = "createRole" => FindRole(r) \/ \E n \in Roles : UpdateRolePermissions(r, n)
  /\ pc'[r] = "createUser" => FindRole(r) \/ CreateRole(r)
  /\ pc'[r] = "revoke" => \E e \in Emails, token \in SUBSET Requests : Logout(r, e, token)
  /\ pc'[r] = "audit" =>
       \/ op'[r] \in {"permissions", "rename", "apiKey"} \/ \E e \in Emails : Login(r, e)
       \/ CreateUser(r) \/ SetRole(r) \/ Revoke(r)
  /\ pc'[r] \in {"tokens", "auditRevoked"} => RecordAuditLog(r)
  /\ pc'[r] = "answered" => op'[r] = "verify" \/ RecordAuditLog(r) \/ GenerateTokens(r)
  /\ pc'[r] = "error" => faults' # 0 \/ op'[r] \in {"changeRole", "rename"}
                          \/ CreateTenant(r) \/ CreateRole(r) \/ CreateUser(r)

\* An account changes only its role, and begins at CreateUser.
Begins(r, e) ==
  /\ CreateUser(r) /\ Enrolled(r) /\ e = email[r] /\ Known(e)' /\ ~Known(e)
  /\ accounts'[e].by = r /\ accounts'[e].tenant = tenant[r]
  /\ pc'[r] \in {"audit", "error"} /\ (pc'[r] = "error" => faults' # 0)
AccountsMove(r) ==
  \A e \in Emails :
    \/ Known(e) /\ Known(e)' /\ accounts'[e].by = accounts[e].by /\ accounts'[e].tenant = accounts[e].tenant
    \/ ~Known(e) /\ ~Known(e)'
    \/ Begins(r, e)

\* A new tenant, role or account is noted by those that it may get in the way of.
RowsMove(r) ==
  \A q \in Requests \ {r} : op[q] # "none" =>
    /\ Taken(slug[q])' => Taken(slug[q]) \/ raced'[q] # {}
    /\ role[q] \in roles' => role[q] \in roles \/ raced'[q] # {}

\* A request comes to each place by few ways.
LEMMA ArrivalsLemma ==
  ASSUME RequestsOK, PathsOK, HistoryOK, NEW r \in Requests, Begin(r) \/ Statement(r)
  PROVE  Arrivals(r)
<1> USE AccountsAssumption DEF RequestsOK, PathsOK, HistoryOK, Ends, Arrivals
<1>1. ASSUME NEW e \in Emails, NEW s \in Slugs, NEW n \in Roles, Register(r, e, s, n) PROVE Arrivals(r)
  <2>1. pc[r] = "idle" /\ pc'[r] \in {"tenant", "refused", "error"} /\ (pc'[r] = "error" => faults' # 0)
    BY <1>1 DEF Register, AskAndRead, Ask, Works, Fails, Goto
  <2> QED BY <1>1, <2>1
<1>2. ASSUME NEW e \in Emails, Login(r, e) PROVE Arrivals(r)
  <2>1. pc[r] = "idle" /\ pc'[r] \in {"audit", "refused", "error"} /\ (pc'[r] = "error" => faults' # 0)
    BY <1>2 DEF Login, AskAndRead, Ask, Works, Fails, Goto
  <2> QED BY <1>2, <2>1
<1>3. ASSUME NEW e \in Emails, NEW n \in Roles, ChangeUserRole(r, e, n) PROVE Arrivals(r)
  BY <1>3 DEF ChangeUserRole, AskAndRead, Ask, Works, Fails, Change, NoLogout, Goto
<1>4. ASSUME NEW e \in Emails, NEW token \in SUBSET Requests, Logout(r, e, token) PROVE Arrivals(r)
  <2>1. pc[r] = "idle" /\ pc'[r] \in {"revoke", "loggedOut"} BY <1>4 DEF Logout, Ask, Goto
  <2> QED BY <1>4, <2>1
<1>5. ASSUME NEW q \in Requests, Verify(r, q) PROVE Arrivals(r)
  BY <1>5 DEF Verify, AskAndRead, Ask, Works, Fails, Change, NoLogout, Goto
<1>6. ASSUME NEW n \in Roles, UpdateRolePermissions(r, n) PROVE Arrivals(r)
  BY <1>6 DEF UpdateRolePermissions, AskAndRead, Ask, Works, Fails, Change, NoLogout, Goto
<1>7. ASSUME NEW t \in 0 .. Len(tenants), NEW s \in Slugs, UpdateTenant(r, t, s) PROVE Arrivals(r)
  BY <1>7 DEF UpdateTenant, Renamed, CanRename, Works, Rejects, Fails, Collide, Taken, NoLogout, Goto
<1>8. CASE CreateApiKey(r)
  BY <1>8 DEF CreateApiKey, Works, NoLogout, tables, history, Goto
<1>9. CASE FindTenant(r)
  <2>1. /\ pc[r] = "tenant" /\ pc'[r] \in {"role", "createTenant", "error"}
        /\ pc'[r] = "error" => faults' # 0
    BY <1>9 DEF FindTenant, Step, Rejects, Fails, Goto
  <2> QED BY <1>9, <2>1
<1>10. CASE CreateTenant(r)
  BY <1>10 DEF CreateTenant, Made, Step, Works, Rejects, Fails, asked, Taken, Collide, Goto
<1>11. CASE FindRole(r)
  BY <1>11 DEF FindRole, Step, Works, Rejects, Fails, asked, tables, history, Goto
<1>12. CASE CreateRole(r)
  BY <1>12 DEF CreateRole, Named, Step, Works, Rejects, Fails, asked, Collide, Goto
<1>13. CASE CreateUser(r)
  BY <1>13 DEF CreateUser, Enrolled, Step, Works, Rejects, Fails, asked, Collide, Hold, history, Goto
<1>14. CASE SetRole(r)
  BY <1>14 DEF SetRole, Step, Works, Rejects, Fails, asked, Hold, Goto
<1>15. CASE Revoke(r)
  BY <1>15 DEF Revoke, Step, Works, Fails, asked, history, Goto
<1>16. CASE RecordAuditLog(r)
  BY <1>16 DEF RecordAuditLog, Works, Fails, asked, history, Entry, NextPlace, Afterwards, Goto
<1>17. CASE GenerateTokens(r)
  BY <1>17 DEF GenerateTokens, Step, Works, Rejects, Fails, asked, history, Goto
<1> QED
  BY <1>1, <1>2, <1>3, <1>4, <1>5, <1>6, <1>7, <1>8, <1>9, <1>10, <1>11, <1>12, <1>13, <1>14, <1>15, <1>16, <1>17 DEF Begin, Statement, Signed

\* Accounts keep their tenants and their makers.
LEMMA AccountsLemma ==
  ASSUME RequestsOK, PathsOK, HistoryOK, TablesOK, AccountsOK, NEW r \in Requests, Begin(r) \/ Statement(r)
  PROVE  AccountsMove(r)
<1> USE AccountsAssumption DEF RequestsOK, AccountsOK, Known, AccountsMove
<1>1. ASSUME NEW e \in Emails, NEW s \in Slugs, NEW n \in Roles, Register(r, e, s, n) PROVE AccountsMove(r)
  BY <1>1 DEF Register, AskAndRead, Ask, Works, Fails, Change, NoLogout, Goto
<1>2. ASSUME NEW e \in Emails, Login(r, e) PROVE AccountsMove(r)
  BY <1>2 DEF Login, AskAndRead, Ask, Works, Fails, Change, NoLogout, Goto
<1>3. ASSUME NEW e \in Emails, NEW n \in Roles, ChangeUserRole(r, e, n) PROVE AccountsMove(r)
  BY <1>3 DEF ChangeUserRole, AskAndRead, Ask, Works, Fails, Change, NoLogout, Goto
<1>4. ASSUME NEW e \in Emails, NEW token \in SUBSET Requests, Logout(r, e, token) PROVE AccountsMove(r)
  BY <1>4 DEF Logout, Ask, Works, Fails, Goto
<1>5. ASSUME NEW q \in Requests, Verify(r, q) PROVE AccountsMove(r)
  BY <1>5 DEF Verify, AskAndRead, Ask, Works, Fails, Change, NoLogout, Goto
<1>6. ASSUME NEW n \in Roles, UpdateRolePermissions(r, n) PROVE AccountsMove(r)
  BY <1>6 DEF UpdateRolePermissions, AskAndRead, Ask, Works, Fails, Change, NoLogout, Goto
<1>7. ASSUME NEW t \in 0 .. Len(tenants), NEW s \in Slugs, UpdateTenant(r, t, s) PROVE AccountsMove(r)
  BY <1>7 DEF UpdateTenant, Renamed, CanRename, Works, Rejects, Fails, Collide, Taken, NoLogout, Goto
<1>8. CASE CreateApiKey(r)
  BY <1>8 DEF CreateApiKey, Works, NoLogout, tables, history, Goto
<1>9. CASE FindTenant(r)
  BY <1>9 DEF FindTenant, Step, Works, Rejects, Fails, asked, tables, history, Taken, Goto
<1>10. CASE CreateTenant(r)
  BY <1>10 DEF CreateTenant, Made, Step, Works, Rejects, Fails, asked, Taken, Collide, Goto
<1>11. CASE FindRole(r)
  BY <1>11 DEF FindRole, Step, Works, Rejects, Fails, asked, tables, history, Goto
<1>12. CASE CreateRole(r)
  BY <1>12 DEF CreateRole, Named, Step, Works, Rejects, Fails, asked, Collide, Goto
<1>13. CASE CreateUser(r)
  <2>1. CASE UNCHANGED accounts BY <2>1 DEF Known
  <2>2. CASE ~Known(email[r]) /\ Enrolled(r)
    <3>1. \A e \in Emails :
            accounts'[e] = IF e = email[r] THEN [tenant |-> tenant[r], role |-> role[r], by |-> r] ELSE accounts[e]
      BY <2>2 DEF Enrolled
    <3>2. [tenant |-> tenant[r], role |-> role[r], by |-> r] \in Account
      BY <1>13 DEF CreateUser, Step, Account, PathsOK, TablesOK
    <3>3. pc'[r] \in {"audit", "error"} /\ (pc'[r] = "error" => faults' # 0)
      BY <1>13, <2>2 DEF CreateUser, Step, Works, Rejects, Fails, Goto, HistoryOK
    <3> QED BY <1>13, <2>2, <3>1, <3>2, <3>3 DEF Known, Begins
  <2> QED BY <1>13, <2>1, <2>2 DEF CreateUser
<1>14. CASE SetRole(r)
  <2>1. CASE UNCHANGED accounts BY <2>1 DEF Known
  <2>2. CASE Known(email[r]) /\ accounts' = [accounts EXCEPT ![email[r]].role = role[r]]
    <3>1. \A e \in Emails :
            accounts'[e] = IF e = email[r] THEN [accounts[e] EXCEPT !.role = role[r]] ELSE accounts[e]
      BY <2>2
    <3>2. accounts[email[r]] \in Account /\ role[r] \in Roles
      BY <1>14, <2>2 DEF SetRole, Step, PathsOK
    <3>3. [accounts[email[r]] EXCEPT !.role = role[r]] \in Account
      BY <3>2 DEF Account
    <3>4. /\ [accounts[email[r]] EXCEPT !.role = role[r]].by = accounts[email[r]].by
          /\ [accounts[email[r]] EXCEPT !.role = role[r]].tenant = accounts[email[r]].tenant
      BY <3>2 DEF Account
    <3> QED BY <2>2, <3>1, <3>2, <3>3, <3>4
  <2> QED BY <1>14, <2>1, <2>2 DEF SetRole
<1>15. CASE Revoke(r)
  BY <1>15 DEF Revoke, Step, Works, Fails, asked, history, Goto
<1>16. CASE RecordAuditLog(r)
  BY <1>16 DEF RecordAuditLog, Works, Fails, asked, history, Entry, NextPlace, Afterwards, Goto
<1>17. CASE GenerateTokens(r)
  BY <1>17 DEF GenerateTokens, Step, Works, Rejects, Fails, asked, history, Goto
<1> QED
  BY <1>1, <1>2, <1>3, <1>4, <1>5, <1>6, <1>7, <1>8, <1>9, <1>10, <1>11, <1>12, <1>13, <1>14, <1>15, <1>16, <1>17 DEF Begin, Statement, Signed

\* Who collides knows it.
LEMMA RowsLemma ==
  ASSUME RequestsOK, HistoryOK, TablesOK, NEW r \in Requests, Begin(r) \/ Statement(r), OthersStay(r)
  PROVE  RowsMove(r)
<1> USE AccountsAssumption DEF RequestsOK, OthersStay, RowsMove, Taken
<1>1. ASSUME NEW e \in Emails, NEW s \in Slugs, NEW n \in Roles, Register(r, e, s, n) PROVE RowsMove(r)
  BY <1>1 DEF Register, AskAndRead, Ask, Works, Fails, Change, NoLogout, Goto
<1>2. ASSUME NEW e \in Emails, Login(r, e) PROVE RowsMove(r)
  BY <1>2 DEF Login, AskAndRead, Ask, Works, Fails, Change, NoLogout, Goto
<1>3. ASSUME NEW e \in Emails, NEW n \in Roles, ChangeUserRole(r, e, n) PROVE RowsMove(r)
  BY <1>3 DEF ChangeUserRole, AskAndRead, Ask, Works, Fails, Change, NoLogout, Goto
<1>4. ASSUME NEW e \in Emails, NEW token \in SUBSET Requests, Logout(r, e, token) PROVE RowsMove(r)
  BY <1>4 DEF Logout, Ask, Works, Fails, Goto
<1>5. ASSUME NEW q \in Requests, Verify(r, q) PROVE RowsMove(r)
  BY <1>5 DEF Verify, AskAndRead, Ask, Works, Fails, Change, NoLogout, Goto
<1>6. ASSUME NEW n \in Roles, UpdateRolePermissions(r, n) PROVE RowsMove(r)
  BY <1>6 DEF UpdateRolePermissions, AskAndRead, Ask, Works, Fails, Change, NoLogout, Goto
<1>7. ASSUME NEW t \in 0 .. Len(tenants), NEW s \in Slugs, UpdateTenant(r, t, s) PROVE RowsMove(r)
  <2>1. CASE UNCHANGED tenants
    BY <1>7, <2>1 DEF UpdateTenant, Taken
  <2>2. CASE Renamed(r, t, s)
    <3>1. \A x : Taken(x)' => Taken(x) \/ x = s
      BY <2>2 DEF Renamed, CanRename, Taken, TablesOK
    <3> QED BY <1>7, <2>2, <3>1 DEF UpdateTenant, Renamed, Collide
  <2> QED BY <1>7, <2>1, <2>2 DEF UpdateTenant
<1>8. CASE CreateApiKey(r)
  BY <1>8 DEF CreateApiKey, Works, NoLogout, tables, history, Goto
<1>9. CASE FindTenant(r)
  BY <1>9 DEF FindTenant, Step, Works, Rejects, Fails, asked, tables, history, Taken, Goto
<1>10. CASE CreateTenant(r)
  <2>1. CASE Made(r)
    <3>1. \A x : Taken(x)' => Taken(x) \/ x = slug[r]
      BY <2>1 DEF Made, Taken, TablesOK
    <3> QED BY <1>10, <2>1, <3>1 DEF CreateTenant, Made, Step, asked, Collide
  <2>2. CASE UNCHANGED <<tenants, raced>>
    BY <1>10, <2>2 DEF CreateTenant, Step, asked, Taken
  <2> QED BY <1>10, <2>1, <2>2 DEF CreateTenant
<1>11. CASE FindRole(r)
  BY <1>11 DEF FindRole, Step, Works, Rejects, Fails, asked, tables, history, Goto
<1>12. CASE CreateRole(r)
  <2>1. CASE Named(r)
    BY <1>12, <2>1 DEF CreateRole, Named, Step, asked, Collide
  <2>2. CASE UNCHANGED <<roles, raced>>
    BY <1>12, <2>2 DEF CreateRole, Step, asked
  <2> QED BY <1>12, <2>1, <2>2 DEF CreateRole
<1>13. CASE CreateUser(r)
  BY <1>13 DEF CreateUser, Enrolled, Step, Works, Rejects, Fails, asked, Collide, Hold, history, Goto
<1>14. CASE SetRole(r)
  BY <1>14 DEF SetRole, Step, Works, Rejects, Fails, asked, Hold, Goto
<1>15. CASE Revoke(r)
  BY <1>15 DEF Revoke, Step, Works, Fails, asked, history, Goto
<1>16. CASE RecordAuditLog(r)
  BY <1>16 DEF RecordAuditLog, Works, Fails, asked, history, Entry, NextPlace, Afterwards, Goto
<1>17. CASE GenerateTokens(r)
  BY <1>17 DEF GenerateTokens, Step, Works, Rejects, Fails, asked, history, Goto
<1> QED
  BY <1>1, <1>2, <1>3, <1>4, <1>5, <1>6, <1>7, <1>8, <1>9, <1>10, <1>11, <1>12, <1>13, <1>14, <1>15, <1>16, <1>17, SMTT(60) DEF Begin, Statement, Signed

-----------------------------------------------------------------------------
(* The invariants behind the properties. *)

\* Of a logout under way: its token is on the blacklist, then the sessions of the user it
\* names are revoked.
LogoutOK ==
  \A r \in Requests : op[r] = "logout" =>
    /\ pc[r] \in {"revoke", "audit", "auditRevoked", "answered"} => presented[r] \subseteq blacklist
    /\ pc[r] = "revoke" => \A q \in livened[r] : email[q] = email[r] /\ session[q] # "none"
    /\ pc[r] \in {"audit", "auditRevoked", "answered"} => \A q \in livened[r] : session[q] = "revoked"

LoggedOK ==
  \A r \in Requests :
    /\ pc[r] \in {"tokens", "auditRevoked", "answered"} /\ op[r] # "verify" =>
         [action |-> Action(op[r]), by |-> r] \in audit
    /\ pc[r] = "answered" /\ op[r] = "logout" => [action |-> "token.revoked", by |-> r] \in audit
    /\ pc[r] = "answered" /\ op[r] \in {"register", "login"} => session[r] # "none"

HeldOK ==
  \A r \in Requests :
    (op[r] \in {"register", "login"} /\ pc[r] \in {"audit", "tokens"}) \/ session[r] # "none"
      => role[r] \in held[r]

OwnersOK ==
  \A r \in Requests :
    /\ op[r] = "register" /\ pc[r] \in {"audit", "tokens", "answered"} =>
         Known(email[r]) /\ accounts[email[r]].by = r /\ accounts[email[r]].tenant = tenant[r]
    /\ op[r] = "login" /\ pc[r] \in {"audit", "tokens"} => Known(email[r])
    /\ session[r] # "none" => Known(email[r])

\* What was not there when a request looked for it is there only if another one has
\* come in between.
RacesOK ==
  \A r \in Requests :
    /\ pc[r] = "createTenant" => ~Taken(slug[r]) \/ raced[r] # {}
    /\ pc[r] = "createRole" => role[r] \notin roles \/ raced[r] # {}
    /\ pc[r] \in {"tenant", "createTenant", "role", "createRole", "createUser"} /\ op[r] = "register"
         => ~Known(email[r]) \/ raced[r] # {}
    /\ faults = 0 /\ op[r] \in {"register", "permissions"} /\ pc[r] = "error" => raced[r] # {}

MadeByOK ==
  \A r \in Requests, e \in Emails : Known(e) /\ accounts[e].by = r =>
    /\ op[r] = "register" /\ pc[r] \in {"audit", "tokens", "answered", "error"}
    /\ faults = 0 => pc[r] # "error"

\* What one step does, put together.
LEMMA StepOf ==
  ASSUME TypeInv, NEW r \in Requests, Begin(r) \/ Statement(r)
  PROVE  /\ OthersStay(r) /\ Grows(r) /\ SessionsMove(r) /\ Arrivals(r)
         /\ AccountsMove(r) /\ RowsMove(r)
  BY OthersLemma, GrowsLemma, SessionsLemma, ArrivalsLemma, AccountsLemma, RowsLemma DEF TypeInv

\* Revoked sessions and listed tokens stay so.
LEMMA LogoutStep ==
  ASSUME TypeInv, LogoutOK, NEW r \in Requests, Begin(r) \/ Statement(r) PROVE LogoutOK'
<1>1. OthersStay(r) /\ Grows(r) /\ SessionsMove(r) /\ Arrivals(r) BY StepOf
<1>2. session[r] = "none" BY <1>1 DEF TypeInv, PathsOK, Arrivals, Ends
<1> SUFFICES ASSUME NEW c \in Requests, op'[c] = "logout"
             PROVE  /\ pc'[c] \in {"revoke", "audit", "auditRevoked", "answered"}
                         => presented'[c] \subseteq blacklist'
                    /\ pc'[c] = "revoke"
                         => \A q \in livened'[c] : email'[q] = email'[c] /\ session'[q] # "none"
                    /\ pc'[c] \in {"audit", "auditRevoked", "answered"}
                         => \A q \in livened'[c] : session'[q] = "revoked"
  BY DEF LogoutOK
<1>3. livened[c] \subseteq Requests BY DEF TypeInv, HistoryOK
<1>4. CASE c # r
  <2>1. \A q \in livened[c] : session[q] # "none" => q # r /\ email'[q] = email[q] /\ session'[q] # "none"
    BY <1>1, <1>2, <1>3 DEF OthersStay, SessionsMove
  <2>2. \A q \in livened[c] : session[q] = "revoked" => session'[q] = "revoked"
    BY <1>1, <1>2, <1>3 DEF SessionsMove
  <2> QED BY <1>1, <1>4, <2>1, <2>2 DEF OthersStay, Grows, LogoutOK
<1>5. CASE c = r /\ pc'[r] = "revoke"
  <2>1. PICK e \in Emails, token \in SUBSET Requests : Logout(r, e, token) BY <1>1, <1>5 DEF Arrivals
  <2>2. presented'[r] \subseteq blacklist'
    BY <1>5, <2>1 DEF Logout, Ask, Goto, TypeInv, RequestsOK, HistoryOK
  <2>3. \A p \in livened'[r] : p \in Requests /\ email[p] = e /\ session[p] = "live"
    BY <2>1 DEF Logout, TypeInv, HistoryOK
  <2>4. email'[r] = e /\ session' = session
    BY <2>1 DEF Logout, Ask, TypeInv, RequestsOK
  <2> QED BY <1>1, <1>2, <1>5, <2>2, <2>3, <2>4 DEF OthersStay
<1>6. CASE c = r /\ pc'[r] = "audit"
  <2>1. Revoke(r)
    BY <1>1, <1>6 DEF Arrivals, Login, AskAndRead, Ask, CreateUser, SetRole, Step, asked, TypeInv, RequestsOK, PathsOK
  <2>2. /\ op[r] = "logout" /\ pc[r] = "revoke" /\ livened' = livened /\ presented' = presented
        /\ session' = [q \in Requests |-> IF session[q] = "live" /\ email[q] = email[r] THEN "revoked"
                                                                                      ELSE session[q]]
    BY <1>6, <2>1 DEF Revoke, Step, asked, Goto, TypeInv, RequestsOK
  <2>3. \A q \in livened[r] : session[q] \in {"live", "revoked"} /\ email[q] = email[r]
    BY <1>3, <1>6, <2>2 DEF LogoutOK, TypeInv, RequestsOK
  <2> QED BY <1>1, <1>3, <1>6, <2>2, <2>3 DEF LogoutOK, Grows
<1>7. CASE c = r /\ pc'[r] \in {"auditRevoked", "answered"}
  <2>1. RecordAuditLog(r)
    BY <1>1, <1>7 DEF Arrivals, GenerateTokens, Step, asked, TypeInv, PathsOK
  <2>2. /\ op[r] = "logout" /\ pc[r] \in {"audit", "auditRevoked"} /\ session' = session
        /\ livened' = livened /\ presented' = presented /\ blacklist' = blacklist
    BY <1>7, <2>1 DEF RecordAuditLog, asked
  <2> QED BY <1>7, <2>2 DEF LogoutOK
<1> QED BY <1>4, <1>5, <1>6, <1>7

\* The audit log comes before the answer, and the tokens last.
LEMMA LoggedStep ==
  ASSUME TypeInv, LoggedOK, NEW r \in Requests, Begin(r) \/ Statement(r) PROVE LoggedOK'
<1>1. OthersStay(r) /\ Grows(r) /\ SessionsMove(r) /\ Arrivals(r) BY StepOf
<1> DEFINE Good(o, place, s, c, log) ==
      /\ place \in {"tokens", "auditRevoked", "answered"} /\ o # "verify" =>
           [action |-> Action(o), by |-> c] \in log
      /\ place = "answered" /\ o = "logout" => [action |-> "token.revoked", by |-> c] \in log
      /\ place = "answered" /\ o \in {"register", "login"} => s # "none"
<1>2. \A c \in Requests : Good(op[c], pc[c], session[c], c, audit) BY DEF LoggedOK
<1>3. \A c \in Requests \ {r} : Good(op'[c], pc'[c], session'[c], c, audit')
  BY <1>1, <1>2 DEF OthersStay, Grows, SessionsMove
<1>4. Good(op'[r], pc'[r], session'[r], r, audit')
  <2>1. CASE RecordAuditLog(r) /\ pc'[r] \in {"tokens", "auditRevoked", "answered"}
    <3>1. op' = op /\ session' = session BY <2>1 DEF RecordAuditLog, asked
    <3>2. audit' = audit \cup {Entry(r)} /\ pc'[r] = NextPlace(r)
      BY <2>1 DEF RecordAuditLog, Goto, TypeInv, RequestsOK
    <3>3. CASE pc[r] = "audit"
      BY <3>1, <3>2, <3>3 DEF Entry, NextPlace, Afterwards
    <3>4. CASE pc[r] = "auditRevoked"
      BY <1>2, <3>1, <3>2, <3>4 DEF Entry, NextPlace, TypeInv, PathsOK
    <3> QED BY <2>1, <3>3, <3>4 DEF RecordAuditLog
  <2>2. CASE GenerateTokens(r) /\ pc'[r] = "answered"
    <3>1. op' = op /\ audit' = audit /\ pc[r] = "tokens" /\ op[r] \in {"register", "login"} /\ session'[r] = "live"
      BY <2>2 DEF GenerateTokens, Step, asked, Goto, Rejects, TypeInv, RequestsOK, PathsOK
    <3> QED BY <1>2, <3>1
  <2>3. CASE op'[r] = "verify" BY <2>3
  <2> QED BY <1>1, <2>1, <2>2, <2>3 DEF Arrivals
<1> QED BY <1>3, <1>4 DEF LoggedOK

\* Tokens carry what was read from the account, or stored in it.
LEMMA HeldStep ==
  ASSUME TypeInv, HeldOK, NEW r \in Requests, Begin(r) \/ Statement(r) PROVE HeldOK'
<1>1. OthersStay(r) /\ Grows(r) /\ SessionsMove(r) /\ Arrivals(r) BY StepOf
<1>2. session[r] = "none" BY <1>1 DEF TypeInv, PathsOK, Arrivals, Ends
<1> SUFFICES ASSUME NEW c \in Requests,
                    (op'[c] \in {"register", "login"} /\ pc'[c] \in {"audit", "tokens"})
                      \/ session'[c] # "none"
             PROVE  role'[c] \in held'[c]
  BY DEF HeldOK
<1>3. CASE c # r BY <1>1, <1>3 DEF OthersStay, Grows, SessionsMove, HeldOK
<1>4. CASE c = r /\ session'[r] # "none"
  <2>1. GenerateTokens(r)
    BY <1>1, <1>2, <1>4 DEF SessionsMove, Begin, Statement, Register, Login, ChangeUserRole, Logout,
       Verify, UpdateRolePermissions, UpdateTenant, CreateApiKey, AskAndRead, Ask, FindTenant, CreateTenant, FindRole,
       CreateRole, CreateUser, SetRole, Revoke, RecordAuditLog, Step
  <2> QED BY <1>4, <2>1 DEF GenerateTokens, Step, history, HeldOK, TypeInv, PathsOK
<1>5. CASE c = r /\ pc'[r] = "tokens"
  BY <1>1, <1>5 DEF Arrivals, RecordAuditLog, asked, history, HeldOK, TypeInv, PathsOK, NextPlace, Afterwards, Goto, RequestsOK
<1>6. CASE c = r /\ pc'[r] = "audit" /\ op'[r] \in {"register", "login"}
  <2>1. CASE CreateUser(r)
    BY <1>6, <2>1 DEF CreateUser, Enrolled, Step, Rejects, Goto, Hold, asked, TypeInv, RequestsOK, PathsOK
  <2>2. ASSUME NEW e \in Emails, Login(r, e) PROVE role'[r] \in held'[r]
    BY <1>6, <2>2 DEF Login, AskAndRead, Ask, Goto, TypeInv, RequestsOK, HistoryOK
  <2>3. ~SetRole(r) /\ ~Revoke(r)
    BY <1>6 DEF SetRole, Revoke, Step, asked, TypeInv, PathsOK
  <2> QED BY <1>1, <1>6, <2>1, <2>2, <2>3 DEF Arrivals
<1> QED BY <1>3, <1>4, <1>5, <1>6

\* An account keeps its maker and its tenant; who has tokens has an account.
LEMMA OwnersStep ==
  ASSUME TypeInv, OwnersOK, NEW r \in Requests, Begin(r) \/ Statement(r) PROVE OwnersOK'
<1>1. /\ OthersStay(r) /\ SessionsMove(r) /\ Arrivals(r) /\ AccountsMove(r) BY StepOf
<1>2. email \in [Requests -> Emails] /\ email' \in [Requests -> Emails]
  <2>1. RequestsOK' BY RequestsStep DEF TypeInv, Next
  <2> QED BY <2>1 DEF TypeInv, RequestsOK
<1>3. session[r] = "none" BY <1>1 DEF TypeInv, PathsOK, Arrivals, Ends
<1>4. \A e \in Emails : Known(e) =>
        Known(e)' /\ accounts'[e].by = accounts[e].by /\ accounts'[e].tenant = accounts[e].tenant
  BY <1>1 DEF AccountsMove, Begins
<1>5. ASSUME NEW c \in Requests \ {r}
      PROVE  /\ op'[c] = "register" /\ pc'[c] \in {"audit", "tokens", "answered"} =>
                  Known(email[c])' /\ accounts'[email'[c]].by = c /\ accounts'[email'[c]].tenant = tenant'[c]
             /\ op'[c] = "login" /\ pc'[c] \in {"audit", "tokens"} => Known(email[c])'
             /\ session'[c] # "none" => Known(email[c])'
  <2>1. email'[c] = email[c] /\ email[c] \in Emails BY <1>1, <1>2 DEF OthersStay
  <2>2. Known(email[c]) => Known(email[c])' BY <1>4, <2>1 DEF Known
  <2> QED BY <1>1, <1>4, <2>1, <2>2 DEF OthersStay, SessionsMove, OwnersOK
<1>6. op'[r] = "register" /\ pc'[r] \in {"audit", "tokens", "answered"} =>
        Known(email[r])' /\ accounts'[email'[r]].by = r /\ accounts'[email'[r]].tenant = tenant'[r]
  <2> SUFFICES ASSUME op'[r] = "register", pc'[r] \in {"audit", "tokens", "answered"}
               PROVE  Known(email[r])' /\ accounts'[email'[r]].by = r /\ accounts'[email'[r]].tenant = tenant'[r]
    OBVIOUS
  <2>1. CASE CreateUser(r)
    <3>1. Enrolled(r) /\ email' = email /\ tenant' = tenant
      BY <2>1 DEF CreateUser, Step, Rejects, Goto, asked, TypeInv, RequestsOK
    <3>2. [tenant |-> tenant[r], role |-> role[r], by |-> r] \in Account
      BY <2>1 DEF CreateUser, Step, Account, TypeInv, FoundOK, PathsOK, TablesOK
    <3>3. accounts'[email[r]] = [tenant |-> tenant[r], role |-> role[r], by |-> r]
      BY <1>2, <3>1 DEF Enrolled, TypeInv, AccountsOK
    <3> QED BY AccountsAssumption, <3>1, <3>2, <3>3 DEF Known
  <2>2. CASE RecordAuditLog(r) \/ GenerateTokens(r)
    <3>1. op' = op /\ email' = email /\ tenant' = tenant /\ accounts' = accounts
          /\ pc[r] \in {"audit", "auditRevoked", "tokens"}
      BY <2>2 DEF RecordAuditLog, GenerateTokens, Step, asked
    <3> QED BY <3>1 DEF OwnersOK, Known, TypeInv, PathsOK
  <2>3. ~SetRole(r) /\ ~Revoke(r) /\ \A e \in Emails : ~Login(r, e)
    BY DEF SetRole, Revoke, Login, AskAndRead, Ask, Step, asked, TypeInv, RequestsOK, PathsOK
  <2> QED BY <1>1, <2>1, <2>2, <2>3 DEF Arrivals
<1>7. op'[r] = "login" /\ pc'[r] \in {"audit", "tokens"} => Known(email[r])'
  <2> SUFFICES ASSUME op'[r] = "login", pc'[r] \in {"audit", "tokens"} PROVE Known(email[r])' OBVIOUS
  <2>1. ASSUME NEW e \in Emails, Login(r, e) PROVE Known(email[r])'
    BY <2>1 DEF Login, AskAndRead, Ask, Goto, Known, TypeInv, RequestsOK
  <2>2. CASE RecordAuditLog(r)
    BY <2>2 DEF RecordAuditLog, asked, OwnersOK, Known, TypeInv, PathsOK
  <2>3. ~CreateUser(r) /\ ~SetRole(r) /\ ~Revoke(r)
    BY DEF CreateUser, SetRole, Revoke, Step, asked, TypeInv, PathsOK
  <2> QED BY <1>1, <2>1, <2>2, <2>3 DEF Arrivals
<1>8. session'[r] # "none" => Known(email[r])'
  <2> SUFFICES ASSUME session'[r] # "none" PROVE Known(email[r])' OBVIOUS
  <2>1. pc[r] = "tokens" BY <1>1, <1>3 DEF SessionsMove
  <2>2. email'[r] = email[r]
    BY <2>1 DEF Begin, Statement, Register, Login, ChangeUserRole, Logout, Verify, UpdateRolePermissions,
       UpdateTenant, CreateApiKey, AskAndRead, Ask, FindTenant, CreateTenant, FindRole, CreateRole, CreateUser, SetRole,
       Revoke, RecordAuditLog, GenerateTokens, Step, asked
  <2>3. Known(email[r]) BY <2>1 DEF OwnersOK, TypeInv, PathsOK
  <2> QED BY <1>2, <1>4, <2>2, <2>3 DEF Known
<1> QED BY <1>5, <1>6, <1>7, <1>8 DEF OwnersOK

\* Whom a new row gets in the way of knows it.
LEMMA RacesStep ==
  ASSUME TypeInv, RacesOK, NEW r \in Requests, Begin(r) \/ Statement(r) PROVE RacesOK'
<1>1. OthersStay(r) /\ Grows(r) /\ Arrivals(r) /\ AccountsMove(r) /\ RowsMove(r) BY StepOf
<1>2. /\ RequestsOK /\ PathsOK /\ raced \in [Requests -> SUBSET {"tenant", "role", "account"}]
      /\ faults \in Nat /\ faults' \in Nat
  <2>1. HistoryOK' BY HistoryStep DEF TypeInv, Next
  <2> QED BY <2>1, AccountsAssumption DEF TypeInv, HistoryOK
<1>3. ASSUME NEW c \in Requests \ {r}
      PROVE  /\ pc'[c] = "createTenant" => ~Taken(slug[c])' \/ raced'[c] # {}
             /\ pc'[c] = "createRole" => role'[c] \notin roles' \/ raced'[c] # {}
             /\ pc'[c] \in {"tenant", "createTenant", "role", "createRole", "createUser"} /\ op'[c] = "register"
                  => ~Known(email[c])' \/ raced'[c] # {}
             /\ faults' = 0 /\ op'[c] \in {"register", "permissions"} /\ pc'[c] = "error" => raced'[c] # {}
  <2>1. /\ pc'[c] = pc[c] /\ op'[c] = op[c] /\ slug'[c] = slug[c] /\ role'[c] = role[c] /\ email'[c] = email[c]
        /\ raced[c] \subseteq raced'[c] /\ faults <= faults'
    BY <1>1 DEF OthersStay, Grows
  <2>2. pc[c] \in {"tenant", "createTenant", "role", "createRole", "createUser"} => op[c] # "none"
    BY <1>2 DEF PathsOK
  <2>3. pc[c] = "createTenant" => ~Taken(slug[c])' \/ raced'[c] # {}
    BY <1>1, <2>1, <2>2 DEF RacesOK, RowsMove
  <2>4. pc[c] = "createRole" => role'[c] \notin roles' \/ raced'[c] # {}
    BY <1>1, <2>1, <2>2 DEF RacesOK, RowsMove
  <2>5. pc[c] \in {"tenant", "createTenant", "role", "createRole", "createUser"} /\ op[c] = "register"
          => ~Known(email[c])' \/ raced'[c] # {}
    <3>1. PICK e \in Emails : e = email[c] BY <1>2 DEF RequestsOK
    <3>2. CASE Begins(r, e)
      BY <2>1, <2>2, <3>1, <3>2 DEF Begins, Enrolled, Collide
    <3>3. CASE Known(e)' => Known(e)
      BY <2>1, <3>1, <3>3 DEF RacesOK, Known
    <3> QED BY <1>1, <3>2, <3>3 DEF AccountsMove
  <2>6. faults' = 0 /\ op[c] \in {"register", "permissions"} /\ pc[c] = "error" => raced'[c] # {}
    BY <1>2, <2>1 DEF RacesOK
  <2> QED BY <2>1, <2>3, <2>4, <2>5, <2>6
<1>4. pc'[r] = "createTenant" => ~Taken(slug[r])' \/ raced'[r] # {}
  BY <1>1, <1>2 DEF Arrivals, FindTenant, Step, asked, tables, Rejects, Goto, RequestsOK, Taken
<1>5. pc'[r] = "createRole" => role'[r] \notin roles' \/ raced'[r] # {}
  BY <1>1, <1>2 DEF Arrivals, FindRole, Step, asked, tables, Rejects, Goto, RequestsOK,
     UpdateRolePermissions, AskAndRead, Ask, Change
<1>6. pc'[r] \in {"tenant", "createTenant", "role", "createRole", "createUser"} /\ op'[r] = "register"
        => ~Known(email[r])' \/ raced'[r] # {}
  <2>1. ASSUME NEW e \in Emails, NEW s \in Slugs, NEW n \in Roles, Register(r, e, s, n), pc'[r] = "tenant"
        PROVE  ~Known(email[r])'
    BY <1>2, <2>1 DEF Register, AskAndRead, Ask, Goto, Known, RequestsOK
  <2>2. CASE FindTenant(r) \/ CreateTenant(r) \/ FindRole(r) \/ CreateRole(r)
    <3>1. /\ op'[r] = op[r] /\ email'[r] = email[r] /\ accounts' = accounts
          /\ pc[r] \in {"tenant", "createTenant", "role", "createRole"}
      BY <2>2 DEF FindTenant, CreateTenant, FindRole, CreateRole, Step, asked, tables
    <3>2. raced'[r] = raced[r]
      BY <1>2, <2>2 DEF FindTenant, CreateTenant, Made, FindRole, CreateRole, Named, Collide, history
    <3> QED BY <3>1, <3>2 DEF RacesOK, Known
  <2>3. \A n \in Roles : ~(UpdateRolePermissions(r, n) /\ op'[r] = "register")
    BY <1>2 DEF UpdateRolePermissions, AskAndRead, Ask, RequestsOK
  <2> QED BY <1>1, <2>1, <2>2, <2>3 DEF Arrivals
<1>7. faults' = 0 /\ op'[r] \in {"register", "permissions"} /\ pc'[r] = "error" => raced'[r] # {}
  <2> SUFFICES ASSUME faults' = 0, op'[r] \in {"register", "permissions"}, pc'[r] = "error"
               PROVE  raced'[r] # {}
    OBVIOUS
  <2>1. CASE CreateTenant(r)
    BY <1>2, <2>1 DEF CreateTenant, Step, Works, Rejects, Fails, Goto, RacesOK, RequestsOK
  <2>2. CASE CreateRole(r)
    BY <1>2, <2>2 DEF CreateRole, Step, Works, Rejects, Fails, Goto, RacesOK, RequestsOK
  <2>3. CASE CreateUser(r)
    BY <1>2, <2>3 DEF CreateUser, Step, Works, Rejects, Fails, Goto, RacesOK, RequestsOK, PathsOK, history
  <2> QED BY <1>1, <2>1, <2>2, <2>3 DEF Arrivals
<1> QED BY <1>3, <1>4, <1>5, <1>6, <1>7 DEF RacesOK

\* Only a registration makes an account, and after that only a fault makes it fail.
LEMMA MadeByStep ==
  ASSUME TypeInv, MadeByOK, NEW r \in Requests, Begin(r) \/ Statement(r) PROVE MadeByOK'
<1>1. OthersStay(r) /\ Grows(r) /\ Arrivals(r) /\ AccountsMove(r) BY StepOf
<1>2. RequestsOK /\ PathsOK /\ faults \in Nat /\ faults' \in Nat
  <2>1. HistoryOK' BY HistoryStep DEF TypeInv, Next
  <2> QED BY <2>1, AccountsAssumption DEF TypeInv, HistoryOK
<1> SUFFICES ASSUME NEW c \in Requests, NEW e \in Emails, Known(e)', accounts'[e].by = c
             PROVE  /\ op'[c] = "register" /\ pc'[c] \in {"audit", "tokens", "answered", "error"}
                    /\ faults' = 0 => pc'[c] # "error"
  BY DEF MadeByOK, Known
<1>3. CASE Begins(r, e)
  <2>1. c = r BY <1>3 DEF Begins
  <2>2. op'[r] = op[r] /\ pc[r] = "createUser" BY <1>3 DEF Begins, CreateUser, Step, asked
  <2> QED BY <1>2, <1>3, <2>1, <2>2 DEF Begins, PathsOK
<1>4. CASE Known(e) /\ accounts[e].by = c
  <2>1. op[c] = "register" /\ pc[c] \in {"audit", "tokens", "answered", "error"} /\ (faults = 0 => pc[c] # "error")
    BY <1>4 DEF MadeByOK
  <2>2. CASE c # r BY <1>1, <1>2, <2>1, <2>2 DEF OthersStay, Grows
  <2>3. CASE c = r
    <3>1. pc[r] \in {"audit", "tokens"} BY <1>1, <2>1, <2>3 DEF Arrivals, Ends
    <3>2. RecordAuditLog(r) \/ GenerateTokens(r)
      BY <3>1 DEF Begin, Statement, Register, Login, ChangeUserRole, Logout, Verify, UpdateRolePermissions,
         UpdateTenant, CreateApiKey, AskAndRead, Ask, FindTenant, CreateTenant, FindRole, CreateRole, CreateUser, SetRole,
         Revoke, Step
    <3>3. op' = op BY <3>2 DEF RecordAuditLog, GenerateTokens, Step, asked
    <3>4. pc'[r] \in {"tokens", "answered", "error"} /\ (pc'[r] = "error" => faults' # 0)
      <4>1. CASE RecordAuditLog(r)
        BY <1>2, <2>1, <2>3, <3>1, <4>1 DEF RecordAuditLog, NextPlace, Afterwards, Works, Fails, Goto, RequestsOK
      <4>2. CASE GenerateTokens(r)
        BY <1>2, <4>2 DEF GenerateTokens, Works, Rejects, Fails, Goto, RequestsOK
      <4> QED BY <3>2, <4>1, <4>2
    <3> QED BY <2>1, <2>3, <3>3, <3>4
  <2> QED BY <2>2, <2>3
<1> QED BY <1>1, <1>3, <1>4 DEF AccountsMove

-----------------------------------------------------------------------------
IInv == TypeInv /\ LogoutOK /\ LoggedOK /\ HeldOK /\ OwnersOK /\ RacesOK /\ MadeByOK

LEMMA Invariance == Spec => []IInv
<1>1. Init => IInv
  <2> SUFFICES ASSUME Init PROVE IInv OBVIOUS
  <2>1. LogoutOK /\ LoggedOK /\ HeldOK /\ OwnersOK /\ RacesOK
    BY DEF Init, LogoutOK, LoggedOK, HeldOK, OwnersOK, RacesOK
  <2>2. MadeByOK
    BY AccountsAssumption DEF Init, MadeByOK, Known
  <2> QED BY TypeInit, <2>1, <2>2 DEF IInv
<1>2. IInv /\ [Next]_vars => IInv'
  <2> SUFFICES ASSUME IInv, [Next]_vars PROVE IInv' OBVIOUS
  <2>1. TypeInv'
    BY RequestsStep, PathsStep, HistoryStep, TablesStep, FoundStep, AccountsStep DEF IInv, TypeInv
  <2>2. CASE Next
    <3>1. PICK r \in Requests : Begin(r) \/ Statement(r) BY <2>2 DEF Next
    <3> QED BY <2>1, <3>1, LogoutStep, LoggedStep, HeldStep, OwnersStep, RacesStep, MadeByStep DEF IInv
  <2>3. CASE UNCHANGED vars
    <3> USE <2>3 DEF vars, tables, IInv
    <3>1. LogoutOK' /\ LoggedOK' BY DEF LogoutOK, LoggedOK
    <3>2. HeldOK' /\ OwnersOK' BY DEF HeldOK, OwnersOK, Known
    <3>3. RacesOK' /\ MadeByOK' BY DEF RacesOK, MadeByOK, Known, Taken
    <3> QED BY <2>1, <3>1, <3>2, <3>3
  <2> QED BY <2>2, <2>3
<1> QED BY <1>1, <1>2, PTL DEF Spec

\* However registrations of one email overlap, one account results, and it is that of
\* the one that is answered.
THEOREM OneAccountPerEmailHolds == Spec => []OneAccountPerEmail
<1>1. IInv => OneAccountPerEmail BY DEF IInv, OwnersOK, OneAccountPerEmail
<1> QED BY Invariance, <1>1, PTL

\* While the database works, registrations fail only in races, and then without a trace.
THEOREM FailsOnlyInRacesHolds == Spec => []FailsOnlyInRaces
<1>1. IInv => FailsOnlyInRaces
  BY DEF IInv, RacesOK, MadeByOK, FailsOnlyInRaces
<1> QED BY Invariance, <1>1, PTL

\* A logout that is confirmed has revoked the token presented, if any, and every session
\* that the user it names had when it began.
THEOREM ConfirmedLogoutRevokesHolds == Spec => []ConfirmedLogoutRevokes
<1>1. IInv => ConfirmedLogoutRevokes BY DEF IInv, LogoutOK, ConfirmedLogoutRevokes
<1> QED BY Invariance, <1>1, PTL

\* No answer before its entry in the audit log.
THEOREM AnsweredIsLoggedHolds == Spec => []AnsweredIsLogged
<1>1. IInv => AnsweredIsLogged BY DEF IInv, LoggedOK, AnsweredIsLogged
<1> QED BY Invariance, <1>1, PTL

\* No token with a role that the account did not have while it was made.
THEOREM TokensCarryRoleHeldHolds == Spec => []TokensCarryRoleHeld
<1>1. IInv => TokensCarryRoleHeld BY DEF IInv, HeldOK, TokensCarryRoleHeld
<1> QED BY Invariance, <1>1, PTL
=============================================================================
