------------------------------- MODULE Catalog -------------------------------
(***************************************************************************)
(* The workflow definitions: requests that create, update, delete and list *)
(* them, the policy that allows or forbids, and the audit log.             *)
(*                                                                         *)
(* An action is one statement in the database with the local work around   *)
(* it.  Rows are numbered in the order of their creation, so a list (newest *)
(* first) runs from high numbers to low ones.                              *)
(***************************************************************************)
EXTENDS Integers, FiniteSets

CONSTANTS
  Requests,          \* API calls; a walk through the pages of a list is one of them
  Users,             \* the users: records [id, role, tenant] as their token has them
  Fields,            \* the fields of a workflow that an update can set
  Updates,           \* which of them an update sets: sets of fields
  FirstRows,         \* the workflows there are: a function from 1 .. n to rows
  NoRow,             \* null: no row, or a field nobody has set
  MaxRows,           \* bound: workflows ever created
  PageLimits,        \* what clients ask for as a limit; 0 stands for nothing usable
  DEFAULT_PAGE_SIZE, MAX_PAGE_SIZE,
  MaxFaults          \* bound: statements that reject

Ids == 1 .. MaxRows
Row == [tenant : {u.tenant : u \in Users}, createdById : {u.id : u \in Users},
        value : [Fields -> Requests \cup {NoRow}]]

ASSUME CatalogAssumption ==
  /\ IsFiniteSet(Requests) /\ Users # {} /\ NoRow \notin Row
  /\ MaxRows \in Nat /\ MaxFaults \in Nat
  /\ \E n \in 0 .. MaxRows : DOMAIN FirstRows = 1 .. n /\ \A i \in 1 .. n : FirstRows[i] \in Row
  /\ Updates \subseteq SUBSET Fields
  /\ PageLimits \subseteq Nat /\ DEFAULT_PAGE_SIZE \in 1 .. MAX_PAGE_SIZE /\ MAX_PAGE_SIZE \in Nat

VARIABLES
  rows,       \* the workflows, NoRow where there is none
  created,    \* how many have ever been created
  audit,      \* the audit log: records [action, id, tenant, user, by]
  \* Each request:
  op, pc,     \* what it asks for and where it is
  user,       \* UserContext
  target,     \* the workflow it is about
  dto,        \* the fields it sets
  wf,         \* the row it has read
  limit,      \* of a walk: the page size, ...
  cursor,     \* ... the cursor or the skip of the next page, and ...
  got,        \* ... how often it has been given each workflow
  \* History:
  written,    \* the value each field was last set to
  overlap,    \* the workflows updated by a request that had read an older row
  walked,     \* of a walk: the workflows that have been there since it began
  cut,        \* of a walk: the workflow its cursor is at has been deleted
  faults      \* statements that have rejected

table == <<rows, created>>
walk == <<limit, cursor, got, walked, cut>>
vars == <<table, audit, op, pc, user, target, dto, wf, walk, written, overlap, faults>>

There == {i \in Ids : rows[i] # NoRow}
Walking(r) == pc[r] = "page"

TypeOK ==
  /\ created \in 0 .. MaxRows /\ There \subseteq 1 .. created
  /\ \A i \in There : rows[i] \in Row
  /\ audit \subseteq [action : {"workflow.created", "workflow.updated", "workflow.deleted"},
                      id : 1 .. created, tenant : {u.tenant : u \in Users},
                      user : {u.id : u \in Users}, by : Requests]
  /\ op \in [Requests -> {"none", "create", "update", "delete", "cursor walk", "skip walk"}]
  /\ pc \in [Requests -> {"idle", "insert", "read", "write", "audit", "page",
                          "answered", "forbidden", "notFound", "error"}]
  /\ user \in [Requests -> Users] /\ target \in [Requests -> 0 .. MaxRows]
  /\ dto \in [Requests -> SUBSET Fields]
  /\ \A r \in Requests : pc[r] \in {"write", "audit"} => wf[r] \in Row /\ target[r] \in 1 .. created
  /\ limit \in [Requests -> 0 .. MAX_PAGE_SIZE] /\ cursor \in [Requests -> Nat]
  /\ got \in [Requests -> [Ids -> Nat]]
  /\ \A r \in Requests : Walking(r) => limit[r] > 0
  /\ walked \in [Requests -> SUBSET Ids] /\ cut \in [Requests -> BOOLEAN]
  /\ written \in [Ids -> [Fields -> Requests \cup {NoRow}]] /\ overlap \subseteq Ids
  /\ faults \in 0 .. MaxFaults

Init ==
  /\ rows = [i \in Ids |-> IF i \in DOMAIN FirstRows THEN FirstRows[i] ELSE NoRow]
  /\ created = Cardinality(DOMAIN FirstRows) /\ audit = {}
  /\ op = [r \in Requests |-> "none"] /\ pc = [r \in Requests |-> "idle"]
  /\ user = [r \in Requests |-> CHOOSE u \in Users : TRUE]
  /\ target = [r \in Requests |-> 0] /\ dto = [r \in Requests |-> {}]
  /\ wf = [r \in Requests |-> NoRow]
  /\ limit = [r \in Requests |-> 0] /\ cursor = [r \in Requests |-> 0]
  /\ got = [r \in Requests |-> [i \in Ids |-> 0]]
  /\ written = [i \in Ids |-> IF i \in DOMAIN FirstRows THEN FirstRows[i].value
                              ELSE [f \in Fields |-> NoRow]]
  /\ overlap = {} /\ walked = [r \in Requests |-> {}] /\ cut = [r \in Requests |-> FALSE]
  /\ faults = 0

-----------------------------------------------------------------------------
(* AuthorizationPolicy.can *)

Owners == {"workflow_owner", "user", "moderator"}
Verdict(u, action, isOwner) ==
  \/ u.role = "admin"
  \/ u.role = "viewer" /\ action \in {"workflow:read", "execution:read"}
  \/ u.role = "operator" /\ action \in {"workflow:read", "execution:read", "workflow:execute"}
  \/ /\ u.role \in Owners
     /\ \/ action \in {"workflow:create", "workflow:read", "execution:read", "workflow:execute"}
        \/ action \in {"workflow:update", "workflow:delete"} /\ isOwner

Can(u, action) == Verdict(u, action, TRUE)

\* Mutant of CanWith: ownership is not looked at.
CanInTenant(u, action, row) == row.tenant = u.tenant /\ Verdict(u, action, TRUE)
CanWith(u, action, row) ==
  row.tenant = u.tenant /\ Verdict(u, action, row.createdById = u.id)

-----------------------------------------------------------------------------
Works == faults' = faults
Fails == faults < MaxFaults /\ faults' = faults + 1

Goto(r, place) == pc' = [pc EXCEPT ![r] = place]
Keep(r) == UNCHANGED <<op, user, target, dto, wf, walk>>

\* The walks that another row, or the loss of one, upsets: by skip, all of the tenant's;
\* by cursor, those whose cursor is the row that has gone.
Upset(i, tenant) ==
  {r \in Requests : Walking(r) /\ \/ op[r] = "skip walk" /\ user[r].tenant = tenant
                                  \/ op[r] = "cursor walk" /\ cursor[r] = i}

-----------------------------------------------------------------------------
(* The requests; each begins with what the service decides before its first statement. *)

Enter(r, u, operation, i, fields, action, place) ==
  /\ pc[r] = "idle"
  /\ op' = [op EXCEPT ![r] = operation] /\ user' = [user EXCEPT ![r] = u]
  /\ target' = [target EXCEPT ![r] = i] /\ dto' = [dto EXCEPT ![r] = fields]
  /\ Goto(r, IF Can(u, action) THEN place ELSE "forbidden")
  /\ Works /\ UNCHANGED <<table, audit, wf, written, overlap>>

AskCreate(r, u) == Enter(r, u, "create", 0, Fields, "workflow:create", "insert") /\ UNCHANGED walk
AskUpdate(r, u, i, fields) == Enter(r, u, "update", i, fields, "workflow:read", "read") /\ UNCHANGED walk
AskDelete(r, u, i) == Enter(r, u, "delete", i, {}, "workflow:read", "read") /\ UNCHANGED walk

\* Mutant of ParseLimit: there is no default.
ClampLimit(n) == IF n > MAX_PAGE_SIZE THEN MAX_PAGE_SIZE ELSE n

\* parsePaginationParams
ParseLimit(n) == IF n = 0 THEN DEFAULT_PAGE_SIZE
                 ELSE IF n > MAX_PAGE_SIZE THEN MAX_PAGE_SIZE ELSE n

\* A client that fetches page after page, by the cursors it is given or by skipping what
\* it has.
AskWalk(r, u, kind, n) ==
  /\ Enter(r, u, kind, 0, {}, "workflow:read", "page")
  /\ limit' = [limit EXCEPT ![r] = ParseLimit(n)]
  /\ walked' = [walked EXCEPT ![r] = {i \in There : rows[i].tenant = u.tenant}]
  /\ UNCHANGED <<cursor, got, cut>>

Begin(r) == \E u \in Users :
  \/ AskCreate(r, u)
  \/ \E i \in 1 .. created :
       AskDelete(r, u, i) \/ \E fields \in Updates : AskUpdate(r, u, i, fields)
  \/ \E n \in PageLimits : AskWalk(r, u, "cursor walk", n) \/ AskWalk(r, u, "skip walk", n)

\* createWorkflow: the row and its steps, in one statement.
Inserted(r) ==
  LET row == [tenant |-> user[r].tenant, createdById |-> user[r].id,
              value |-> [f \in Fields |-> r]]
  IN  /\ created < MaxRows /\ created' = created + 1
      /\ rows' = [rows EXCEPT ![created + 1] = row] /\ wf' = [wf EXCEPT ![r] = row]
      /\ target' = [target EXCEPT ![r] = created + 1]
      /\ written' = [written EXCEPT ![created + 1] = row.value]
      /\ cut' = [q \in Requests |-> cut[q] \/ q \in Upset(created + 1, row.tenant)]

Create(r) ==
  /\ pc[r] = "insert"
  /\ \/ Works /\ Inserted(r) /\ Goto(r, "audit")
     \/ Fails /\ Inserted(r) /\ Goto(r, "error")
     \/ Fails /\ Goto(r, "error") /\ UNCHANGED <<table, wf, target, written, cut>>
  /\ UNCHANGED <<audit, op, user, dto, limit, cursor, got, walked, overlap>>

\* getWorkflowById looks for the row in the user's tenant; then the policy is asked
\* about that row.
Verb(operation) == IF operation = "update" THEN "workflow:update" ELSE "workflow:delete"
Read(r) ==
  LET i == target[r]
  IN  /\ pc[r] = "read"
      /\ \/ /\ Works /\ i \in There /\ rows[i].tenant = user[r].tenant
            /\ wf' = [wf EXCEPT ![r] = rows[i]]
            /\ Goto(r, IF CanWith(user[r], Verb(op[r]), rows[i]) THEN "write" ELSE "forbidden")
         \/ /\ Works /\ ~(i \in There /\ rows[i].tenant = user[r].tenant)
            /\ Goto(r, "notFound") /\ wf' = wf
         \/ Fails /\ Goto(r, "error") /\ wf' = wf
      /\ UNCHANGED <<table, audit, op, user, target, dto, walk, written, overlap>>

\* Mutant of NewValue: fields that are not given are emptied.
BlankValue(r) == [f \in Fields |-> IF f \in dto[r] THEN r ELSE NoRow]

\* `dto.f ?? wf.f' for every field: what was read is written back.
NewValue(r) == [f \in Fields |-> IF f \in dto[r] THEN r ELSE wf[r].value[f]]

Updated(r) ==
  LET i == target[r]
  IN  /\ i \in There
      /\ rows' = [rows EXCEPT ![i].value = NewValue(r)]
      /\ written' = [written EXCEPT ![i] = [f \in Fields |-> IF f \in dto[r] THEN r ELSE @[f]]]
      /\ overlap' = IF rows[i] # wf[r] THEN overlap \cup {i} ELSE overlap

Update(r) ==
  /\ pc[r] = "write" /\ op[r] = "update"
  /\ \/ Works /\ Updated(r) /\ Goto(r, "audit")
     \/ Works /\ target[r] \notin There /\ Goto(r, "error") /\ UNCHANGED <<rows, written, overlap>>
     \/ Fails /\ Updated(r) /\ Goto(r, "error")
     \/ Fails /\ Goto(r, "error") /\ UNCHANGED <<rows, written, overlap>>
  /\ UNCHANGED <<created, audit>> /\ Keep(r)

Deleted(r) ==
  LET i == target[r]
  IN  /\ i \in There
      /\ rows' = [rows EXCEPT ![i] = NoRow]
      /\ walked' = [q \in Requests |-> walked[q] \ {i}]
      /\ cut' = [q \in Requests |-> cut[q] \/ q \in Upset(i, rows[i].tenant)]

\* Mutant of Delete: a row that is gone already counts as deleted.
DeleteMany(r) ==
  /\ pc[r] = "write" /\ op[r] = "delete"
  /\ \/ Works /\ Deleted(r) /\ Goto(r, "audit")
     \/ Works /\ target[r] \notin There /\ Goto(r, "audit") /\ UNCHANGED <<rows, walked, cut>>
  /\ UNCHANGED <<created, audit, op, user, target, dto, wf, limit, cursor, got, written, overlap>>

\* The executions of the workflow go with it.
Delete(r) ==
  /\ pc[r] = "write" /\ op[r] = "delete"
  /\ \/ Works /\ Deleted(r) /\ Goto(r, "audit")
     \/ Works /\ target[r] \notin There /\ Goto(r, "error") /\ UNCHANGED <<rows, walked, cut>>
     \/ Fails /\ Deleted(r) /\ Goto(r, "error")
     \/ Fails /\ Goto(r, "error") /\ UNCHANGED <<rows, walked, cut>>
  /\ UNCHANGED <<created, audit, op, user, target, dto, wf, limit, cursor, got, written, overlap>>

\* recordAuditLog, in the name of the tenant of the row that was read or created.
Action(operation) ==
  CASE operation = "create" -> "workflow.created" [] operation = "update" -> "workflow.updated"
    [] operation = "delete" -> "workflow.deleted"
RecordAuditLog(r) ==
  LET entry == [action |-> Action(op[r]), id |-> target[r], tenant |-> wf[r].tenant,
                user |-> user[r].id, by |-> r]
  IN  /\ pc[r] = "audit"
      /\ \/ Works /\ audit' = audit \cup {entry} /\ Goto(r, "answered")
         \/ Fails /\ audit' \in {audit, audit \cup {entry}} /\ Goto(r, "error")
      /\ UNCHANGED <<table, written, overlap>> /\ Keep(r)

-----------------------------------------------------------------------------
(* getWorkflows: findMany asks for one item more than the page holds. *)

Listed(r) == {i \in There : rows[i].tenant = user[r].tenant}
First(n, S) == {i \in S : Cardinality({j \in S : j > i}) < n}

\* Mutant of After: the item at the cursor comes again.
AfterOrAt(r) == {i \in Listed(r) : cursor[r] = 0 \/ (cursor[r] \in There /\ i <= cursor[r])}

\* By cursor: what comes after it, and nothing if there is no such row any more; by skip:
\* all but so many.
After(r) == IF op[r] = "cursor walk"
            THEN {i \in Listed(r) : cursor[r] = 0 \/ (cursor[r] \in There /\ i < cursor[r])}
            ELSE Listed(r) \ First(cursor[r], Listed(r))

\* buildPaginatedResult: the last item of a full page is the next cursor.
Page(r) ==
  LET items == First(limit[r] + 1, After(r))
      page  == First(limit[r], items)
  IN  /\ pc[r] = "page"
      /\ \/ /\ Works
            /\ got' = [got EXCEPT ![r] = [i \in Ids |-> IF i \in page THEN @[i] + 1 ELSE @[i]]]
            /\ \/ /\ items # page /\ pc' = pc
                  /\ \E last \in page :
                       /\ \A i \in page : last <= i
                       /\ cursor' = [cursor EXCEPT ![r] =
                                       IF op[r] = "cursor walk" THEN last ELSE @ + limit[r]]
               \/ items = page /\ Goto(r, "answered") /\ cursor' = cursor
         \/ Fails /\ Goto(r, "error") /\ UNCHANGED <<got, cursor>>
      /\ UNCHANGED <<table, audit, op, user, target, dto, wf, limit, walked, cut, written, overlap>>

-----------------------------------------------------------------------------
Next == \E r \in Requests :
  Begin(r) \/ Create(r) \/ Read(r) \/ Update(r) \/ Delete(r) \/ RecordAuditLog(r) \/ Page(r)

Spec == Init /\ [][Next]_vars

-----------------------------------------------------------------------------
(* Properties. *)

\* Whatever happens between the check and the write, a change is logged only of a
\* workflow of the user's own tenant, and an update or deletion only by its creator or an
\* administrator; nobody is given a workflow of another tenant.
TenantsApart ==
  /\ \A entry \in audit :
       LET u == user[entry.by]
       IN  /\ u.tenant = entry.tenant
           /\ entry.id \in There => rows[entry.id].tenant = u.tenant
           /\ entry.action # "workflow.created" => u.role = "admin" \/ wf[entry.by].createdById = u.id
  /\ \A r \in Requests : \A i \in There : got[r][i] > 0 => rows[i].tenant = user[r].tenant

\* A workflow that has gone was deleted by one request, which logs it once and is the
\* only one to be told so, however deletions and updates of it overlap.
DeletedOnce ==
  faults = 0 => \A i \in 1 .. created : i \notin There =>
    Cardinality({r \in Requests : op[r] = "delete" /\ target[r] = i /\ pc[r] = "audit"})
      + Cardinality({entry \in audit : entry.action = "workflow.deleted" /\ entry.id = i}) = 1

\* Every field has the value it was last set to, except in workflows that an update has
\* written over after another one had changed what it had read.
OnlyOverlapLosesUpdates ==
  \A i \in There \ overlap : rows[i].value = written[i]

\* A client that walks through all pages by cursor is given no workflow twice, and every
\* one that was there all the time once, unless the workflow at its cursor was deleted; one
\* that walks by skip, if the tenant's workflows stayed the same.
WalkIsComplete ==
  \A r \in Requests :
    /\ op[r] = "cursor walk" => \A i \in Ids : got[r][i] <= 1
    /\ op[r] \in {"cursor walk", "skip walk"} /\ pc[r] = "answered" /\ ~cut[r] =>
         \A i \in walked[r] : got[r][i] = 1
=============================================================================
