---------------------------- MODULE CatalogProofs ----------------------------
(***************************************************************************)
(* Theorems about Catalog, for any requests, users, workflows and numbers  *)
(* of rows and of rejected statements.                                     *)
(***************************************************************************)
EXTENDS Catalog, FiniteSetTheorems, TLAPS

\* The type invariant in parts, with what the place of a request says about it.
Operations == {"none", "create", "update", "delete", "cursor walk", "skip walk"}
Places == {"idle", "insert", "read", "write", "audit", "page",
           "answered", "forbidden", "notFound", "error"}
Logged == {"workflow.created", "workflow.updated", "workflow.deleted"}

RowsOK ==
  /\ rows \in [Ids -> Row \cup {NoRow}] /\ created \in 0 .. MaxRows
  /\ \A i \in There : i <= created

CallsOK ==
  /\ op \in [Requests -> Operations] /\ pc \in [Requests -> Places]
  /\ user \in [Requests -> Users] /\ target \in [Requests -> 0 .. MaxRows]
  /\ dto \in [Requests -> SUBSET Fields] /\ wf \in [Requests -> Row \cup {NoRow}]

PathOK(r) ==
  /\ pc[r] \in {"read", "write", "audit"} => op[r] \in {"create", "update", "delete"}
  /\ pc[r] = "insert" => op[r] = "create"
  /\ pc[r] \in {"read", "write"} => op[r] # "create" /\ target[r] \in 1 .. created
  /\ pc[r] \in {"write", "audit"} => wf[r] \in Row /\ target[r] \in 1 .. created
  /\ pc[r] = "page" => op[r] \in {"cursor walk", "skip walk"} /\ limit[r] > 0

WalksOK ==
  /\ limit \in [Requests -> 0 .. MAX_PAGE_SIZE] /\ cursor \in [Requests -> Nat]
  /\ got \in [Requests -> [Ids -> Nat]]
  /\ walked \in [Requests -> SUBSET Ids] /\ cut \in [Requests -> BOOLEAN]

HistoryOK ==
  /\ written \in [Ids -> [Fields -> Requests \cup {NoRow}]] /\ overlap \subseteq Ids
  /\ faults \in 0 .. MaxFaults

AuditOK ==
  /\ IsFiniteSet(audit)
  /\ audit \subseteq [action : Logged, id : 1 .. created, tenant : {u.tenant : u \in Users},
                      user : {u.id : u \in Users}, by : Requests]

TypeInv ==
  /\ RowsOK /\ CallsOK /\ (\A r \in Requests : PathOK(r)) /\ WalksOK /\ HistoryOK /\ AuditOK

LEMMA RowLemma ==
  /\ \A row \in Row : /\ row.tenant \in {u.tenant : u \in Users}
                      /\ row.value \in [Fields -> Requests \cup {NoRow}] /\ row # NoRow
  /\ \A i \in Ids : i \in Nat /\ i >= 1 /\ i <= MaxRows
BY CatalogAssumption DEF Row, Ids

Statement(r) == Create(r) \/ Read(r) \/ Update(r) \/ Delete(r) \/ RecordAuditLog(r) \/ Page(r)


\* What the beginning of a request sets.
Begins(r) ==
  /\ pc[r] = "idle" /\ UNCHANGED <<rows, created, audit, wf, written, overlap, faults, got, cursor, cut>>
  /\ \E u \in Users : user' = [user EXCEPT ![r] = u]
  /\ \E o \in Operations : op' = [op EXCEPT ![r] = o]
  /\ \E i \in 0 .. MaxRows : target' = [target EXCEPT ![r] = i]
  /\ \E fields \in SUBSET Fields : dto' = [dto EXCEPT ![r] = fields]
  /\ \E place \in {"insert", "read", "page", "forbidden"} : pc' = [pc EXCEPT ![r] = place]
  /\ pc'[r] = "insert" => op'[r] = "create"
  /\ pc'[r] = "read" => op'[r] \in {"update", "delete"} /\ target'[r] \in 1 .. created
  /\ \/ UNCHANGED <<limit, walked>> /\ pc'[r] # "page"
     \/ /\ op'[r] \in {"cursor walk", "skip walk"}
        /\ \E n \in 1 .. MAX_PAGE_SIZE : limit' = [limit EXCEPT ![r] = n]
        /\ \E S \in SUBSET Ids : walked' = [walked EXCEPT ![r] = S]

\* A page has at least one place, and no more than the limit for all clients.
LEMMA ParseLimitLemma ==
  ASSUME NEW n \in PageLimits
  PROVE  ParseLimit(n) \in 1 .. MAX_PAGE_SIZE
<1>1. n \in Nat /\ MAX_PAGE_SIZE \in Nat BY CatalogAssumption
<1>2. DEFAULT_PAGE_SIZE \in 1 .. MAX_PAGE_SIZE BY CatalogAssumption
<1>3. MAX_PAGE_SIZE >= 1 BY <1>1, <1>2
<1>4. CASE n = 0 BY <1>2, <1>4 DEF ParseLimit
<1>5. CASE n # 0 /\ n > MAX_PAGE_SIZE BY <1>1, <1>3, <1>5 DEF ParseLimit
<1>6. CASE n # 0 /\ ~(n > MAX_PAGE_SIZE) BY <1>1, <1>6 DEF ParseLimit
<1> QED BY <1>4, <1>5, <1>6

LEMMA EnterLemma ==
  ASSUME CallsOK, NEW r \in Requests, NEW u \in Users, NEW o \in Operations, NEW i \in 0 .. MaxRows,
         NEW fields \in SUBSET Fields, NEW action, NEW place \in {"insert", "read", "page"},
         Enter(r, u, o, i, fields, action, place)
  PROVE  /\ pc[r] = "idle" /\ UNCHANGED <<rows, created, audit, wf, written, overlap, faults>>
         /\ \E v \in Users : user' = [user EXCEPT ![r] = v]
         /\ \E p \in Operations : op' = [op EXCEPT ![r] = p]
         /\ \E j \in 0 .. MaxRows : target' = [target EXCEPT ![r] = j]
         /\ \E set \in SUBSET Fields : dto' = [dto EXCEPT ![r] = set]
         /\ \E p \in {"insert", "read", "page", "forbidden"} : pc' = [pc EXCEPT ![r] = p]
         /\ pc'[r] \in {place, "forbidden"} /\ op'[r] = o /\ target'[r] = i
<1>1. pc' = [pc EXCEPT ![r] = IF Can(u, action) THEN place ELSE "forbidden"]
  BY DEF Enter, Goto
<1>2. \E p \in {place, "forbidden"} : pc' = [pc EXCEPT ![r] = p]
  <2>1. CASE Can(u, action) BY <1>1, <2>1
  <2>2. CASE ~Can(u, action) BY <1>1, <2>2
  <2> QED BY <2>1, <2>2
<1> QED BY <1>2 DEF CallsOK, Enter, Works, table

LEMMA BeginLemma ==
  ASSUME CallsOK, RowsOK, NEW r \in Requests, Begin(r)
  PROVE  Begins(r)
<1>0. /\ MaxRows \in Nat /\ created \in 0 .. MaxRows /\ {} \in SUBSET Fields
      /\ Updates \subseteq SUBSET Fields /\ 0 \in 0 .. MaxRows /\ Fields \in SUBSET Fields
  BY CatalogAssumption DEF RowsOK
<1>1. PICK u \in Users :
        \/ AskCreate(r, u)
        \/ \E i \in 1 .. created :
             AskDelete(r, u, i) \/ \E fields \in Updates : AskUpdate(r, u, i, fields)
        \/ \E n \in PageLimits : AskWalk(r, u, "cursor walk", n) \/ AskWalk(r, u, "skip walk", n)
  BY DEF Begin
<1>2. CASE AskCreate(r, u)
  <2>1. "create" \in Operations BY DEF Operations
  <2> QED BY <1>0, <1>2, <2>1, EnterLemma DEF AskCreate, Begins, walk
<1>3. ASSUME NEW i \in 1 .. created, AskDelete(r, u, i) PROVE Begins(r)
  <2>1. "delete" \in Operations /\ i \in 0 .. MaxRows BY <1>0 DEF Operations
  <2> QED BY <1>0, <1>3, <2>1, EnterLemma DEF AskDelete, Begins, walk
<1>4. ASSUME NEW i \in 1 .. created, NEW fields \in Updates, AskUpdate(r, u, i, fields)
      PROVE  Begins(r)
  <2>1. "update" \in Operations /\ i \in 0 .. MaxRows BY <1>0 DEF Operations
  <2> QED BY <1>0, <1>4, <2>1, EnterLemma DEF AskUpdate, Begins, walk
<1>5. ASSUME NEW n \in PageLimits, NEW kind \in {"cursor walk", "skip walk"}, AskWalk(r, u, kind, n)
      PROVE  Begins(r)
  <2>1. ParseLimit(n) \in 1 .. MAX_PAGE_SIZE BY ParseLimitLemma
  <2>2. {i \in There : rows[i].tenant = u.tenant} \in SUBSET Ids BY DEF There
  <2>3. kind \in Operations BY DEF Operations
  <2>4. /\ Enter(r, u, kind, 0, {}, "workflow:read", "page") /\ UNCHANGED <<cursor, got, cut>>
        /\ \E m \in 1 .. MAX_PAGE_SIZE : limit' = [limit EXCEPT ![r] = m]
        /\ \E S \in SUBSET Ids : walked' = [walked EXCEPT ![r] = S]
    BY <1>5, <2>1, <2>2 DEF AskWalk
  <2> QED BY <1>0, <2>3, <2>4, EnterLemma DEF Begins
<1> QED BY <1>1, <1>2, <1>3, <1>4, <1>5

\* What a statement does to the rows.
Inserts(r) ==
  /\ pc[r] = "insert" /\ created < MaxRows /\ created' = created + 1 /\ overlap' = overlap
  /\ \E row \in Row :
       /\ row.tenant = user[r].tenant
       /\ rows' = [rows EXCEPT ![created + 1] = row] /\ wf' = [wf EXCEPT ![r] = row]
       /\ written' = [written EXCEPT ![created + 1] = row.value]
  /\ target' = [target EXCEPT ![r] = created + 1]
Updates1(r) == pc[r] = "write" /\ op[r] = "update" /\ Updated(r) /\ UNCHANGED <<created, wf, target>>
Deletes(r) == pc[r] = "write" /\ op[r] = "delete" /\ Deleted(r)
              /\ UNCHANGED <<created, wf, target, written, overlap>>
Reads(r) ==
  /\ pc[r] = "read" /\ pc'[r] \in {"write", "forbidden"}
  /\ target[r] \in There /\ rows[target[r]].tenant = user[r].tenant
  /\ wf' = [wf EXCEPT ![r] = rows[target[r]]]
  /\ pc'[r] = "write" => CanWith(user[r], Verb(op[r]), rows[target[r]])
  /\ UNCHANGED <<rows, created, target, written, overlap>>
Leaves(r) == UNCHANGED <<rows, created, wf, target, written, overlap>>

\* The ways from a statement: a write goes to the audit log if it answers, and what is
\* logged is the request's own.
Moves(r) ==
  /\ \E place \in {"write", "audit", "page", "answered", "forbidden", "notFound", "error"} :
       pc' = [pc EXCEPT ![r] = place]
  /\ UNCHANGED <<op, user, dto, limit>>
  /\ pc'[r] = "write" => Reads(r)
  /\ pc'[r] = "audit" => faults' = faults /\ (Inserts(r) \/ Updates1(r) \/ Deletes(r))
  /\ Deletes(r) /\ faults' = faults => pc'[r] = "audit"
  /\ pc'[r] = "page" => pc[r] = "page"
  /\ faults' \in 0 .. MaxFaults /\ faults' >= faults

Entry(r) == [action |-> Action(op[r]), id |-> target[r], tenant |-> wf[r].tenant,
             user |-> user[r].id, by |-> r]
Logs(r) ==
  \/ audit' = audit /\ (pc[r] = "audit" => faults' # faults)
  \/ /\ pc[r] = "audit" /\ audit' = audit \cup {Entry(r)} /\ pc'[r] \in {"answered", "error"}
     /\ Leaves(r)

Paged(r) ==
  \/ UNCHANGED <<got, cursor>>
  \/ /\ pc[r] = "page"
     /\ \E page \in SUBSET Listed(r) :
          got' = [got EXCEPT ![r] = [i \in Ids |-> IF i \in page THEN @[i] + 1 ELSE @[i]]]
     /\ \E n \in Nat : cursor' = [cursor EXCEPT ![r] = n]

LEMMA InsertLemma ==
  ASSUME RowsOK, CallsOK, NEW r \in Requests, pc[r] = "insert", Inserted(r), overlap' = overlap
  PROVE  Inserts(r)
<1> DEFINE row == [tenant |-> user[r].tenant, createdById |-> user[r].id, value |-> [f \in Fields |-> r]]
<1>1. row \in Row BY DEF Row, CallsOK
<1> QED BY <1>1 DEF Inserted, Inserts

LEMMA StatementLemma ==
  ASSUME TypeInv, NEW r \in Requests, Statement(r)
  PROVE  /\ Moves(r) /\ Logs(r) /\ Paged(r)
         /\ Inserts(r) \/ Updates1(r) \/ Deletes(r) \/ Reads(r) \/ Leaves(r)
         /\ walked' \in [Requests -> SUBSET Ids] /\ cut' \in [Requests -> BOOLEAN]
<1> USE CatalogAssumption DEF TypeInv
<1>0. faults \in Nat /\ pc[r] \in Places /\ pc \in [Requests -> Places]
      /\ walked \in [Requests -> SUBSET Ids] /\ cut \in [Requests -> BOOLEAN]
  BY DEF HistoryOK, CallsOK, WalksOK
<1>1. CASE Create(r)
  <2>1. CASE Inserted(r)
    <3>1. Inserts(r) BY <1>1, <2>1, InsertLemma DEF Create
    <3>2. cut' \in [Requests -> BOOLEAN] BY <1>0, <2>1 DEF Inserted, Upset
    <3>3. Moves(r) BY <1>0, <1>1, <2>1, <3>1 DEF Create, Moves, Goto, Works, Fails, Deletes, Places, HistoryOK
    <3> QED BY <1>0, <1>1, <3>1, <3>2, <3>3 DEF Create, Logs, Paged, Works, Fails
  <2>2. CASE Fails /\ Goto(r, "error") /\ UNCHANGED <<table, wf, target, written, cut>>
    BY <1>0, <1>1, <2>2 DEF Create, Moves, Goto, Fails, Deletes, Places, HistoryOK, Logs, Paged, Leaves, table
  <2> QED BY <1>1, <2>1, <2>2 DEF Create
<1>2. CASE Read(r)
  BY <1>0, <1>2 DEF Read, Moves, Goto, Works, Fails, Deletes, Places, HistoryOK, Logs, Paged, Leaves,
                    Reads, table, walk
<1>3. CASE Update(r)
  <2>1. CASE Updated(r)
    <3>1. Updates1(r) BY <1>3, <2>1 DEF Updates1, Update, Keep
    <3>2. ~Deletes(r) /\ pc[r] = "write" BY <1>3 DEF Update, Deletes
    <3>3. Moves(r)
      BY <1>0, <1>3, <3>1, <3>2 DEF Update, Keep, Moves, Goto, Works, Fails, Places, HistoryOK, walk
    <3> QED BY <1>0, <1>3, <3>1, <3>2, <3>3 DEF Update, Keep, Logs, Paged, walk
  <2>2. CASE Goto(r, "error") /\ UNCHANGED <<rows, written, overlap>>
    BY <1>0, <1>3, <2>2 DEF Update, Keep, Moves, Goto, Works, Fails, Places, HistoryOK, walk, Deletes, Logs,
                            Paged, Leaves
  <2> QED BY <1>3, <2>1, <2>2 DEF Update
<1>4. CASE Delete(r)
  <2>1. CASE Deleted(r)
    <3>1. Deletes(r) BY <1>4, <2>1 DEF Deletes, Delete
    <3>2. walked' \in [Requests -> SUBSET Ids] /\ cut' \in [Requests -> BOOLEAN]
      BY <1>0, <2>1 DEF Deleted, Upset
    <3>3. Moves(r)
      <4>1. CASE Works /\ Goto(r, "audit")
        BY <1>0, <1>4, <3>1, <4>1 DEF Delete, Moves, Goto, Works, Places, HistoryOK
      <4>2. CASE Fails /\ Goto(r, "error")
        BY <1>0, <1>4, <4>2 DEF Delete, Moves, Goto, Fails, Places, HistoryOK
      <4>3. target[r] \in There BY <2>1 DEF Deleted
      <4> QED BY <1>4, <4>1, <4>2, <4>3 DEF Delete
    <3> QED BY <1>0, <1>4, <3>1, <3>2, <3>3 DEF Delete, Logs, Paged
  <2>2. CASE Goto(r, "error") /\ UNCHANGED <<rows, walked, cut>> /\ (Fails \/ target[r] \notin There)
    <3>1. ~Deletes(r) \/ faults' # faults BY <1>0, <2>2 DEF Deletes, Deleted, Fails
    <3> QED BY <1>0, <1>4, <2>2, <3>1 DEF Delete, Moves, Goto, Works, Fails, Places, HistoryOK, Logs, Paged, Leaves
  <2> QED BY <1>4, <2>1, <2>2 DEF Delete
<1>5. CASE RecordAuditLog(r)
  BY <1>0, <1>5 DEF RecordAuditLog, Keep, Moves, Goto, Works, Fails, Places, HistoryOK, Logs, Entry, Paged,
                    Leaves, Deletes, table, walk
<1>6. CASE Page(r)
  <2>1. pc[r] = "page" /\ Leaves(r) /\ audit' = audit /\ UNCHANGED <<op, user, dto, limit, walked, cut>>
    BY <1>6 DEF Page, Leaves, table
  <2>2. Moves(r)
    <3>1. \E place \in {"page", "answered", "error"} : pc' = [pc EXCEPT ![r] = place]
      BY <1>0, <1>6, <2>1 DEF Page, Goto
    <3>2. faults' \in 0 .. MaxFaults /\ faults' >= faults
      <4>1. Works \/ Fails BY <1>6 DEF Page
      <4>2. MaxFaults \in Nat /\ faults \in 0 .. MaxFaults BY DEF HistoryOK
      <4> QED BY <4>1, <4>2 DEF Works, Fails
    <3> QED BY <1>0, <2>1, <3>1, <3>2 DEF Moves, Deletes
  <2>3. Paged(r)
    <3> DEFINE items == First(limit[r] + 1, After(r))
               page  == First(limit[r], items)
    <3>1. page \in SUBSET Listed(r) BY DEF First, After
    <3>2. \A i \in page : i \in Nat BY <3>1, RowLemma DEF Listed, There
    <3>3. cursor[r] \in Nat /\ limit[r] \in Nat /\ cursor \in [Requests -> Nat] BY DEF WalksOK
    <3>4. CASE Fails /\ UNCHANGED <<got, cursor>> BY <3>4 DEF Paged
    <3>5. CASE /\ got' = [got EXCEPT ![r] = [i \in Ids |-> IF i \in page THEN @[i] + 1 ELSE @[i]]]
               /\ \/ \E last \in page : cursor' = [cursor EXCEPT ![r] =
                                           IF op[r] = "cursor walk" THEN last ELSE @ + limit[r]]
                  \/ cursor' = cursor
      <4>1. \E n \in Nat : cursor' = [cursor EXCEPT ![r] = n]
        <5>1. CASE cursor' = cursor BY <3>3, <5>1
        <5>2. ASSUME NEW last \in page, cursor' = [cursor EXCEPT ![r] =
                       IF op[r] = "cursor walk" THEN last ELSE @ + limit[r]]
              PROVE  \E n \in Nat : cursor' = [cursor EXCEPT ![r] = n]
          <6> HIDE DEF page
          <6>0. last \in Nat /\ cursor[r] + limit[r] \in Nat BY <3>2, <3>3
          <6>1. CASE op[r] = "cursor walk" BY <5>2, <6>0, <6>1
          <6>2. CASE op[r] # "cursor walk"
            <7>1. cursor' = [cursor EXCEPT ![r] = cursor[r] + limit[r]] BY <5>2, <6>2
            <7> QED BY <6>0, <7>1
          <6> QED BY <6>1, <6>2
        <5> QED BY <3>5, <5>1, <5>2
      <4> QED BY <2>1, <3>1, <3>5, <4>1 DEF Paged
    <3> QED BY <1>6, <3>4, <3>5 DEF Page
  <2> QED BY <1>0, <2>1, <2>2, <2>3 DEF Logs
<1> QED BY <1>1, <1>2, <1>3, <1>4, <1>5, <1>6 DEF Statement

-----------------------------------------------------------------------------
Others(r) ==
  \A q \in Requests \ {r} :
    /\ op'[q] = op[q] /\ pc'[q] = pc[q] /\ user'[q] = user[q] /\ target'[q] = target[q]
    /\ dto'[q] = dto[q] /\ wf'[q] = wf[q] /\ limit'[q] = limit[q] /\ got'[q] = got[q]

LEMMA OthersLemma ==
  ASSUME TypeInv, NEW r \in Requests, Begin(r) \/ Statement(r)
  PROVE  Others(r)
<1>1. CASE Begin(r)
  <2>1. Begins(r) BY <1>1, BeginLemma DEF TypeInv
  <2> QED BY <2>1 DEF Begins, Others, TypeInv, CallsOK, WalksOK
<1>2. CASE Statement(r)
  <2>1. Moves(r) /\ Paged(r) /\ (Inserts(r) \/ Updates1(r) \/ Deletes(r) \/ Reads(r) \/ Leaves(r))
    BY <1>2, StatementLemma
  <2>2. \A q \in Requests \ {r} : got'[q] = got[q] BY <2>1 DEF Paged, TypeInv, WalksOK
  <2>3. \A q \in Requests \ {r} : wf'[q] = wf[q] /\ target'[q] = target[q]
    BY <2>1 DEF Inserts, Updates1, Deletes, Reads, Leaves, TypeInv, CallsOK
  <2>4. \A q \in Requests \ {r} : pc'[q] = pc[q] BY <2>1 DEF Moves, TypeInv, CallsOK
  <2> QED BY <2>1, <2>2, <2>3, <2>4 DEF Moves, Others
<1> QED BY <1>1, <1>2

LEMMA UpdatedLemma ==
  ASSUME TypeInv, NEW r \in Requests, Updates1(r)
  PROVE  /\ rows' \in [Ids -> Row \cup {NoRow}] /\ rows'[target[r]] \in Row
         /\ rows'[target[r]].tenant = rows[target[r]].tenant
         /\ rows'[target[r]].value = NewValue(r)
         /\ \A i \in Ids \ {target[r]} : rows'[i] = rows[i]
         /\ target[r] \in Ids /\ target[r] \in There /\ There' = There
         /\ written' = [written EXCEPT ![target[r]] = [f \in Fields |-> IF f \in dto[r] THEN r ELSE @[f]]]
<1> USE DEF TypeInv
<1>1. /\ target[r] \in There /\ target[r] \in Ids /\ wf[r] \in Row
      /\ rows' = [rows EXCEPT ![target[r]].value = NewValue(r)]
      /\ written' = [written EXCEPT ![target[r]] = [f \in Fields |-> IF f \in dto[r] THEN r ELSE @[f]]]
  BY DEF Updates1, Updated, There, PathOK
<1>2. rows[target[r]] \in Row BY <1>1 DEF RowsOK, There
<1>3. NewValue(r) \in [Fields -> Requests \cup {NoRow}]
  BY <1>1, RowLemma DEF NewValue
<1>4. [rows[target[r]] EXCEPT !.value = NewValue(r)] \in Row BY <1>2, <1>3 DEF Row
<1>5. rows' = [rows EXCEPT ![target[r]] = [rows[target[r]] EXCEPT !.value = NewValue(r)]]
  BY <1>1 DEF RowsOK
<1>6. rows' \in [Ids -> Row \cup {NoRow}] /\ rows'[target[r]] = [rows[target[r]] EXCEPT !.value = NewValue(r)]
      /\ \A i \in Ids \ {target[r]} : rows'[i] = rows[i]
  BY <1>1, <1>4, <1>5 DEF RowsOK
<1>7. /\ rows'[target[r]].tenant = rows[target[r]].tenant /\ rows'[target[r]].value = NewValue(r)
  BY <1>2, <1>6 DEF Row
<1>8. There' = There BY <1>1, <1>4, <1>6, RowLemma DEF There
<1> QED BY <1>1, <1>4, <1>6, <1>7, <1>8

\* What becomes of the rows.
LEMMA RowsStep ==
  ASSUME TypeInv, NEW r \in Requests, Begin(r) \/ Statement(r)
  PROVE  /\ RowsOK' /\ created' >= created
         /\ \A i \in There' : \/ i \in There /\ rows'[i].tenant = rows[i].tenant
                              \/ i = created + 1 /\ Inserts(r)
<1> USE CatalogAssumption DEF TypeInv
<1>0. MaxRows \in Nat /\ created \in Nat /\ rows \in [Ids -> Row \cup {NoRow}] BY DEF RowsOK
<1>1. CASE UNCHANGED <<rows, created>> BY <1>0, <1>1 DEF RowsOK, There
<1>2. CASE Inserts(r)
  <2>1. PICK row \in Row : rows' = [rows EXCEPT ![created + 1] = row] BY <1>2 DEF Inserts
  <2>2. created + 1 \in Ids /\ created' = created + 1 /\ created' \in 0 .. MaxRows
    BY <1>0, <1>2 DEF Inserts, Ids, RowsOK
  <2>3. rows' \in [Ids -> Row \cup {NoRow}] /\ There' = There \cup {created + 1}
    BY <1>0, <2>1, <2>2, RowLemma DEF There
  <2>4. \A i \in There : i # created + 1 BY <1>0 DEF RowsOK, There, Ids
  <2>5. \A i \in There : rows'[i] = rows[i] BY <1>0, <2>1, <2>2, <2>4 DEF There
  <2>6. \A i \in There' : i <= created' BY <1>0, <2>2, <2>3 DEF RowsOK, There, Ids
  <2> QED BY <1>0, <1>2, <2>2, <2>3, <2>5, <2>6 DEF RowsOK
<1>3. CASE Updates1(r)
  <2>1. created' = created BY <1>3 DEF Updates1
  <2>2. RowsOK' BY <1>0, <1>3, <2>1, UpdatedLemma DEF RowsOK
  <2>3. \A i \in There : i \in Ids BY DEF There
  <2>4. \A i \in There : rows'[i].tenant = rows[i].tenant BY <1>3, <2>3, UpdatedLemma
  <2>5. There' = There BY <1>3, UpdatedLemma
  <2>6. created' >= created BY <1>0, <2>1
  <2> QED BY <2>2, <2>4, <2>5, <2>6
<1>4. CASE Deletes(r)
  <2>1. /\ target[r] \in There /\ rows' = [rows EXCEPT ![target[r]] = NoRow] /\ created' = created
        /\ target[r] \in Ids
    BY <1>4 DEF Deletes, Deleted, There
  <2>2. There' = There \ {target[r]} BY <1>0, <2>1 DEF There
  <2>3. rows' \in [Ids -> Row \cup {NoRow}] /\ \A i \in There' : rows'[i] = rows[i]
    BY <1>0, <2>1, <2>2 DEF There
  <2> QED BY <1>0, <2>1, <2>2, <2>3 DEF RowsOK
<1>5. Begin(r) => UNCHANGED <<rows, created>> BY BeginLemma DEF Begins
<1> QED BY <1>1, <1>2, <1>3, <1>4, <1>5, StatementLemma DEF Reads, Leaves

LEMMA CallsStep ==
  ASSUME TypeInv, NEW r \in Requests, Begin(r) \/ Statement(r)
  PROVE  CallsOK'
<1> USE CatalogAssumption DEF TypeInv, CallsOK
<1>1. CASE Begin(r)
  <2>1. Begins(r) BY <1>1, BeginLemma
  <2>2. user' \in [Requests -> Users] /\ op' \in [Requests -> Operations]
    <3>1. PICK u \in Users : user' = [user EXCEPT ![r] = u] BY <2>1 DEF Begins
    <3>2. PICK o \in Operations : op' = [op EXCEPT ![r] = o] BY <2>1 DEF Begins
    <3> QED BY <3>1, <3>2
  <2>3. target' \in [Requests -> 0 .. MaxRows] /\ dto' \in [Requests -> SUBSET Fields]
    <3>1. PICK i \in 0 .. MaxRows : target' = [target EXCEPT ![r] = i] BY <2>1 DEF Begins
    <3>2. PICK fields \in SUBSET Fields : dto' = [dto EXCEPT ![r] = fields] BY <2>1 DEF Begins
    <3> QED BY <3>1, <3>2
  <2>4. pc' \in [Requests -> Places] /\ wf' = wf BY <2>1 DEF Begins, Places
  <2> QED BY <2>2, <2>3, <2>4
<1>2. CASE Statement(r)
  <2>1. Moves(r) /\ (Inserts(r) \/ Updates1(r) \/ Deletes(r) \/ Reads(r) \/ Leaves(r))
    BY <1>2, StatementLemma
  <2>2. pc' \in [Requests -> Places] /\ UNCHANGED <<op, user, dto>> BY <2>1 DEF Moves, Places
  <2>3. target' \in [Requests -> 0 .. MaxRows] /\ wf' \in [Requests -> Row \cup {NoRow}]
    <3>1. CASE Inserts(r)
      <4>1. created + 1 \in 0 .. MaxRows BY <3>1 DEF Inserts, RowsOK
      <4> QED BY <3>1, <4>1 DEF Inserts
    <3>2. CASE Reads(r)
      <4>1. rows[target[r]] \in Row \cup {NoRow} BY <3>2 DEF Reads, RowsOK, There
      <4> QED BY <3>2, <4>1 DEF Reads
    <3> QED BY <2>1, <3>1, <3>2 DEF Updates1, Deletes, Leaves
  <2> QED BY <2>2, <2>3
<1> QED BY <1>1, <1>2

LEMMA PathsStep ==
  ASSUME TypeInv, NEW r \in Requests, Begin(r) \/ Statement(r), NEW q \in Requests
  PROVE  PathOK(q)'
<1> USE CatalogAssumption DEF TypeInv
<1>1. created' >= created /\ created \in Nat /\ created' \in Nat BY RowsStep DEF RowsOK
<1>2. CASE q # r
  <2>1. PathOK(q) /\ target[q] \in 0 .. MaxRows BY DEF CallsOK
  <2>2. target[q] \in 1 .. created => target[q] \in 1 .. created' BY <1>1
  <2> QED BY <1>2, <2>1, <2>2, OthersLemma DEF Others, PathOK
<1>3. CASE q = r /\ Begin(r)
  <2>1. Begins(r) BY <1>3, BeginLemma
  <2>2. pc'[r] \in {"insert", "read", "page", "forbidden"} /\ created' = created
    BY <2>1 DEF Begins, CallsOK
  <2>3. CASE pc'[r] = "page"
    <3>0. PICK n \in 1 .. MAX_PAGE_SIZE : limit' = [limit EXCEPT ![r] = n]
      BY <2>1, <2>3 DEF Begins
    <3>1. limit'[r] = n /\ n > 0 BY <3>0 DEF WalksOK
    <3>2. op'[r] \in {"cursor walk", "skip walk"} BY <2>1, <2>3 DEF Begins
    <3> QED BY <1>3, <2>3, <3>1, <3>2 DEF PathOK
  <2>4. CASE pc'[r] # "page" BY <1>3, <2>1, <2>2, <2>4 DEF Begins, PathOK
  <2> QED BY <2>3, <2>4
<1>4. CASE q = r /\ Statement(r)
  <2>1. Moves(r) /\ PathOK(r) BY <1>4, StatementLemma
  <2>2. /\ pc'[r] \in {"write", "audit", "page", "answered", "forbidden", "notFound", "error"}
        /\ op'[r] = op[r] /\ limit'[r] = limit[r]
    BY <2>1 DEF Moves, CallsOK
  <2>3. CASE pc'[r] = "write"
    <3>1. Reads(r) BY <2>1, <2>3 DEF Moves
    <3>2. wf'[r] = rows[target[r]] /\ rows[target[r]] \in Row
      BY <3>1 DEF Reads, CallsOK, RowsOK, There
    <3> QED BY <1>1, <1>4, <2>1, <2>2, <2>3, <3>1, <3>2 DEF Reads, PathOK
  <2>4. CASE pc'[r] = "audit"
    <3>1. Inserts(r) \/ Updates1(r) \/ Deletes(r) BY <2>1, <2>4 DEF Moves
    <3>2. CASE Inserts(r)
      <4>1. target'[r] = created + 1 /\ wf'[r] \in Row /\ created' = created + 1
        BY <3>2 DEF Inserts, CallsOK
      <4>2. op'[r] = "create" BY <2>1, <2>2, <3>2 DEF Inserts, PathOK
      <4>3. target'[r] \in 1 .. created' BY <1>1, <4>1
      <4> QED BY <1>4, <2>4, <4>1, <4>2, <4>3 DEF PathOK
    <3>3. CASE Updates1(r) \/ Deletes(r)
      <4>1. target'[r] = target[r] /\ wf'[r] = wf[r] /\ pc[r] = "write" /\ created' = created
        BY <3>3 DEF Updates1, Deletes
      <4> QED BY <1>1, <1>4, <2>1, <2>2, <2>4, <4>1 DEF PathOK
    <3> QED BY <3>1, <3>2, <3>3
  <2>5. CASE pc'[r] = "page" BY <1>4, <2>1, <2>2, <2>5 DEF Moves, PathOK
  <2> QED BY <1>4, <2>2, <2>3, <2>4, <2>5 DEF PathOK
<1> QED BY <1>2, <1>3, <1>4

LEMMA WalksStep ==
  ASSUME TypeInv, NEW r \in Requests, Begin(r) \/ Statement(r)
  PROVE  WalksOK'
<1> USE CatalogAssumption DEF TypeInv
<1>1. CASE Begin(r)
  <2>1. Begins(r) BY <1>1, BeginLemma
  <2>2. limit' \in [Requests -> 0 .. MAX_PAGE_SIZE] /\ walked' \in [Requests -> SUBSET Ids]
    <3>1. CASE UNCHANGED <<limit, walked>> BY <3>1 DEF WalksOK
    <3>2. ASSUME NEW n \in 1 .. MAX_PAGE_SIZE, limit' = [limit EXCEPT ![r] = n],
                 NEW S \in SUBSET Ids, walked' = [walked EXCEPT ![r] = S]
          PROVE  limit' \in [Requests -> 0 .. MAX_PAGE_SIZE] /\ walked' \in [Requests -> SUBSET Ids]
      <4>1. n \in 0 .. MAX_PAGE_SIZE BY CatalogAssumption
      <4> QED BY <3>2, <4>1 DEF WalksOK
    <3> QED BY <2>1, <3>1, <3>2 DEF Begins
  <2> QED BY <2>1, <2>2 DEF Begins, WalksOK
<1>2. CASE Statement(r)
  <2>1. Moves(r) /\ Paged(r) /\ walked' \in [Requests -> SUBSET Ids] /\ cut' \in [Requests -> BOOLEAN]
    BY <1>2, StatementLemma
  <2>2. got' \in [Requests -> [Ids -> Nat]] /\ cursor' \in [Requests -> Nat]
    <3>1. CASE UNCHANGED <<got, cursor>> BY <3>1 DEF WalksOK
    <3>2. ASSUME NEW page, got' = [got EXCEPT ![r] = [i \in Ids |-> IF i \in page THEN @[i] + 1 ELSE @[i]]],
                 \E n \in Nat : cursor' = [cursor EXCEPT ![r] = n]
          PROVE  got' \in [Requests -> [Ids -> Nat]] /\ cursor' \in [Requests -> Nat]
      BY <3>2 DEF WalksOK
    <3> QED BY <2>1, <3>1, <3>2 DEF Paged
  <2> QED BY <2>1, <2>2 DEF Moves, WalksOK
<1> QED BY <1>1, <1>2

LEMMA HistoryStep ==
  ASSUME TypeInv, NEW r \in Requests, Begin(r) \/ Statement(r)
  PROVE  HistoryOK'
<1> USE CatalogAssumption DEF TypeInv
<1>1. faults' \in 0 .. MaxFaults
  BY BeginLemma, StatementLemma DEF Begins, Moves, HistoryOK
<1>2. CASE UNCHANGED <<written, overlap>> BY <1>1, <1>2 DEF HistoryOK
<1>3. CASE Inserts(r)
  <2>1. PICK row \in Row : written' = [written EXCEPT ![created + 1] = row.value] BY <1>3 DEF Inserts
  <2> QED BY <1>1, <1>3, <2>1, RowLemma DEF Inserts, HistoryOK
<1>4. CASE Updates1(r)
  <2>1. overlap' \subseteq Ids
    <3>1. overlap' = IF rows[target[r]] # wf[r] THEN overlap \cup {target[r]} ELSE overlap
      BY <1>4 DEF Updates1, Updated
    <3> QED BY <1>4, <3>1, UpdatedLemma DEF HistoryOK
  <2>2. written' \in [Ids -> [Fields -> Requests \cup {NoRow}]]
    <3> DEFINE new == [f \in Fields |-> IF f \in dto[r] THEN r ELSE written[target[r]][f]]
    <3>1. target[r] \in Ids /\ written \in [Ids -> [Fields -> Requests \cup {NoRow}]]
      BY <1>4, UpdatedLemma DEF HistoryOK
    <3>2. new \in [Fields -> Requests \cup {NoRow}] BY <3>1
    <3>3. written' = [written EXCEPT ![target[r]] = new] BY <1>4, <3>1, UpdatedLemma
    <3> HIDE DEF new
    <3> QED BY <3>1, <3>2, <3>3
  <2> QED BY <1>1, <2>1, <2>2 DEF HistoryOK
<1>5. Begin(r) => UNCHANGED <<written, overlap>> BY BeginLemma DEF Begins
<1> QED BY <1>2, <1>3, <1>4, <1>5, StatementLemma DEF Deletes, Reads, Leaves

LEMMA EntryLemma ==
  ASSUME TypeInv, NEW r \in Requests, pc[r] = "audit"
  PROVE  Entry(r) \in [action : Logged, id : 1 .. created, tenant : {u.tenant : u \in Users},
                       user : {u.id : u \in Users}, by : Requests]
<1>1. op[r] \in {"create", "update", "delete"} /\ wf[r] \in Row /\ target[r] \in 1 .. created /\ user[r] \in Users
  BY DEF TypeInv, PathOK, CallsOK
<1>2. Action(op[r]) \in Logged BY <1>1 DEF Action, Logged
<1>3. wf[r].tenant \in {u.tenant : u \in Users} BY <1>1, RowLemma
<1> QED BY <1>1, <1>2, <1>3 DEF Entry

LEMMA AuditStep ==
  ASSUME TypeInv, NEW r \in Requests, Begin(r) \/ Statement(r)
  PROVE  AuditOK'
<1> USE DEF TypeInv
<1>1. created' >= created /\ created \in Nat /\ created' \in Nat BY RowsStep, CatalogAssumption DEF RowsOK
<1>2. 1 .. created \subseteq 1 .. created' BY <1>1
<1>3. CASE audit' = audit BY <1>2, <1>3 DEF AuditOK
<1>4. CASE pc[r] = "audit" /\ audit' = audit \cup {Entry(r)}
  BY <1>2, <1>4, EntryLemma, FS_AddElement DEF AuditOK
<1> QED BY <1>3, <1>4, BeginLemma, StatementLemma DEF Begins, Logs

LEMMA InitTyped == Init => TypeInv
<1> SUFFICES ASSUME Init PROVE TypeInv OBVIOUS
<1> USE CatalogAssumption
<1>1. PICK n \in 0 .. MaxRows : DOMAIN FirstRows = 1 .. n /\ \A i \in 1 .. n : FirstRows[i] \in Row
  OBVIOUS
<1>2. created = n BY <1>1, FS_Interval DEF Init
<1>3. rows \in [Ids -> Row \cup {NoRow}] /\ There = 1 .. n
  BY <1>1 DEF Init, Ids, There
<1>4. RowsOK BY <1>2, <1>3 DEF RowsOK
<1>5. (CHOOSE u \in Users : TRUE) \in Users OBVIOUS
<1>6. CallsOK BY <1>5 DEF Init, CallsOK, Operations, Places
<1>7. \A r \in Requests : PathOK(r) BY DEF Init, PathOK
<1>8. WalksOK BY DEF Init, WalksOK
<1>9. HistoryOK BY <1>1, RowLemma DEF Init, HistoryOK
<1>10. AuditOK BY FS_EmptySet DEF Init, AuditOK
<1> QED BY <1>4, <1>6, <1>7, <1>8, <1>9, <1>10 DEF TypeInv

LEMMA TypeStep == TypeInv /\ [Next]_vars => TypeInv'
<1> SUFFICES ASSUME TypeInv, [Next]_vars PROVE TypeInv' OBVIOUS
<1>1. ASSUME NEW r \in Requests, Begin(r) \/ Statement(r) PROVE TypeInv'
  BY <1>1, RowsStep, CallsStep, PathsStep, WalksStep, HistoryStep, AuditStep DEF TypeInv
<1>2. CASE UNCHANGED vars
  BY <1>2 DEF vars, table, walk, TypeInv, RowsOK, There, CallsOK, PathOK, WalksOK, HistoryOK, AuditOK
<1> QED BY <1>1, <1>2 DEF Next, Statement

\* Every row, request and log entry is what it can be.
THEOREM TypeCorrect == Spec => []TypeOK
<1>1. TypeInv => TypeOK
  <2> SUFFICES ASSUME TypeInv PROVE TypeOK OBVIOUS
  <2> USE DEF TypeInv
  <2>1. There \subseteq 1 .. created /\ \A i \in There : rows[i] \in Row
    BY CatalogAssumption DEF RowsOK, There, Ids
  <2>2. \A r \in Requests : pc[r] \in {"write", "audit"} => wf[r] \in Row /\ target[r] \in 1 .. created
    BY DEF PathOK
  <2>3. \A r \in Requests : Walking(r) => limit[r] > 0 BY DEF PathOK, Walking
  <2> QED BY <2>1, <2>2, <2>3 DEF TypeOK, RowsOK, CallsOK, WalksOK, HistoryOK, AuditOK, Operations, Places, Logged
<1> QED BY <1>1, InitTyped, TypeStep, PTL DEF Spec

-----------------------------------------------------------------------------
(* Tenants stay apart. *)

\* What a request carries from its read, or its creation, to the log.
CarriesOK ==
  \A r \in Requests : pc[r] \in {"write", "audit"} =>
    /\ wf[r].tenant = user[r].tenant
    /\ op[r] # "create" => user[r].role = "admin" \/ wf[r].createdById = user[r].id
    /\ target[r] \in There => rows[target[r]].tenant = user[r].tenant

LoggedOK ==
  \A entry \in audit :
    /\ pc[entry.by] \in {"answered", "error"} /\ user[entry.by].tenant = entry.tenant
    /\ entry.id \in There => rows[entry.id].tenant = entry.tenant
    /\ entry.action # "workflow.created" =>
         user[entry.by].role = "admin" \/ wf[entry.by].createdById = user[entry.by].id

GivenOK ==
  \A r \in Requests, i \in Ids : got[r][i] > 0 =>
    /\ i <= created /\ pc[r] # "idle"
    /\ i \in There => rows[i].tenant = user[r].tenant

LEMMA StatementPlaces ==
  ASSUME NEW r, Statement(r)
  PROVE  pc[r] \in {"insert", "read", "write", "audit", "page"}
<1>1. CASE Create(r) BY <1>1 DEF Create
<1>2. CASE Read(r) BY <1>2 DEF Read
<1>3. CASE Update(r) BY <1>3 DEF Update
<1>4. CASE Delete(r) BY <1>4 DEF Delete
<1>5. CASE RecordAuditLog(r) BY <1>5 DEF RecordAuditLog
<1>6. CASE Page(r) BY <1>6 DEF Page
<1> QED BY <1>1, <1>2, <1>3, <1>4, <1>5, <1>6 DEF Statement

\* An old number keeps its row's tenant.
LEMMA TenantStays ==
  ASSUME TypeInv, NEW r \in Requests, Begin(r) \/ Statement(r), NEW i, i <= created, i \in There'
  PROVE  i \in There /\ rows'[i].tenant = rows[i].tenant
<1>1. created \in Nat BY CatalogAssumption DEF TypeInv, RowsOK
<1>2. i # created + 1 BY <1>1
<1> QED BY <1>2, RowsStep

LEMMA MayChange ==
  ASSUME NEW u, NEW row, NEW operation \in {"update", "delete"}, CanWith(u, Verb(operation), row)
  PROVE  row.tenant = u.tenant /\ (u.role = "admin" \/ row.createdById = u.id)
BY DEF CanWith, Verdict, Verb

LEMMA CarriesStep ==
  ASSUME TypeInv, CarriesOK, NEW r \in Requests, Begin(r) \/ Statement(r)
  PROVE  CarriesOK'
<1> USE DEF TypeInv
<1> SUFFICES ASSUME NEW q \in Requests, pc'[q] \in {"write", "audit"}
             PROVE  /\ wf'[q].tenant = user'[q].tenant
                    /\ op'[q] # "create" => user'[q].role = "admin" \/ wf'[q].createdById = user'[q].id
                    /\ target'[q] \in There' => rows'[target'[q]].tenant = user'[q].tenant
  BY DEF CarriesOK
<1>0. \A p \in Requests : pc[p] \in {"write", "audit"} => target[p] <= created
  <2>1. created \in Nat BY CatalogAssumption DEF RowsOK
  <2>2. \A p \in Requests : pc[p] \in {"write", "audit"} => target[p] \in 1 .. created BY DEF PathOK
  <2> QED BY <2>1, <2>2
<1>1. CASE q # r
  <2>1. /\ pc'[q] = pc[q] /\ wf'[q] = wf[q] /\ user'[q] = user[q] /\ op'[q] = op[q] /\ target'[q] = target[q]
    BY <1>1, OthersLemma DEF Others
  <2>2. target[q] <= created BY <1>0, <2>1
  <2>3. target[q] \in There' => target[q] \in There /\ rows'[target[q]].tenant = rows[target[q]].tenant
    BY <2>2, TenantStays
  <2> QED BY <2>1, <2>3 DEF CarriesOK
<1>2. CASE q = r /\ Begin(r)
  <2>1. Begins(r) BY <1>2, BeginLemma
  <2> QED BY <1>2, <2>1 DEF Begins, CallsOK
<1>3. CASE q = r /\ Statement(r)
  <2>1. Moves(r) BY <1>3, StatementLemma
  <2>2. op'[r] = op[r] /\ user'[r] = user[r] BY <2>1 DEF Moves
  <2>3. CASE Reads(r) /\ pc'[r] = "write"
    <3>1. /\ wf'[r] = rows[target[r]] /\ target'[r] = target[r] /\ rows' = rows
          /\ rows[target[r]].tenant = user[r].tenant /\ CanWith(user[r], Verb(op[r]), rows[target[r]])
      BY <2>3 DEF Reads, CallsOK
    <3>2. op[r] \in {"update", "delete"} BY <2>3 DEF Reads, PathOK
    <3> QED BY <1>3, <2>2, <3>1, <3>2, MayChange
  <2>4. CASE Inserts(r)
    <3>1. PICK row \in Row : /\ row.tenant = user[r].tenant
                             /\ rows' = [rows EXCEPT ![created + 1] = row] /\ wf' = [wf EXCEPT ![r] = row]
      BY <2>4 DEF Inserts
    <3>2. /\ created + 1 \in Ids /\ target'[r] = created + 1 /\ op[r] = "create"
      <4>1. op[r] = "create" BY <2>4 DEF Inserts, PathOK
      <4>2. created + 1 \in Ids BY <2>4, CatalogAssumption DEF Inserts, Ids, RowsOK
      <4>3. target'[r] = created + 1 BY <2>4 DEF Inserts, CallsOK
      <4> QED BY <4>1, <4>2, <4>3
    <3>3. wf'[r] = row /\ rows'[created + 1] = row BY <3>1, <3>2 DEF CallsOK, RowsOK
    <3> QED BY <1>3, <2>2, <3>1, <3>2, <3>3
  <2>5. CASE Updates1(r) \/ Deletes(r)
    <3>1. wf'[r] = wf[r] /\ target'[r] = target[r] /\ pc[r] = "write" BY <2>5 DEF Updates1, Deletes
    <3>2. target[r] <= created BY <1>0, <3>1
    <3>3. target[r] \in There' => target[r] \in There /\ rows'[target[r]].tenant = rows[target[r]].tenant
      BY <3>2, TenantStays
    <3> QED BY <1>3, <2>2, <3>1, <3>3 DEF CarriesOK
  <2> QED BY <1>3, <2>1, <2>3, <2>4, <2>5 DEF Moves
<1> QED BY <1>1, <1>2, <1>3

LEMMA LoggedStep ==
  ASSUME TypeInv, CarriesOK, LoggedOK, NEW r \in Requests, Begin(r) \/ Statement(r)
  PROVE  LoggedOK'
<1> USE DEF TypeInv
<1>1. ASSUME NEW entry \in audit
      PROVE  /\ pc'[entry.by] \in {"answered", "error"} /\ user'[entry.by].tenant = entry.tenant
             /\ entry.id \in There' => rows'[entry.id].tenant = entry.tenant
             /\ entry.action # "workflow.created" =>
                  user'[entry.by].role = "admin" \/ wf'[entry.by].createdById = user'[entry.by].id
  <2>1. entry.by \in Requests /\ entry.id \in 1 .. created BY DEF AuditOK
  <2>2. entry.by # r BY BeginLemma, StatementPlaces DEF Begins, LoggedOK
  <2>3. /\ pc'[entry.by] = pc[entry.by] /\ user'[entry.by] = user[entry.by] /\ wf'[entry.by] = wf[entry.by]
    BY <2>1, <2>2, OthersLemma DEF Others
  <2>4. entry.id <= created BY <2>1, CatalogAssumption DEF RowsOK
  <2>5. entry.id \in There' => entry.id \in There /\ rows'[entry.id].tenant = rows[entry.id].tenant
    BY <2>4, TenantStays
  <2> QED BY <2>3, <2>5 DEF LoggedOK
<1>2. CASE audit' = audit BY <1>1, <1>2 DEF LoggedOK
<1>3. CASE /\ Statement(r) /\ pc[r] = "audit" /\ audit' = audit \cup {Entry(r)}
           /\ pc'[r] \in {"answered", "error"} /\ Leaves(r)
  <2>1. Moves(r) BY <1>3, StatementLemma
  <2>2. user' = user /\ wf' = wf /\ rows' = rows /\ There' = There
    BY <1>3, <2>1 DEF Moves, Leaves, There
  <2>3. op[r] = "create" => Entry(r).action = "workflow.created" BY DEF Entry, Action
  <2>4. Entry(r).by = r /\ Entry(r).id = target[r] /\ Entry(r).tenant = wf[r].tenant BY DEF Entry
  <2>5. /\ wf[r].tenant = user[r].tenant
        /\ op[r] # "create" => user[r].role = "admin" \/ wf[r].createdById = user[r].id
        /\ target[r] \in There => rows[target[r]].tenant = user[r].tenant
    BY <1>3 DEF CarriesOK
  <2>6. ASSUME NEW entry, entry = Entry(r)
        PROVE  /\ pc'[entry.by] \in {"answered", "error"} /\ user'[entry.by].tenant = entry.tenant
               /\ entry.id \in There' => rows'[entry.id].tenant = entry.tenant
               /\ entry.action # "workflow.created" =>
                    user'[entry.by].role = "admin" \/ wf'[entry.by].createdById = user'[entry.by].id
    BY <1>3, <2>2, <2>3, <2>4, <2>5, <2>6
  <2> QED BY <1>1, <1>3, <2>6 DEF LoggedOK
<1> QED BY <1>2, <1>3, BeginLemma, StatementLemma DEF Begins, Logs

LEMMA GivenStep ==
  ASSUME TypeInv, GivenOK, NEW r \in Requests, Begin(r) \/ Statement(r)
  PROVE  GivenOK'
<1> USE DEF TypeInv
<1>0. created' >= created /\ created \in Nat /\ created' \in Nat BY RowsStep, CatalogAssumption DEF RowsOK
<1>1. ASSUME NEW q \in Requests, NEW i \in Ids, got[q][i] > 0
      PROVE  i <= created' /\ pc'[q] # "idle" /\ (i \in There' => rows'[i].tenant = user'[q].tenant)
  <2>1. i <= created /\ pc[q] # "idle" /\ (i \in There => rows[i].tenant = user[q].tenant)
    BY <1>1 DEF GivenOK
  <2>2. i <= created' BY <1>0, <2>1, RowLemma
  <2>3. i \in There' => i \in There /\ rows'[i].tenant = rows[i].tenant BY <2>1, TenantStays
  <2>4. pc'[q] # "idle" /\ user'[q] = user[q]
    <3>1. CASE q = r
      <4>1. Statement(r) BY <2>1, <3>1, BeginLemma DEF Begins
      <4> QED BY <3>1, <4>1, StatementLemma DEF Moves, CallsOK
    <3>2. CASE q # r BY <2>1, <3>2, OthersLemma DEF Others
    <3> QED BY <3>1, <3>2
  <2> QED BY <2>1, <2>2, <2>3, <2>4
<1>2. CASE got' = got BY <1>1, <1>2 DEF GivenOK
<1>3. ASSUME Statement(r), pc[r] = "page", NEW page \in SUBSET Listed(r),
             got' = [got EXCEPT ![r] = [i \in Ids |-> IF i \in page THEN @[i] + 1 ELSE @[i]]]
      PROVE  GivenOK'
  <2>1. Leaves(r) BY <1>3, StatementLemma DEF Inserts, Updates1, Deletes, Reads
  <2>2. rows' = rows /\ created' = created /\ There' = There BY <2>1 DEF Leaves, There
  <2>3. user'[r] = user[r] /\ pc'[r] # "idle" BY <1>3, StatementLemma DEF Moves, CallsOK
  <2>4. ASSUME NEW q \in Requests, NEW i \in Ids, got'[q][i] > 0
        PROVE  i <= created' /\ pc'[q] # "idle" /\ (i \in There' => rows'[i].tenant = user'[q].tenant)
    <3>1. CASE got[q][i] > 0 BY <1>1, <3>1
    <3>2. CASE ~(got[q][i] > 0)
      <4>1. q = r /\ i \in page BY <1>3, <2>4, <3>2 DEF WalksOK
      <4>2. i \in There /\ rows[i].tenant = user[r].tenant BY <4>1 DEF Listed
      <4>3. i <= created BY <4>2 DEF RowsOK
      <4> QED BY <2>2, <2>3, <4>1, <4>2, <4>3
    <3> QED BY <3>1, <3>2
  <2> QED BY <2>4 DEF GivenOK
<1> QED BY <1>2, <1>3, BeginLemma, StatementLemma DEF Begins, Paged

-----------------------------------------------------------------------------
(* Updates. *)

LEMMA WrittenStep ==
  ASSUME TypeInv, OnlyOverlapLosesUpdates, NEW r \in Requests, Begin(r) \/ Statement(r)
  PROVE  OnlyOverlapLosesUpdates'
<1> USE DEF TypeInv
<1>1. CASE UNCHANGED <<rows, written, overlap>> BY <1>1 DEF OnlyOverlapLosesUpdates, There
<1>2. CASE Inserts(r)
  <2>1. PICK row \in Row : /\ rows' = [rows EXCEPT ![created + 1] = row]
                           /\ written' = [written EXCEPT ![created + 1] = row.value]
    BY <1>2 DEF Inserts
  <2>2. created + 1 \in Ids /\ overlap' = overlap
    BY <1>2, CatalogAssumption DEF Inserts, Ids, RowsOK
  <2>3. rows'[created + 1] = row /\ written'[created + 1] = row.value
    BY <2>1, <2>2 DEF RowsOK, HistoryOK
  <2>4. \A i \in Ids \ {created + 1} : rows'[i] = rows[i] /\ written'[i] = written[i]
    BY <2>1 DEF RowsOK, HistoryOK
  <2> QED BY <2>2, <2>3, <2>4 DEF OnlyOverlapLosesUpdates, There
<1>3. CASE Updates1(r)
  <2> DEFINE i == target[r]
  <2>1. overlap' = IF rows[i] # wf[r] THEN overlap \cup {i} ELSE overlap
    BY <1>3 DEF Updates1, Updated
  <2>2. i \in Ids /\ i \in There /\ There' = There /\ rows'[i].value = NewValue(r)
    BY <1>3, UpdatedLemma
  <2>3. \A j \in Ids \ {i} : rows'[j] = rows[j] /\ written'[j] = written[j]
    BY <1>3, UpdatedLemma DEF HistoryOK
  <2>4. written'[i] = [f \in Fields |-> IF f \in dto[r] THEN r ELSE written[i][f]]
    BY <1>3, <2>2, UpdatedLemma DEF HistoryOK
  <2>5. ASSUME i \notin overlap' PROVE rows'[i].value = written'[i]
    <3>1. rows[i] = wf[r] /\ i \notin overlap BY <2>1, <2>5
    <3>2. rows[i].value = written[i] BY <2>2, <3>1 DEF OnlyOverlapLosesUpdates
    <3> QED BY <2>2, <2>4, <3>1, <3>2 DEF NewValue
  <2>6. ASSUME NEW j \in There', j \notin overlap' PROVE rows'[j].value = written'[j]
    <3>1. j \in There /\ j \in Ids /\ j \notin overlap BY <2>1, <2>2, <2>6 DEF There
    <3>2. CASE j = i BY <2>5, <2>6, <3>2
    <3>3. CASE j # i BY <2>3, <3>1, <3>3 DEF OnlyOverlapLosesUpdates
    <3> QED BY <3>2, <3>3
  <2> QED BY <2>6 DEF OnlyOverlapLosesUpdates
<1>4. CASE Deletes(r)
  <2>1. rows' = [rows EXCEPT ![target[r]] = NoRow] /\ UNCHANGED <<written, overlap>>
    BY <1>4 DEF Deletes, Deleted
  <2> QED BY <2>1 DEF OnlyOverlapLosesUpdates, There, RowsOK
<1>5. Begin(r) => UNCHANGED <<rows, written, overlap>> BY BeginLemma DEF Begins
<1> QED BY <1>1, <1>2, <1>3, <1>4, <1>5, StatementLemma DEF Reads, Leaves

-----------------------------------------------------------------------------
(* Deletions. *)

Deleters(i) == {r \in Requests : op[r] = "delete" /\ target[r] = i /\ pc[r] = "audit"}
Deletions(i) == {entry \in audit : entry.action = "workflow.deleted" /\ entry.id = i}
ToldOf(i) == Cardinality(Deleters(i)) + Cardinality(Deletions(i))

\* One request is told of a deletion, and none of a workflow that is there.
OnceOK == faults = 0 => \A i \in 1 .. created : ToldOf(i) = IF i \in There THEN 0 ELSE 1

LEMMA TellsFinite ==
  ASSUME TypeInv, NEW i
  PROVE  /\ IsFiniteSet(Deleters(i)) /\ IsFiniteSet(Deletions(i))
         /\ Cardinality(Deleters(i)) \in Nat /\ Cardinality(Deletions(i)) \in Nat
<1>1. Deleters(i) \subseteq Requests /\ Deletions(i) \subseteq audit BY DEF Deleters, Deletions
<1>2. IsFiniteSet(Requests) /\ IsFiniteSet(audit) BY CatalogAssumption DEF TypeInv, AuditOK
<1> QED BY <1>1, <1>2, FS_Subset, FS_CardinalityType

\* Who is told only changes as a deletion succeeds, or is logged.
LEMMA DeletersStep ==
  ASSUME TypeInv, NEW r \in Requests, Begin(r) \/ Statement(r), NEW i
  PROVE  /\ Deleters(i)' \ {r} = Deleters(i) \ {r}
         /\ Deletes(r) \/ r \notin Deleters(i)'
         /\ pc[r] # "audit" => r \notin Deleters(i)
<1> USE DEF TypeInv
<1>1. \A q \in Requests \ {r} : op'[q] = op[q] /\ target'[q] = target[q] /\ pc'[q] = pc[q]
  BY OthersLemma DEF Others
<1>2. Deletes(r) \/ r \notin Deleters(i)'
  <2>1. CASE Begin(r) BY <2>1, BeginLemma DEF Begins, Deleters, CallsOK
  <2>2. CASE Statement(r) /\ pc'[r] = "audit" /\ ~Deletes(r)
    <3>1. Inserts(r) \/ Updates1(r) BY <2>2, StatementLemma DEF Moves
    <3>2. op[r] # "delete" BY <3>1 DEF Inserts, Updates1, PathOK
    <3>3. op'[r] = op[r] BY <2>2, StatementLemma DEF Moves
    <3> QED BY <3>2, <3>3 DEF Deleters
  <2> QED BY <2>1, <2>2 DEF Deleters
<1> QED BY <1>1, <1>2 DEF Deleters

LEMMA OnceStep ==
  ASSUME TypeInv, OnceOK, NEW r \in Requests, Begin(r) \/ Statement(r)
  PROVE  OnceOK'
<1> USE DEF TypeInv
<1> SUFFICES ASSUME faults' = 0, NEW i \in 1 .. created'
             PROVE  ToldOf(i)' = IF i \in There' THEN 0 ELSE 1
  BY DEF OnceOK
<1>1. faults = 0 /\ created \in Nat
  <2>1. faults \in Nat /\ created \in Nat BY CatalogAssumption DEF HistoryOK, RowsOK
  <2>2. faults' = faults \/ faults' >= faults BY BeginLemma, StatementLemma DEF Begins, Moves
  <2> QED BY <2>1, <2>2
<1>2. Cardinality({}) = 0 BY FS_EmptySet
<1>3. CASE Inserts(r) /\ i = created + 1
  <2>1. i \in There'
    <3>1. i \in Ids BY <1>1, <1>3, CatalogAssumption DEF Inserts, Ids
    <3>2. PICK row \in Row : rows' = [rows EXCEPT ![i] = row] BY <1>3 DEF Inserts
    <3>3. rows'[i] = row /\ row # NoRow BY <3>1, <3>2, RowLemma DEF RowsOK
    <3> QED BY <3>1, <3>3 DEF There
  <2>2. ASSUME NEW q \in Requests, pc[q] = "audit" PROVE target[q] # i
    <3>1. target[q] \in 1 .. created BY <2>2 DEF PathOK
    <3> QED BY <1>1, <1>3, <3>1
  <2>3. Deleters(i) = {} BY <2>2 DEF Deleters
  <2>4. ~Deletes(r) /\ pc[r] = "insert" BY <1>3 DEF Inserts, Deletes
  <2>5. Deleters(i)' = {} BY <2>3, <2>4, DeletersStep
  <2>6. audit' = audit BY <2>4, BeginLemma, StatementLemma DEF Begins, Logs
  <2>7. Deletions(i)' = {} BY <1>1, <1>3, <2>6 DEF Deletions, AuditOK
  <2> QED BY <1>2, <2>1, <2>5, <2>7 DEF ToldOf
<1>4. CASE ~(Inserts(r) /\ i = created + 1)
  <2>1. i \in 1 .. created
    <3>1. CASE Inserts(r)
      <4>1. created' = created + 1 BY <3>1 DEF Inserts
      <4> QED BY <1>1, <1>4, <3>1, <4>1
    <3>2. CASE ~Inserts(r)
      <4>1. created' = created
        BY <3>2, BeginLemma, StatementLemma DEF Begins, Updates1, Deletes, Reads, Leaves
      <4> QED BY <4>1
    <3> QED BY <3>1, <3>2
  <2>2. ToldOf(i) = IF i \in There THEN 0 ELSE 1 BY <1>1, <2>1 DEF OnceOK
  <2>3. /\ IsFiniteSet(Deleters(i)) /\ IsFiniteSet(Deletions(i))
        /\ Cardinality(Deleters(i)) \in Nat /\ Cardinality(Deletions(i)) \in Nat
    BY TellsFinite
  <2>4. CASE Deletes(r) /\ target[r] = i
    <3>1. i \in There /\ i \notin There' BY <2>4 DEF Deletes, Deleted, There, RowsOK
    <3>2. Deleters(i) = {} /\ Deletions(i) = {}
      BY <2>2, <2>3, <3>1, FS_EmptySet DEF ToldOf
    <3>3. Statement(r) /\ pc[r] = "write" BY <2>4, BeginLemma DEF Begins, Deletes
    <3>4. pc'[r] = "audit" /\ op'[r] = "delete" /\ target'[r] = i /\ audit' = audit
      BY <1>1, <2>4, <3>3, StatementLemma DEF Moves, Deletes, Logs
    <3>5. Deleters(i)' = {r} BY <3>2, <3>4, DeletersStep DEF Deleters
    <3>6. Deletions(i)' = {} BY <3>2, <3>4 DEF Deletions
    <3>7. Cardinality({r}) = 1 BY FS_Singleton
    <3> QED BY <1>2, <3>1, <3>5, <3>6, <3>7 DEF ToldOf
  <2>5. CASE ~(Deletes(r) /\ target[r] = i)
    <3>1. i \in There' <=> i \in There
      <4>1. CASE Inserts(r)
        <5>1. i # created + 1 BY <1>1, <2>1
        <5>2. rows'[i] = rows[i] BY <4>1, <5>1 DEF Inserts, RowsOK, There
        <5> QED BY <5>2 DEF There
      <4>2. CASE Deletes(r)
        <5>1. rows'[i] = rows[i] BY <2>5, <4>2 DEF Deletes, Deleted, RowsOK
        <5> QED BY <5>1 DEF There
      <4>3. CASE Updates1(r) BY <4>3, UpdatedLemma
      <4>4. CASE rows' = rows BY <4>4 DEF There
      <4> QED BY <4>1, <4>2, <4>3, <4>4, BeginLemma, StatementLemma DEF Begins, Reads, Leaves
    <3>2. r \notin Deleters(i)'
      BY <2>5, DeletersStep DEF Deletes, Deleters
    <3>3. CASE r \in Deleters(i)
      <4>1. op[r] = "delete" /\ target[r] = i /\ pc[r] = "audit" BY <3>3 DEF Deleters
      <4>2. Statement(r) BY <4>1, BeginLemma DEF Begins
      <4>3. audit' = audit \cup {Entry(r)} BY <1>1, <4>1, <4>2, StatementLemma DEF Logs
      <4>4. Entry(r).action = "workflow.deleted" /\ Entry(r).id = i BY <4>1 DEF Entry, Action
      <4>5. Deletions(i)' = Deletions(i) \cup {Entry(r)} BY <4>3, <4>4 DEF Deletions
      <4>6. Cardinality(Deleters(i)) # 0 BY <2>3, <3>3, FS_EmptySet
      <4>7. i \notin There /\ Cardinality(Deleters(i)) = 1 /\ Cardinality(Deletions(i)) = 0
        BY <2>2, <2>3, <4>6 DEF ToldOf
      <4>8. Deletions(i) = {} BY <2>3, <4>7, FS_EmptySet
      <4>9. Deleters(i)' = Deleters(i) \ {r} BY <3>2, DeletersStep
      <4>10. Cardinality(Deleters(i) \ {r}) = Cardinality(Deleters(i)) - 1
        BY <2>3, <3>3, FS_RemoveElement
      <4>11. Cardinality({Entry(r)}) = 1 BY FS_Singleton
      <4>12. Cardinality(Deletions(i)') = 1 BY <4>5, <4>8, <4>11
      <4>13. Cardinality(Deleters(i)') = 0 BY <4>7, <4>9, <4>10
      <4> QED BY <3>1, <4>7, <4>12, <4>13 DEF ToldOf
    <3>4. CASE r \notin Deleters(i)
      <4>1. Deleters(i)' = Deleters(i) BY <3>2, <3>4, DeletersStep
      <4>2. Deletions(i)' = Deletions(i)
        <5>1. CASE audit' = audit BY <5>1 DEF Deletions
        <5>2. CASE pc[r] = "audit" /\ audit' = audit \cup {Entry(r)}
          <6>1. op[r] # "delete" \/ target[r] # i BY <3>4, <5>2 DEF Deleters
          <6>2. op[r] \in {"create", "update", "delete"} BY <5>2 DEF PathOK
          <6>3. Entry(r).action = "workflow.deleted" => op[r] = "delete" BY <6>2 DEF Entry, Action
          <6>4. Entry(r).id = target[r] BY DEF Entry
          <6>5. ~(Entry(r).action = "workflow.deleted" /\ Entry(r).id = i) BY <6>1, <6>3, <6>4
          <6> QED BY <5>2, <6>5 DEF Deletions
        <5> QED BY <5>1, <5>2, BeginLemma, StatementLemma DEF Begins, Logs
      <4> QED BY <2>2, <3>1, <4>1, <4>2 DEF ToldOf
    <3> QED BY <3>3, <3>4
  <2> QED BY <2>4, <2>5
<1> QED BY <1>3, <1>4

-----------------------------------------------------------------------------
(* Sets of numbers, and what comes first in a list of them. *)

\* Among subsets of a finite set one has no smaller one beside it.
LEMMA SmallestSet ==
  ASSUME NEW S, IsFiniteSet(S), NEW F, \A T \in F : T \subseteq S, F # {}
  PROVE  \E T \in F : \A U \in F : U \subseteq T => U = T
<1> DEFINE R == StrictSubsetOrdering(S)
<1>1. IsWellFoundedOn(R, SUBSET S) BY FS_StrictSubsetOrderingWellFounded, FS_FiniteSubsetsOfFinite
<1>2. \A T, U \in SUBSET S : U \subseteq T /\ U # T => <<U, T>> \in R BY DEF StrictSubsetOrdering
<1> HIDE DEF R
<1>3. F \subseteq SUBSET S OBVIOUS
<1>4. PICK T \in F : \A U \in F : ~(<<U, T>> \in R) BY <1>1, <1>3, WFMin
<1> QED BY <1>2, <1>4

\* A finite set of numbers has a least and a greatest.
LEMMA LeastLemma ==
  ASSUME NEW S, S \subseteq Int, IsFiniteSet(S), S # {}
  PROVE  \E m \in S : \A k \in S : m <= k
<1> DEFINE Below(m) == {k \in S : k < m}
<1>1. PICK m \in S : \A n \in S : Below(n) \subseteq Below(m) => Below(n) = Below(m)
  <2>1. PICK F : F = {Below(m) : m \in S} OBVIOUS
  <2>2. (\A T \in F : T \subseteq S) /\ F # {} BY <2>1
  <2>3. PICK T \in F : \A U \in F : U \subseteq T => U = T BY <2>2, SmallestSet
  <2> HIDE DEF Below
  <2> QED BY <2>1, <2>3
<1>2. ASSUME NEW k \in S, k < m PROVE FALSE
  <2>1. k \in Int /\ m \in Int OBVIOUS
  <2>2. ASSUME NEW j \in Below(k) PROVE j \in Below(m)
    <3>1. j \in S /\ j \in Int /\ j < k OBVIOUS
    <3> QED BY <1>2, <2>1, <3>1
  <2>3. k \in Below(m) /\ k \notin Below(k) BY <1>2, <2>1
  <2> QED BY <1>1, <2>2, <2>3
<1> QED BY <1>2

LEMMA GreatestLemma ==
  ASSUME NEW S, S \subseteq Int, IsFiniteSet(S), S # {}
  PROVE  \E m \in S : \A k \in S : k <= m
<1> DEFINE Above(m) == {k \in S : k > m}
<1>1. PICK m \in S : \A n \in S : Above(n) \subseteq Above(m) => Above(n) = Above(m)
  <2>1. PICK F : F = {Above(m) : m \in S} OBVIOUS
  <2>2. (\A T \in F : T \subseteq S) /\ F # {} BY <2>1
  <2>3. PICK T \in F : \A U \in F : U \subseteq T => U = T BY <2>2, SmallestSet
  <2> HIDE DEF Above
  <2> QED BY <2>1, <2>3
<1>2. ASSUME NEW k \in S, k > m PROVE FALSE
  <2>1. k \in Int /\ m \in Int OBVIOUS
  <2>2. ASSUME NEW j \in Above(k) PROVE j \in Above(m)
    <3>1. j \in S /\ j \in Int /\ j > k OBVIOUS
    <3> QED BY <1>2, <2>1, <3>1
  <2>3. k \in Above(m) /\ k \notin Above(k) BY <1>2, <2>1
  <2> QED BY <1>1, <2>2, <2>3
<1> QED BY <1>2

\* The items of a list before i: it runs from high numbers to low ones.
Above(i, S) == {j \in S : j > i}

LEMMA AboveFinite ==
  ASSUME NEW S, S \subseteq Int, IsFiniteSet(S), NEW i
  PROVE  IsFiniteSet(Above(i, S)) /\ Cardinality(Above(i, S)) \in Nat
<1>1. Above(i, S) \subseteq S BY DEF Above
<1> QED BY <1>1, FS_Subset, FS_CardinalityType

LEMMA FirstAbove ==
  ASSUME NEW S, NEW n, NEW i
  PROVE  i \in First(n, S) <=> i \in S /\ Cardinality(Above(i, S)) < n
BY DEF First, Above

\* What comes before an item of a page is on the page.
LEMMA FirstUp ==
  ASSUME NEW S, S \subseteq Int, IsFiniteSet(S), NEW n \in Nat,
         NEW i \in First(n, S), NEW k \in S, k >= i
  PROVE  k \in First(n, S)
<1>1. i \in S /\ Cardinality(Above(i, S)) < n BY FirstAbove
<1>2. Above(k, S) \subseteq Above(i, S)
  <2>1. ASSUME NEW j \in S, j > k PROVE j > i
    <3>1. i \in Int /\ j \in Int /\ k \in Int BY <1>1
    <3> QED BY <2>1, <3>1
  <2> QED BY <2>1 DEF Above
<1>3. /\ IsFiniteSet(Above(i, S)) /\ Cardinality(Above(i, S)) \in Nat
      /\ Cardinality(Above(k, S)) \in Nat
  BY AboveFinite
<1>4. Cardinality(Above(k, S)) <= Cardinality(Above(i, S)) BY <1>2, <1>3, FS_Subset
<1>5. Cardinality(Above(k, S)) < n BY <1>1, <1>3, <1>4
<1> QED BY <1>5, FirstAbove

\* findMany asks for one item more, and the page is cut from those: it is the first items.
LEMMA FirstFirst ==
  ASSUME NEW S, S \subseteq Int, IsFiniteSet(S), NEW n \in Nat
  PROVE  First(n, First(n + 1, S)) = First(n, S)
<1> DEFINE T == First(n + 1, S)
<1>0. T \subseteq S BY DEF First
<1>1. ASSUME NEW i \in T PROVE Above(i, T) = Above(i, S)
  <2>1. ASSUME NEW j \in S, j > i PROVE j \in T
    <3>1. i \in Int /\ j \in Int BY <1>0
    <3>2. j >= i /\ n + 1 \in Nat BY <2>1, <3>1
    <3> QED BY <3>2, FirstUp
  <2> HIDE DEF T
  <2> QED BY <1>0, <2>1 DEF Above
<1>2. First(n, S) \subseteq T
  <2>1. ASSUME NEW i \in First(n, S) PROVE i \in T
    <3>1. i \in S /\ Cardinality(Above(i, S)) < n BY FirstAbove
    <3>2. Cardinality(Above(i, S)) \in Nat BY AboveFinite
    <3>3. Cardinality(Above(i, S)) < n + 1 BY <3>1, <3>2
    <3> QED BY <3>1, <3>3, FirstAbove
  <2> QED BY <2>1
<1>3. ASSUME NEW i PROVE i \in First(n, T) <=> i \in First(n, S)
  <2> HIDE DEF T
  <2> QED BY <1>0, <1>1, <1>2, FirstAbove
<1> HIDE DEF T
<1>4. First(n, T) = First(n, S) BY <1>3
<1> QED BY <1>4 DEF T

\* The items after a page come after one of them, and the page is full.
LEMMA FirstEdge ==
  ASSUME NEW S, S \subseteq Int, IsFiniteSet(S), NEW n \in Nat, First(n, S) # S
  PROVE  \E x \in S \ First(n, S) : First(n, S) = Above(x, S) /\ Cardinality(First(n, S)) = n
<1> DEFINE P == First(n, S)
<1>0. P \subseteq S BY DEF First
<1>1. \E x \in S \ P : \A k \in S \ P : k <= x
  <2> HIDE DEF P
  <2>1. S \ P # {} BY <1>0 DEF P
  <2>2. IsFiniteSet(S \ P) BY FS_Subset
  <2>3. S \ P \subseteq Int OBVIOUS
  <2> QED BY <2>1, <2>2, <2>3, GreatestLemma
<1>2. PICK x \in S \ P : \A k \in S \ P : k <= x BY <1>1
<1>3. P = Above(x, S)
  <2>1. ASSUME NEW j \in P PROVE j > x
    <3>1. j \in Int /\ x \in Int BY <1>0
    <3>2. ~(x >= j) BY <1>2, FirstUp
    <3> QED BY <3>1, <3>2
  <2>2. ASSUME NEW j \in S, j > x PROVE j \in P
    <3> HIDE DEF P
    <3> QED BY <1>2, <2>2
  <2> HIDE DEF P
  <2> QED BY <1>0, <2>1, <2>2 DEF Above
<1>4. IsFiniteSet(P) /\ Cardinality(P) \in Nat BY <1>3, AboveFinite
<1>5. Cardinality(P) >= n
  <2>1. ~(Cardinality(Above(x, S)) < n) BY <1>2, FirstAbove
  <2> QED BY <1>3, <1>4, <2>1
<1>6. Cardinality(P) <= n
  <2>1. CASE P = {} BY <2>1, FS_EmptySet
  <2>2. CASE P # {}
    <3>1. \E y \in P : \A k \in P : y <= k
      <4>1. P \subseteq Int BY <1>0
      <4> HIDE DEF P
      <4> QED BY <1>4, <2>2, <4>1, LeastLemma
    <3>2. PICK y \in P : \A k \in P : y <= k BY <3>1
    <3>3. Above(y, S) = P \ {y}
      <4>1. y > x /\ y \in Int /\ x \in Int BY <1>3 DEF Above
      <4>2. ASSUME NEW j \in S, j > y PROVE j \in P
        <5>1. j \in Int BY <4>2
        <5>2. j > x BY <4>1, <4>2, <5>1
        <5> HIDE DEF P
        <5> QED BY <1>3, <4>2, <5>2 DEF Above
      <4>3. ASSUME NEW j \in P, j # y PROVE j > y
        <5>1. j \in Int /\ y <= j BY <1>0, <3>2
        <5> QED BY <4>1, <4>3, <5>1
      <4>4. ~(y > y) BY <4>1
      <4> HIDE DEF P
      <4> QED BY <1>0, <4>2, <4>3, <4>4 DEF Above
    <3>4. Cardinality(Above(y, S)) < n BY FirstAbove
    <3>5. Cardinality(P \ {y}) = Cardinality(P) - 1 BY <1>4, FS_RemoveElement
    <3> QED BY <1>4, <3>3, <3>4, <3>5
  <2> QED BY <2>1, <2>2
<1>7. Cardinality(P) = n BY <1>4, <1>5, <1>6
<1> QED BY <1>2, <1>3, <1>7

\* A page without an item beyond it is the last.
LEMMA FirstAll ==
  ASSUME NEW S, S \subseteq Int, IsFiniteSet(S), NEW n \in Nat, First(n + 1, S) = First(n, S)
  PROVE  First(n, S) = S
<1> SUFFICES ASSUME First(n, S) # S PROVE FALSE OBVIOUS
<1>1. PICK x \in S \ First(n, S) : First(n, S) = Above(x, S) /\ Cardinality(First(n, S)) = n
  BY FirstEdge
<1>2. Cardinality(Above(x, S)) < n + 1 BY <1>1
<1> QED BY <1>1, <1>2, FirstAbove

\* After a page comes the next.
LEMMA FirstSkip ==
  ASSUME NEW S, S \subseteq Int, IsFiniteSet(S), NEW m \in Nat, NEW n \in Nat
  PROVE  First(m + n, S) = First(m, S) \cup First(n, S \ First(m, S))
<1> DEFINE P == First(m, S)
           A == S \ P
<1>0. P \subseteq S BY DEF First
<1>1. ASSUME NEW i \in P PROVE i \in First(m + n, S)
  <2>1. i \in S /\ Cardinality(Above(i, S)) < m BY FirstAbove
  <2>2. Cardinality(Above(i, S)) \in Nat BY AboveFinite
  <2>3. Cardinality(Above(i, S)) < m + n BY <2>1, <2>2
  <2> QED BY <2>1, <2>3, FirstAbove
<1>2. ASSUME NEW i \in A PROVE i \in First(m + n, S) <=> i \in First(n, A)
  <2>1. P # S BY <1>2
  <2>2. PICK x \in S \ P : P = Above(x, S) /\ Cardinality(P) = m BY <2>1, FirstEdge
  <2>3. \A j \in P : j > i
    <3>1. i \in Int /\ x \in Int /\ ~(i > x) BY <2>2 DEF Above
    <3>2. ASSUME NEW j \in P PROVE j > x /\ j \in Int BY <2>2, <1>0 DEF Above
    <3> HIDE DEF P
    <3> QED BY <3>1, <3>2
  <2> HIDE DEF P
  <2>4. Above(i, S) = P \cup Above(i, A) /\ P \cap Above(i, A) = {} BY <1>0, <2>3 DEF Above
  <2>5. IsFiniteSet(P) /\ IsFiniteSet(A) /\ A \subseteq Int BY <1>0, FS_Subset
  <2>6. IsFiniteSet(Above(i, A)) /\ Cardinality(Above(i, A)) \in Nat
    <3> HIDE DEF A
    <3> QED BY <2>5, AboveFinite
  <2>7. Cardinality(Above(i, S)) = m + Cardinality(Above(i, A))
    <3>1. Cardinality(P \cup Above(i, A))
            = Cardinality(P) + Cardinality(Above(i, A)) - Cardinality(P \cap Above(i, A))
      BY <2>5, <2>6, FS_Union
    <3>2. Cardinality(P \cap Above(i, A)) = 0 BY <2>4, FS_EmptySet
    <3>3. Cardinality(P) = m BY <2>2
    <3>4. Cardinality(P \cup Above(i, A)) = m + Cardinality(Above(i, A)) BY <2>6, <3>1, <3>2, <3>3
    <3> QED BY <2>4, <3>4
  <2>8. Cardinality(Above(i, S)) < m + n <=> Cardinality(Above(i, A)) < n BY <2>6, <2>7
  <2> QED BY <1>2, <2>8, FirstAbove
<1>3. First(n, A) \subseteq A /\ First(m + n, S) \subseteq S BY DEF First
<1> HIDE DEF P
<1>4. First(m + n, S) = P \cup First(n, A) BY <1>0, <1>1, <1>2, <1>3
<1> QED BY <1>4 DEF P

-----------------------------------------------------------------------------
(* Walks. *)

Walks == {"cursor walk", "skip walk"}

\* A walk by cursor has given what it gave at or before its cursor, once, and there all
\* that has been there since it began, as long as the workflow at its cursor is there.
CoveredByCursor(r) ==
  /\ \A i \in Ids : got[r][i] > 0 => cursor[r] > 0 /\ i >= cursor[r]
  /\ ~cut[r] => /\ cursor[r] = 0 \/ cursor[r] \in There
                /\ \A i \in walked[r] : cursor[r] > 0 /\ i >= cursor[r] => got[r][i] = 1

\* A walk by skip has given as many as it skips, if the tenant's workflows are those it
\* began with.
CoveredBySkip(r) ==
  ~cut[r] => /\ walked[r] = Listed(r)
             /\ \A i \in Ids : got[r][i] = IF i \in First(cursor[r], Listed(r)) THEN 1 ELSE 0

WalkOK(r) ==
  /\ pc[r] = "idle" => cursor[r] = 0 /\ ~cut[r] /\ \A i \in Ids : got[r][i] = 0
  /\ op[r] = "cursor walk" => \A i \in Ids : got[r][i] <= 1
  /\ Walking(r) => /\ walked[r] \subseteq Listed(r)
                   /\ op[r] = "cursor walk" => CoveredByCursor(r)
                   /\ op[r] = "skip walk" => CoveredBySkip(r)
  /\ pc[r] = "answered" /\ op[r] \in Walks /\ ~cut[r] => \A i \in walked[r] : got[r][i] = 1
WalksFollow == \A r \in Requests : WalkOK(r)

LEMMA ListedFinite ==
  ASSUME NEW r
  PROVE  Listed(r) \subseteq Ids /\ Listed(r) \subseteq Int /\ IsFiniteSet(Listed(r))
<1>1. Listed(r) \subseteq Ids BY DEF Listed, There
<1>2. Ids \subseteq Int /\ IsFiniteSet(Ids) BY CatalogAssumption, FS_Interval DEF Ids
<1> QED BY <1>1, <1>2, FS_Subset

\* What a statement does to the walks, and to the lists they walk through.
Disturbs(r) ==
  /\ pc[r] = "page" \/ UNCHANGED <<got, cursor>>
  /\ \A q \in Requests \ {r} : cursor'[q] = cursor[q]
  /\ \/ UNCHANGED <<walked, cut>> /\ (Updates1(r) \/ Reads(r) \/ Leaves(r))
     \/ /\ Inserts(r) /\ walked' = walked
        /\ cut' = [q \in Requests |-> cut[q] \/ q \in Upset(created + 1, user[r].tenant)]
     \/ Deletes(r)

LEMMA DisturbsLemma ==
  ASSUME TypeInv, NEW r \in Requests, Statement(r)
  PROVE  Disturbs(r)
<1> USE DEF TypeInv
<1>1. pc[r] = "page" \/ UNCHANGED <<got, cursor>> BY StatementLemma DEF Paged
<1>2. \A q \in Requests \ {r} : cursor'[q] = cursor[q] BY StatementLemma DEF Paged, WalksOK
<1>3. CASE Create(r)
  <2>1. CASE Inserted(r)
    <3>1. Inserts(r) BY <1>3, <2>1, InsertLemma DEF Create
    <3>2. walked' = walked BY <1>3 DEF Create
    <3> QED BY <1>1, <1>2, <2>1, <3>1, <3>2 DEF Inserted, Disturbs
  <2>2. CASE UNCHANGED <<table, wf, target, written, cut>>
    BY <1>1, <1>2, <1>3, <2>2 DEF Create, Disturbs, Leaves, table
  <2> QED BY <1>3, <2>1, <2>2 DEF Create
<1>4. CASE Read(r)
  <2>1. UNCHANGED <<walked, cut>> BY <1>4 DEF Read, walk
  <2>2. ~Inserts(r) /\ ~Updates1(r) /\ ~Deletes(r) BY <1>4 DEF Read, Inserts, Updates1, Deletes
  <2> QED BY <1>1, <1>2, <2>1, <2>2, StatementLemma DEF Disturbs
<1>5. CASE Update(r)
  <2>1. UNCHANGED <<walked, cut>> BY <1>5 DEF Update, Keep, walk
  <2>2. ~Inserts(r) /\ ~Deletes(r) BY <1>5 DEF Update, Inserts, Deletes
  <2> QED BY <1>1, <1>2, <2>1, <2>2, StatementLemma DEF Disturbs
<1>6. CASE Delete(r)
  <2>1. CASE Deleted(r)
    <3>1. Deletes(r) BY <1>6, <2>1 DEF Deletes, Delete
    <3> QED BY <1>1, <1>2, <3>1 DEF Disturbs
  <2>2. CASE UNCHANGED <<rows, walked, cut>>
    BY <1>1, <1>2, <1>6, <2>2 DEF Delete, Disturbs, Leaves
  <2> QED BY <1>6, <2>1, <2>2 DEF Delete
<1>7. CASE RecordAuditLog(r)
  BY <1>1, <1>2, <1>7 DEF RecordAuditLog, Keep, walk, Disturbs, Leaves, table
<1>8. CASE Page(r)
  BY <1>1, <1>2, <1>8 DEF Page, Disturbs, Leaves, table
<1> QED BY <1>3, <1>4, <1>5, <1>6, <1>7, <1>8 DEF Statement

\* The list of a request whose user stays.
LEMMA ListedStep ==
  ASSUME TypeInv, NEW r \in Requests, Statement(r), NEW q \in Requests
  PROVE  /\ ~Inserts(r) /\ ~Deletes(r) => Listed(q)' = Listed(q)
         /\ Inserts(r) => /\ Listed(q) \subseteq Listed(q)'
                          /\ user[q].tenant # user[r].tenant => Listed(q)' = Listed(q)
         /\ Deletes(r) => /\ Listed(q)' = Listed(q) \ {target[r]}
                          /\ target[r] \in Listed(q) => rows[target[r]].tenant = user[q].tenant
<1> USE DEF TypeInv
<1>0. user' = user BY StatementLemma DEF Moves
<1>1. CASE ~Inserts(r) /\ ~Deletes(r)
  <2>1. CASE Updates1(r)
    <3>1. There' = There /\ rows'[target[r]].tenant = rows[target[r]].tenant
          /\ \A i \in Ids \ {target[r]} : rows'[i] = rows[i]
      BY <2>1, UpdatedLemma
    <3>2. \A i \in There : rows'[i].tenant = rows[i].tenant BY <3>1 DEF There
    <3>3. Listed(q)' = Listed(q) BY <1>0, <3>1, <3>2 DEF Listed
    <3> QED BY <1>1, <3>3
  <2>2. CASE Reads(r) \/ Leaves(r)
    <3>1. rows' = rows BY <2>2 DEF Reads, Leaves
    <3>2. Listed(q)' = Listed(q) BY <1>0, <3>1 DEF Listed, There
    <3> QED BY <1>1, <3>2
  <2> QED BY <1>1, <2>1, <2>2, StatementLemma
<1>2. CASE Inserts(r)
  <2>1. PICK row \in Row : row.tenant = user[r].tenant /\ rows' = [rows EXCEPT ![created + 1] = row]
    BY <1>2 DEF Inserts
  <2>2. created + 1 \in Ids /\ created \in Nat
    BY <1>2, CatalogAssumption DEF Inserts, Ids, RowsOK
  <2>3. rows \in [Ids -> Row \cup {NoRow}] BY DEF RowsOK
  <2>4. \A i \in There : i \in Ids /\ i # created + 1 BY <2>2, RowLemma DEF RowsOK, There
  <2>5. \A i \in There : rows'[i] = rows[i] BY <2>1, <2>3, <2>4
  <2>6. There' = There \cup {created + 1} BY <2>1, <2>2, <2>3, RowLemma DEF There
  <2>7. rows'[created + 1].tenant = user[r].tenant BY <2>1, <2>2, <2>3
  <2>8. Listed(q) \subseteq Listed(q)' BY <1>0, <2>5, <2>6 DEF Listed
  <2>9. user[q].tenant # user[r].tenant => Listed(q)' = Listed(q)
    BY <1>0, <2>5, <2>6, <2>7 DEF Listed
  <2>10. ~Deletes(r) BY <1>2 DEF Inserts, Deletes
  <2> QED BY <1>2, <2>8, <2>9, <2>10
<1>3. CASE Deletes(r)
  <2>1. target[r] \in There /\ rows' = [rows EXCEPT ![target[r]] = NoRow]
    BY <1>3 DEF Deletes, Deleted
  <2>2. There' = There \ {target[r]} /\ \A i \in There' : rows'[i] = rows[i]
    BY <2>1 DEF There, RowsOK
  <2>3. Listed(q)' = Listed(q) \ {target[r]} BY <1>0, <2>2 DEF Listed
  <2>4. target[r] \in Listed(q) => rows[target[r]].tenant = user[q].tenant BY DEF Listed
  <2>5. ~Inserts(r) BY <1>3 DEF Inserts, Deletes
  <2> QED BY <1>3, <2>3, <2>4, <2>5
<1> QED BY <1>1, <1>2, <1>3

\* Another request's statement: an insertion or deletion cuts the walks it upsets, and
\* leaves the others as they are.
LEMMA OthersWalk ==
  ASSUME TypeInv, NEW r \in Requests, Statement(r), NEW q \in Requests \ {r}, WalkOK(q)
  PROVE  WalkOK(q)'
<1> USE DEF TypeInv
<1>0. /\ op'[q] = op[q] /\ pc'[q] = pc[q] /\ user'[q] = user[q] /\ got'[q] = got[q]
      /\ cursor'[q] = cursor[q]
  BY OthersLemma, DisturbsLemma DEF Others, Disturbs
<1>1. CASE UNCHANGED <<walked, cut>> /\ (Updates1(r) \/ Reads(r) \/ Leaves(r))
  <2>1. ~Inserts(r) /\ ~Deletes(r)
    BY <1>1, CatalogAssumption DEF Updates1, Reads, Leaves, Inserts, Deletes, Deleted, There, RowsOK
  <2>2. Listed(q)' = Listed(q) BY <2>1, ListedStep
  <2>3. There' = There BY <1>1, UpdatedLemma DEF Reads, Leaves, There
  <2> QED BY <1>0, <1>1, <2>2, <2>3 DEF WalkOK, Walking, CoveredByCursor, CoveredBySkip, First
<1>2. CASE Inserts(r) /\ walked' = walked
           /\ cut' = [p \in Requests |-> cut[p] \/ p \in Upset(created + 1, user[r].tenant)]
  <2>1. cut'[q] = (cut[q] \/ q \in Upset(created + 1, user[r].tenant)) BY <1>2
  <2>2. Listed(q) \subseteq Listed(q)' /\ (user[q].tenant # user[r].tenant => Listed(q)' = Listed(q))
    BY <1>2, ListedStep
  <2>3. There \subseteq There'
    <3>1. PICK row \in Row : rows' = [rows EXCEPT ![created + 1] = row] BY <1>2 DEF Inserts
    <3> QED BY <3>1, RowLemma DEF There, RowsOK
  <2>4. CASE ~Walking(q) BY <1>0, <1>2, <2>1, <2>4 DEF WalkOK, Walking, Upset
  <2>5. CASE Walking(q) /\ op[q] = "cursor walk"
    <3>1. CoveredByCursor(q) /\ walked[q] \subseteq Listed(q) /\ \A i \in Ids : got[q][i] <= 1
      BY <2>5 DEF WalkOK
    <3>2. CoveredByCursor(q)' BY <1>0, <1>2, <2>1, <2>3, <3>1 DEF CoveredByCursor
    <3> QED BY <1>0, <1>2, <2>2, <2>5, <3>1, <3>2 DEF WalkOK, Walking
  <2>6. CASE Walking(q) /\ op[q] = "skip walk"
    <3>1. CoveredBySkip(q) /\ walked[q] \subseteq Listed(q) BY <2>6 DEF WalkOK
    <3>2. CoveredBySkip(q)'
      BY <1>0, <1>2, <2>1, <2>2, <2>6, <3>1 DEF CoveredBySkip, Upset, First
    <3> QED BY <1>0, <1>2, <2>2, <2>6, <3>1, <3>2 DEF WalkOK, Walking
  <2> QED BY <2>4, <2>5, <2>6 DEF PathOK, Walking
<1>3. CASE Deletes(r)
  <2>1. /\ target[r] \in There /\ rows' = [rows EXCEPT ![target[r]] = NoRow]
        /\ walked'[q] = walked[q] \ {target[r]}
        /\ cut'[q] = (cut[q] \/ q \in Upset(target[r], rows[target[r]].tenant))
    BY <1>3 DEF Deletes, Deleted
  <2>2. Listed(q)' = Listed(q) \ {target[r]}
        /\ (target[r] \in Listed(q) => rows[target[r]].tenant = user[q].tenant)
    BY <1>3, ListedStep
  <2>3. There' = There \ {target[r]} BY <2>1 DEF There, RowsOK
  <2>4. CASE ~Walking(q) BY <1>0, <2>1, <2>4 DEF WalkOK, Walking, Upset
  <2>5. CASE Walking(q) /\ op[q] = "cursor walk"
    <3>1. CoveredByCursor(q) /\ walked[q] \subseteq Listed(q) /\ \A i \in Ids : got[q][i] <= 1
      BY <2>5 DEF WalkOK
    <3>2. CoveredByCursor(q)'
      BY <1>0, <2>1, <2>3, <2>5, <3>1 DEF CoveredByCursor, Upset
    <3>3. walked'[q] \subseteq Listed(q)' BY <2>1, <2>2, <3>1
    <3> QED BY <1>0, <2>5, <3>1, <3>2, <3>3 DEF WalkOK, Walking
  <2>6. CASE Walking(q) /\ op[q] = "skip walk"
    <3>1. CoveredBySkip(q) /\ walked[q] \subseteq Listed(q) BY <2>6 DEF WalkOK
    <3>2. CASE target[r] \in Listed(q)
      <4>1. cut'[q] BY <2>1, <2>2, <2>6, <3>2 DEF Upset
      <4>2. CoveredBySkip(q)' BY <4>1 DEF CoveredBySkip
      <4> QED BY <1>0, <2>1, <2>2, <2>6, <3>1, <4>2 DEF WalkOK, Walking
    <3>3. CASE target[r] \notin Listed(q)
      <4>1. Listed(q)' = Listed(q) /\ walked'[q] = walked[q] BY <2>1, <2>2, <3>1, <3>3
      <4>2. ~cut'[q] => ~cut[q] BY <2>1 DEF WalksOK
      <4>3. CoveredBySkip(q)'
        <5> DEFINE Given(g, c, L) == \A i \in Ids : g[i] = IF i \in First(c, L) THEN 1 ELSE 0
        <5>1. ~cut[q] => walked[q] = Listed(q) /\ Given(got[q], cursor[q], Listed(q))
          BY <3>1 DEF CoveredBySkip
        <5>2. ~cut'[q] => walked'[q] = Listed(q)' /\ Given(got'[q], cursor'[q], Listed(q)')
          <6> HIDE DEF Given
          <6> QED BY <1>0, <4>1, <4>2, <5>1
        <5> QED BY <5>2 DEF CoveredBySkip, First
      <4> QED BY <1>0, <2>6, <3>1, <4>1, <4>3 DEF WalkOK, Walking
    <3> QED BY <3>2, <3>3
  <2> QED BY <2>4, <2>5, <2>6 DEF PathOK, Walking
<1> QED BY <1>1, <1>2, <1>3, DisturbsLemma DEF Disturbs

\* A walk begins with the list there is, and has given nothing.
LEMMA WalkBegins ==
  ASSUME TypeInv, NEW r \in Requests, Begin(r), WalkOK(r)
  PROVE  WalkOK(r)'
<1> USE DEF TypeInv
<1>1. /\ pc[r] = "idle" /\ UNCHANGED <<rows, got, cursor, cut>>
      /\ pc'[r] \in {"insert", "read", "page", "forbidden"} /\ There' = There
  BY BeginLemma DEF Begins, CallsOK, There
<1>2. cursor'[r] = 0 /\ ~cut'[r] /\ \A i \in Ids : got'[r][i] = 0 BY <1>1 DEF WalkOK
<1>3. ASSUME pc'[r] = "page" PROVE walked'[r] = Listed(r)'
  <2>1. PICK u \in Users : \E kind \in Walks, n \in PageLimits : AskWalk(r, u, kind, n)
    BY <1>3 DEF Begin, AskCreate, AskDelete, AskUpdate, Enter, Goto, CallsOK, Walks
  <2>2. /\ user' = [user EXCEPT ![r] = u]
        /\ walked' = [walked EXCEPT ![r] = {i \in There : rows[i].tenant = u.tenant}]
    BY <2>1 DEF AskWalk, Enter
  <2> QED BY <1>1, <2>2 DEF CallsOK, WalksOK, Listed
<1>4. \A i \in Ids : ~(i \in First(0, Listed(r)'))
  <2>1. ASSUME NEW L, L \subseteq Int, IsFiniteSet(L), NEW i \in First(0, L) PROVE FALSE
    <3>1. Cardinality(Above(i, L)) < 0 BY FirstAbove
    <3>2. Cardinality(Above(i, L)) \in Nat BY <2>1, AboveFinite
    <3> QED BY <3>1, <3>2
  <2>2. Listed(r)' \subseteq Int /\ IsFiniteSet(Listed(r)')
    <3>1. Listed(r)' \subseteq Ids BY DEF Listed, There
    <3>2. Ids \subseteq Int /\ IsFiniteSet(Ids) BY CatalogAssumption, FS_Interval DEF Ids
    <3> QED BY <3>1, <3>2, FS_Subset
  <2> QED BY <2>1, <2>2
<1>5. pc'[r] = "page" => CoveredByCursor(r)' /\ CoveredBySkip(r)'
  <2>1. CoveredByCursor(r)' BY <1>2 DEF CoveredByCursor
  <2>2. First(cursor[r], Listed(r))' = First(cursor'[r], Listed(r)') BY DEF First
  <2>3. pc'[r] = "page" => CoveredBySkip(r)' BY <1>2, <1>3, <1>4, <2>2 DEF CoveredBySkip
  <2> QED BY <2>1, <2>3
<1>6. /\ pc'[r] # "idle" /\ pc'[r] # "answered" /\ \A i \in Ids : got'[r][i] <= 1
      /\ pc'[r] = "page" => walked'[r] \subseteq Listed(r)'
  BY <1>1, <1>2, <1>3
<1> QED BY <1>5, <1>6 DEF WalkOK, Walking

\* A request that has no pages to ask for is no walk.
LEMMA NoWalk ==
  ASSUME TypeInv, NEW r \in Requests, Statement(r), pc[r] # "page", WalkOK(r)
  PROVE  WalkOK(r)'
<1> USE DEF TypeInv
<1>1. pc[r] \in {"insert", "read", "write", "audit"}
  BY DEF Statement, Create, Read, Update, Delete, RecordAuditLog, Page
<1>2. op[r] \notin Walks /\ op'[r] = op[r]
  BY <1>1, StatementLemma DEF PathOK, Moves, Walks
<1>3. pc'[r] # "idle" /\ pc'[r] # "page" BY <1>1, StatementLemma DEF Moves, CallsOK
<1> QED BY <1>2, <1>3 DEF WalkOK, Walking, Walks

\* A page gives the next of the list, and the last page gives the rest.
LEMMA WalkPages ==
  ASSUME TypeInv, NEW r \in Requests, Page(r), WalkOK(r)
  PROVE  WalkOK(r)'
<1> USE DEF TypeInv
<1> DEFINE A == After(r)
           items == First(limit[r] + 1, A)
           page  == First(limit[r], items)
<1>1. /\ pc[r] = "page" /\ pc'[r] \in {"page", "answered", "error"} /\ op[r] \in Walks
      /\ UNCHANGED <<op, user, walked, cut>> /\ There' = There /\ Listed(r)' = Listed(r)
  BY DEF Page, Goto, PathOK, CallsOK, Walks, table, Listed, There
<1>2. A \subseteq Listed(r) /\ A \subseteq Int /\ IsFiniteSet(A)
  <2>1. A \subseteq Listed(r) BY DEF After
  <2> HIDE DEF A
  <2> QED BY <2>1, ListedFinite, FS_Subset
<1>3. /\ limit[r] \in Nat /\ cursor[r] \in Nat /\ limit[r] > 0 /\ cursor \in [Requests -> Nat]
      /\ got \in [Requests -> [Ids -> Nat]]
  <2>1. limit[r] > 0 BY <1>1 DEF PathOK
  <2>2. limit[r] \in 0 .. MAX_PAGE_SIZE /\ MAX_PAGE_SIZE \in Nat BY CatalogAssumption DEF WalksOK
  <2> QED BY <2>1, <2>2 DEF WalksOK
<1>4. page = First(limit[r], A)
  <2> HIDE DEF A
  <2> QED BY <1>2, <1>3, FirstFirst
<1>5. items = page => page = A
  <2> HIDE DEF A
  <2> QED BY <1>2, <1>3, <1>4, FirstAll
<1>6. page \subseteq A /\ \A i \in page, k \in A : k >= i => k \in page
  <2> HIDE DEF A
  <2>1. First(limit[r], A) \subseteq A BY DEF First
  <2>2. \A i \in First(limit[r], A), k \in A : k >= i => k \in First(limit[r], A)
    BY <1>2, <1>3, FirstUp
  <2> QED BY <1>4, <2>1, <2>2
<1>7. CASE Fails /\ Goto(r, "error") /\ UNCHANGED <<got, cursor>>
  <2>1. pc'[r] = "error" BY <1>7 DEF Goto, CallsOK
  <2> QED BY <1>1, <1>7, <2>1 DEF WalkOK, Walking
<1>8. CASE /\ got' = [got EXCEPT ![r] = [i \in Ids |-> IF i \in page THEN @[i] + 1 ELSE @[i]]]
           /\ \/ /\ items # page /\ pc' = pc
                 /\ \E last \in page :
                      /\ \A i \in page : last <= i
                      /\ cursor' = [cursor EXCEPT ![r] =
                                      IF op[r] = "cursor walk" THEN last ELSE @ + limit[r]]
              \/ items = page /\ Goto(r, "answered") /\ cursor' = cursor
  <2> HIDE DEF A, items, page
  <2>1. \A i \in Ids : got'[r][i] = IF i \in page THEN got[r][i] + 1 ELSE got[r][i]
    BY <1>3, <1>8
  <2>2. walked[r] \subseteq Listed(r) /\ Listed(r) \subseteq Ids BY <1>1, ListedFinite DEF WalkOK, Walking
  <2>3. \A i \in Ids : i \in Int /\ i > 0 BY RowLemma
  <2>4. CASE op[r] = "cursor walk"
    <3>1. CoveredByCursor(r) /\ \A i \in Ids : got[r][i] <= 1 /\ got[r][i] \in Nat
      BY <1>1, <1>3, <2>4 DEF WalkOK, Walking
    <3>2. A = {i \in Listed(r) : cursor[r] = 0 \/ (cursor[r] \in There /\ i < cursor[r])}
      BY <2>4 DEF A, After
    <3>3. \A i \in page : i \in Ids /\ got[r][i] = 0
      <4> SUFFICES ASSUME NEW i \in page PROVE i \in Ids /\ got[r][i] = 0 OBVIOUS
      <4>1. i \in Ids /\ (cursor[r] = 0 \/ i < cursor[r]) BY <1>6, <2>2, <3>2
      <4>2. ~(got[r][i] > 0) BY <1>3, <2>3, <3>1, <4>1 DEF CoveredByCursor
      <4> QED BY <3>1, <4>1, <4>2
    <3>4. \A i \in Ids : got'[r][i] <= 1 BY <2>1, <3>1, <3>3
    <3>5. CASE items # page /\ pc' = pc
      <4>1. PICK last \in page : /\ \A i \in page : last <= i
                                 /\ cursor' = [cursor EXCEPT ![r] = last]
        BY <1>8, <2>4, <3>5
      <4>2. /\ cursor'[r] = last /\ last \in Ids /\ last \in There /\ last > 0 /\ last \in Int
            /\ cursor[r] = 0 \/ last < cursor[r]
        BY <1>3, <1>6, <2>3, <3>2, <3>3, <4>1 DEF Listed
      <4>3. ASSUME NEW i \in Ids, got'[r][i] > 0 PROVE i >= last
        <5>1. CASE i \in page BY <2>3, <4>1, <4>2, <5>1
        <5>2. CASE i \notin page
          <6>1. cursor[r] > 0 /\ i >= cursor[r] BY <2>1, <3>1, <4>3, <5>2 DEF CoveredByCursor
          <6> QED BY <1>3, <2>3, <4>2, <6>1
        <5> QED BY <5>1, <5>2
      <4>4. ASSUME ~cut[r], NEW i \in walked[r], i >= last PROVE got'[r][i] = 1
        <5>0. i \in Ids /\ i \in Listed(r) BY <2>2
        <5>1. CASE cursor[r] > 0 /\ i >= cursor[r]
          <6>1. got[r][i] = 1 BY <3>1, <4>4, <5>1 DEF CoveredByCursor
          <6> QED BY <2>1, <3>3, <5>0, <6>1
        <5>2. CASE ~(cursor[r] > 0 /\ i >= cursor[r])
          <6>1. cursor[r] = 0 \/ cursor[r] \in There BY <3>1, <4>4 DEF CoveredByCursor
          <6>2. i \in A BY <1>3, <2>3, <3>2, <5>0, <5>2, <6>1
          <6>3. i \in page BY <1>6, <4>1, <4>4, <6>2
          <6> QED BY <2>1, <3>3, <6>3
        <5> QED BY <5>1, <5>2
      <4>5. CoveredByCursor(r)' BY <1>1, <4>2, <4>3, <4>4 DEF CoveredByCursor
      <4> QED BY <1>1, <2>2, <2>4, <3>4, <3>5, <4>5 DEF WalkOK, Walking
    <3>6. CASE items = page /\ Goto(r, "answered")
      <4>1. pc'[r] = "answered" BY <3>6 DEF Goto, CallsOK
      <4>2. ASSUME ~cut[r], NEW i \in walked[r] PROVE got'[r][i] = 1
        <5>0. i \in Ids /\ i \in Listed(r) BY <2>2
        <5>1. CASE cursor[r] > 0 /\ i >= cursor[r]
          <6>1. got[r][i] = 1 BY <3>1, <4>2, <5>1 DEF CoveredByCursor
          <6> QED BY <2>1, <3>3, <5>0, <6>1
        <5>2. CASE ~(cursor[r] > 0 /\ i >= cursor[r])
          <6>1. cursor[r] = 0 \/ cursor[r] \in There BY <3>1, <4>2 DEF CoveredByCursor
          <6>2. i \in A BY <1>3, <2>3, <3>2, <5>0, <5>2, <6>1
          <6>3. i \in page BY <1>5, <3>6, <6>2
          <6> QED BY <2>1, <3>3, <6>3
        <5> QED BY <5>1, <5>2
      <4> QED BY <1>1, <3>4, <4>1, <4>2 DEF WalkOK, Walking
    <3> QED BY <1>8, <3>5, <3>6
  <2>5. CASE op[r] = "skip walk"
    <3>1. CoveredBySkip(r) BY <1>1, <2>5 DEF WalkOK, Walking
    <3>2. A = Listed(r) \ First(cursor[r], Listed(r)) BY <2>5 DEF A, After
    <3>3. First(cursor[r] + limit[r], Listed(r)) = First(cursor[r], Listed(r)) \cup page
      BY <1>3, <1>4, <3>2, ListedFinite, FirstSkip
    <3>4. First(cursor[r], Listed(r)) \subseteq Listed(r) BY DEF First
    <3>5. ~cut[r] => \A i \in Ids : got'[r][i] =
                       IF i \in First(cursor[r], Listed(r)) \cup page THEN 1 ELSE 0
      <4> SUFFICES ASSUME ~cut[r], NEW i \in Ids
                   PROVE  got'[r][i] = IF i \in First(cursor[r], Listed(r)) \cup page THEN 1 ELSE 0
        OBVIOUS
      <4>1. got[r][i] = IF i \in First(cursor[r], Listed(r)) THEN 1 ELSE 0
        BY <3>1 DEF CoveredBySkip
      <4>2. i \in page => i \notin First(cursor[r], Listed(r)) BY <1>6, <3>2
      <4> QED BY <2>1, <4>1, <4>2
    <3>6. CASE items # page /\ pc' = pc
      <4>1. cursor' = [cursor EXCEPT ![r] = cursor[r] + limit[r]]
        BY <1>8, <2>5, <3>6
      <4>2. cursor'[r] = cursor[r] + limit[r] BY <1>3, <4>1
      <4>3. First(cursor[r], Listed(r))' = First(cursor'[r], Listed(r)') BY DEF First
      <4>4. First(cursor'[r], Listed(r)') = First(cursor[r], Listed(r)) \cup page
        BY <1>1, <3>3, <4>2
      <4>5. CoveredBySkip(r)' BY <1>1, <3>1, <3>5, <4>3, <4>4 DEF CoveredBySkip
      <4> QED BY <1>1, <2>2, <2>5, <3>6, <4>5 DEF WalkOK, Walking
    <3>7. CASE items = page /\ Goto(r, "answered")
      <4>1. pc'[r] = "answered" BY <3>7 DEF Goto, CallsOK
      <4>2. First(cursor[r], Listed(r)) \cup page = Listed(r) BY <1>5, <3>2, <3>4, <3>7
      <4>3. ~cut[r] => \A i \in walked[r] : got'[r][i] = 1 BY <2>2, <3>5, <4>2
      <4> QED BY <1>1, <2>5, <4>1, <4>3 DEF WalkOK, Walking
    <3> QED BY <1>8, <3>6, <3>7
  <2> QED BY <1>1, <2>4, <2>5 DEF Walks
<1> QED BY <1>7, <1>8 DEF Page

LEMMA WalksFollowStep ==
  ASSUME TypeInv, WalksFollow, NEW r \in Requests, Begin(r) \/ Statement(r)
  PROVE  WalksFollow'
<1> USE DEF TypeInv
<1> SUFFICES ASSUME NEW q \in Requests PROVE WalkOK(q)' BY DEF WalksFollow
<1>1. WalkOK(q) BY DEF WalksFollow
<1>2. CASE q = r /\ Begin(r) BY <1>1, <1>2, WalkBegins
<1>3. CASE q # r /\ Begin(r)
  <2>1. Begins(r) BY <1>3, BeginLemma
  <2>2. /\ op'[q] = op[q] /\ pc'[q] = pc[q] /\ user'[q] = user[q]
        /\ UNCHANGED <<rows, got, cursor, cut>> /\ walked'[q] = walked[q]
    <3>1. op'[q] = op[q] /\ pc'[q] = pc[q] /\ user'[q] = user[q] BY <1>3, OthersLemma DEF Others
    <3>2. walked' = walked \/ \E S : walked' = [walked EXCEPT ![r] = S] BY <2>1 DEF Begins
    <3>3. walked'[q] = walked[q] BY <1>3, <3>2 DEF WalksOK
    <3> QED BY <2>1, <3>1, <3>3 DEF Begins
  <2>3. There' = There /\ Listed(q)' = Listed(q) BY <2>2 DEF Listed, There
  <2> QED BY <1>1, <2>2, <2>3 DEF WalkOK, Walking, CoveredByCursor, CoveredBySkip, First
<1>4. CASE q = r /\ Statement(r)
  <2>1. CASE pc[r] = "page"
    <3>1. Page(r) BY <1>4, <2>1 DEF Statement, Create, Read, Update, Delete, RecordAuditLog
    <3> QED BY <1>1, <1>4, <3>1, WalkPages
  <2>2. CASE pc[r] # "page" BY <1>1, <1>4, <2>2, NoWalk
  <2> QED BY <2>1, <2>2
<1>5. CASE q # r /\ Statement(r) BY <1>1, <1>5, OthersWalk
<1> QED BY <1>2, <1>3, <1>4, <1>5

-----------------------------------------------------------------------------
IInv ==
  /\ TypeInv /\ CarriesOK /\ LoggedOK /\ GivenOK /\ OnlyOverlapLosesUpdates /\ OnceOK
  /\ WalksFollow

LEMMA Invariance == Spec => []IInv
<1>1. Init => IInv
  <2> SUFFICES ASSUME Init PROVE IInv OBVIOUS
  <2>1. TypeInv BY InitTyped
  <2>2. PICK n \in 0 .. MaxRows : DOMAIN FirstRows = 1 .. n /\ \A i \in 1 .. n : FirstRows[i] \in Row
    BY CatalogAssumption
  <2>3. created = n /\ There = 1 .. n
    <3>1. created = n BY <2>2, FS_Interval DEF Init
    <3>2. There = 1 .. n BY <2>2, CatalogAssumption DEF Init, Ids, There
    <3> QED BY <3>1, <3>2
  <2>4. \A i : Deleters(i) = {} /\ Deletions(i) = {} BY DEF Init, Deleters, Deletions
  <2>5. OnceOK BY <2>3, <2>4, FS_EmptySet DEF OnceOK, ToldOf
  <2>6. OnlyOverlapLosesUpdates
    <3> SUFFICES ASSUME NEW i \in There PROVE rows[i].value = written[i]
      BY DEF OnlyOverlapLosesUpdates
    <3>1. i \in Ids /\ i \in DOMAIN FirstRows BY <2>2, <2>3 DEF There
    <3> QED BY <3>1 DEF Init
  <2>7. CarriesOK /\ LoggedOK /\ GivenOK BY DEF Init, CarriesOK, LoggedOK, GivenOK
  <2>8. WalksFollow BY DEF Init, WalksFollow, WalkOK, Walking
  <2> QED BY <2>1, <2>5, <2>6, <2>7, <2>8 DEF IInv
<1>2. IInv /\ [Next]_vars => IInv'
  <2> SUFFICES ASSUME IInv, [Next]_vars PROVE IInv' OBVIOUS
  <2>1. ASSUME NEW r \in Requests, Begin(r) \/ Statement(r) PROVE IInv'
    <3>1. TypeInv' BY <2>1, TypeStep DEF IInv, Next, Statement
    <3> QED BY <2>1, <3>1, CarriesStep, LoggedStep, GivenStep, WrittenStep, OnceStep,
           WalksFollowStep
       DEF IInv
  <2>2. CASE UNCHANGED vars
    <3>1. TypeInv' BY <2>2, TypeStep DEF IInv
    <3>2. There' = There /\ UNCHANGED <<rows, created, audit, op, pc, user, target, wf, got, written, overlap, faults>>
      BY <2>2 DEF vars, table, walk, There
    <3>3. CarriesOK' /\ LoggedOK' /\ GivenOK' BY <3>2 DEF IInv, CarriesOK, LoggedOK, GivenOK
    <3>4. OnlyOverlapLosesUpdates' BY <3>2 DEF IInv, OnlyOverlapLosesUpdates
    <3>5. \A i : ToldOf(i)' = ToldOf(i) BY <3>2 DEF ToldOf, Deleters, Deletions
    <3>6. UNCHANGED <<limit, cursor, walked, cut>> BY <2>2 DEF vars, walk
    <3>7. ASSUME NEW q \in Requests PROVE WalkOK(q)'
      <4>1. WalkOK(q) BY DEF IInv, WalksFollow
      <4>2. Listed(q)' = Listed(q) BY <3>2 DEF Listed
      <4> QED BY <3>2, <3>6, <4>1, <4>2 DEF WalkOK, Walking, CoveredByCursor, CoveredBySkip, First
    <3> QED BY <3>1, <3>2, <3>3, <3>4, <3>5, <3>7 DEF IInv, OnceOK, WalksFollow
  <2> QED BY <2>1, <2>2 DEF Next, Statement
<1> QED BY <1>1, <1>2, PTL DEF Spec

\* A change is logged only of a workflow of the user's own tenant, and an update or
\* deletion only by its creator or an administrator; nobody is given a workflow of another
\* tenant.
THEOREM TenantsApartHolds == Spec => []TenantsApart
<1>1. IInv => TenantsApart
  <2> SUFFICES ASSUME IInv PROVE TenantsApart OBVIOUS
  <2>1. \A r \in Requests : \A i \in There : got[r][i] > 0 => rows[i].tenant = user[r].tenant
    BY DEF IInv, GivenOK, There
  <2> QED BY <2>1 DEF IInv, LoggedOK, TenantsApart
<1> QED BY <1>1, Invariance, PTL

\* A workflow that has gone was deleted by one request, which alone is told so.
THEOREM DeletedOnceHolds == Spec => []DeletedOnce
<1>1. IInv => DeletedOnce BY DEF IInv, OnceOK, ToldOf, Deleters, Deletions, DeletedOnce
<1> QED BY <1>1, Invariance, PTL

\* A field has the value it was last set to, unless updates of its workflow overlapped.
THEOREM OnlyOverlapLosesUpdatesHolds == Spec => []OnlyOverlapLosesUpdates
<1>1. IInv => OnlyOverlapLosesUpdates BY DEF IInv
<1> QED BY <1>1, Invariance, PTL

\* A client that walks through all pages by cursor is given no workflow twice, and every one
\* that was there all the time once, unless the workflow at its cursor was deleted; one that
\* walks by skip, if the tenant's workflows stayed the same.
THEOREM WalkIsCompleteHolds == Spec => []WalkIsComplete
<1>1. IInv => WalkIsComplete BY DEF IInv, WalksFollow, WalkOK, Walks, WalkIsComplete
<1> QED BY <1>1, Invariance, PTL
=============================================================================
