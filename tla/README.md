# A TLA+ verification of ForgeGate

ForgeGate runs multi-step HTTP workflows for several tenants. This directory
holds TLA+ modules that model the parts of it in which steps of several actors
meet: the workflow service, where API calls, BullMQ jobs, worker processes, a
recovery scanner and operators act on the same execution, with crashes, pauses
and retries in between; the idempotency of API calls; the rate and concurrency
limiters; the workflow definitions with their policy and paging; and the auth
service. TLC checks the models on small instances; TLAPS proves
every safety property of the passing runs for every value of the constants.

Paths below are relative to `src/`; `ENGINE`, `QUEUE`, `SCHEDULER` and
`CLASSIFIER` stand for `workflow-engine/workflow-engine.service.ts`,
`queue/queue.service.ts`, `workflow-engine/http-retry-scheduler.ts` and
`workflow-engine/http-step-classifier.ts` in `apps/workflow-service/src`.

Contents: [1 Inventory](#1-inventory) · [2 Modules](#2-modules) ·
[3 Model and code](#3-model-and-code) · [4 Runs](#4-runs) ·
[5 Findings](#5-findings) · [6 Fairness](#6-fairness) · [7 Proofs](#7-proofs) ·
[8 Not modelled](#8-not-modelled) · [9 Plan](#9-plan)

## 1. Inventory

| Component | State it keeps | Operations | Interacts by | What makes it correct |
|---|---|---|---|---|
| Workflow engine (`ENGINE`) | `WorkflowExecution` and `StepExecution` rows; a heartbeat timer per running step | `executeExecution`, `executeStep`, `markAsFailed`, `logReplayEvent`, `findAndMarkStaleStepExecutions` | conditional updates in PostgreSQL | one run per row, one verdict per row, no completion over a failed step, no abandoned execution |
| Queue service (`QUEUE`) | the BullMQ queues `workflow-executions` and `workflow-dlq` in Redis | enqueue, `'failed'` handler, scanner, replay, listings | job data, BullMQ locks and events | each failed job has exactly one successor: a retry, or a dead letter and a failed execution |
| Retry policy (`SCHEDULER`, `CLASSIFIER`) | none: counters travel in the job data | classify a failure, decide on a retry, choose a delay | called by engine and handler | both budgets are bounds; delays are within limits and honour Retry-After; permanent failures end it |
| Trigger (`execution/execution.service.ts`) | none | create the execution, enqueue its first job | database, then Redis | what it creates is run |
| API idempotency (`execution/api-idempotency.service.ts`) | lock and record in Redis if `REDIS_URL` is set, and a map in the memory of each process | run an operation at most once per key | Redis `SET NX`, polling; wraps the trigger | an answer is an execution with a job; a repeated call gets the first one's answer where it can find it; nobody waits for ever |
| Outbound limiters (`workflow-engine/outbound-*.ts`) | counters with a TTL in Redis, one per scope | consume a quota; acquire and release a slot | called by `executeStep`, rate limiter first | never above the limit; slots are given back; windows end |
| Gateway limiter (`apps/api-gateway/src/rate-limiter`) | a counter with a TTL per tenant and address | count a request, let it pass or refuse it | Redis | limit per window; windows end |
| Workflow definitions (`workflow/workflow.service.ts`) | workflows with their steps; `AuditLog` | create, read, list, update, delete | single statements in PostgreSQL | tenants and owners are kept apart; a deletion happens once; an update touches what it was given |
| Authorization policy (`packages/auth/src/policy.engine.ts`) | none | `can(user, action, resource)` | called by the services before and after they read | the role table |
| Pagination (`packages/common/src/pagination.ts`) | none: cursor or skip travel with the client | parse a limit, build a page | called by every list | a walk through the pages misses nothing and repeats nothing |
| Auth service (`apps/auth-service`) | users, tenants, roles, refresh tokens, `AuditLog`; blacklist in Redis | register, log in, log out, verify, change a role, permissions or a tenant | single statements in PostgreSQL and Redis | one account per email; a logout revokes; tokens carry the role; what is answered is logged |
| API gateway (proxy, health, dashboard) | none | forward, probe, render | HTTP | none that a state machine could say |
| Notification service, other shared code | none that other parts read | logging, metrics, validation | imports | pure functions |

The hardest behaviours are those of the first four rows. A worker process runs up
to five jobs at once in one thread, so every `await` is a point where other
jobs, handlers, timers and requests of the same process run; other processes run
in parallel with it. BullMQ delivers a job again when its lock is not renewed,
whether the process is dead or only slow; the scanner adds a job when a
heartbeat is old, on the same ambiguous evidence; operators replay dead letters
by hand. So one execution may have several jobs and several runs, and the
database rows are what keeps them apart. No transaction spans two statements, and
none spans the database and Redis, so a crash may fall between any two.

The same holds elsewhere on a smaller scale: the auth service and the catalogue
look first and write later, the limiters and the idempotency service are
sequences of single Redis commands, and what one request has read may be stale
when it writes.

`PROJECT.json` lists these hazards line by line, each with the properties that
watch over it, or the reason why none does yet.

## 2. Modules

| Module | What it is |
|---|---|
| `ExecutionLifecycle` | abstract specification: the status an API client may see, the dead letters an operator may see, and who may change them |
| `KeyedOperation` | abstract specification: what a client of the trigger may be answered, with and without an idempotency key |
| `RetryPolicy` | `classifyHttpError` and `calculateRetryDecision` as operators; extended by the two state machines |
| `RetrySchedule` | the chain of jobs one trigger gives rise to when nothing crashes, with time: back-off, Retry-After, jitter, queueing, lifetime |
| `WorkflowEngine` | one execution and everything that touches it: trigger, jobs, runs, handlers, scanner, replays, dead-letter worker, leases, crashes |
| `ApiIdempotency` | requests with one idempotency key in several processes: record, lock, polls, memory, and the operation they run |
| `Limiters` | the outbound rate and concurrency limiters, one after the other as around an HTTP request, and the gateway's limiter, command by command |
| `Catalog` | overlapping requests that create, update, delete and page through workflows, with the policy table and the audit log |
| `Accounts` | overlapping requests to the auth service, statement by statement |
| `MCRetrySchedule`, `MCWorkflowEngine`, `MCApiIdempotency`, `MCLimiters`, `MCCatalog`, `MCAccounts` | the constants TLC uses |
| `RetryScheduleProofs`, `WorkflowEngineProofs`, `LifecycleProofs`, `CompletionProofs`, `ApiIdempotencyProofs`, `LimitersProofs`, `CatalogProofs`, `AccountsProofs` | theorems and their proofs |

`WorkflowEngine` and `RetrySchedule` EXTEND `RetryPolicy`: the same decision
operator is exercised with interleavings in one and with time in the other.
`WorkflowEngine` instantiates `ExecutionLifecycle` with a refinement mapping
(`Buried`, `Giving`, `Replaying`) and implements it, and `ApiIdempotency` does the
same with `KeyedOperation` (`Stage`, `Given`, `Keyed`, `Shares`). Apart from that the last four
state machines stand alone: they share no state with the engine but the execution a trigger
creates and the failure a refused step reports, and each side models the other's
part of that.

Operators placed just before the definition they vary (`UpsertRow` before
`CreateRow`, and so on) are deliberate bugs: with one in place of the
definition, TLC finds the property violated that `PROJECT.json` pairs it with.
They are no part of the specification.

## 3. Model and code

### WorkflowEngine

*One execution.* Every statement of the code selects its rows by execution id, and
nothing but limiters and the scanner's visiting order relates two executions.
So one execution is modelled, with all the processes that may touch it.

*Grain.* An action is what happens between two awaits: one query, one Redis call,
or one answer from a provider, and the local work after it. Three merges are made,
each of steps no one else can tell apart: taking a job from the queue and reading
the execution (`Fetch`); the two lookups of the `'failed'` handler and its `add`;
`markAsFailed` and the end of the handler. Taking a job is visible to others only
through `getJobs`, which reports waiting and active jobs alike.

| Variable | In the code |
|---|---|
| `status`, `currentStep`, `metadata` | the `WorkflowExecution` row. Of `metadata`, which steps' outputs it holds |
| `rows` | the `StepExecution` rows by `(stepId, attempt)`, which are unique in an execution (`prisma/schema.prisma:230`). `fresh`: the heartbeat is younger than 30 s |
| `jobs` | the live jobs of `workflow-executions`. A delayed job counts as queued. `failed` and `buried`: its `'failed'` handler is at work, before and after the dead letter, in process `handler` |
| `letters` | `workflow-dlq`: waiting, locked by the `workflow-dlq` worker, or kept |
| `runs` | the calls of `executeExecution`, one per busy job slot; `pc` names the next query; `inputs` is what `stepPayloadInput` holds |
| `scans`, `replays`, `trigger` | calls of `recoverStaleExecutions`, `replayDlqJob`, `triggerWorkflow` |
| `up`, `expired` | whether a process runs; whether an hour has passed since `startedAt` |
| `crashes`, `pauses` | history, bounded by `MaxCrashes` and `MaxPauses` |

| Code | Actions |
|---|---|
| `triggerWorkflow` | `TriggerCreate`, `TriggerEnqueue` |
| `executeExecution` | `Fetch`, `Claim`, then per step `LookupSucceeded`, `CheckActive`, `AdvanceCurrentStep`, `CreateRow`, `StartRow`, `ExecuteStep`, `RecordSuccess` or `RecordFailure`; `Complete`; `Return` or `Throw` |
| heartbeat timer | `Heartbeat` |
| `'failed'` handler | `HandleRetry`, or `HandleBury` then `markAsFailed` |
| `recoverStaleExecutions` | `ScanFind`, `ScanMark` per row, `ScanFlag`, `ScanCheck`, `ScanEnqueue` |
| `replayDlqJob` | `ReplayGetJob`, `ReplayCheck`, `ReplayMark`, `ReplayRemove`, `ReplayRead`, `ReplayLog`, `ReplayEnqueue` |
| `workflow-dlq` worker | `DlqWorker` |
| BullMQ, clock, machine (external) | `Stalled`, `LeaseExpires`, `Expire`, `Crash`, `Restart` |

Details that matter and are easily lost:

- `workerId` is the host name, so the five slots of a process share it: the
  "active on another worker" check does not see a run of its own process, and
  an update guarded by `workerId` accepts it.
- The count of the update that records a success is not looked at: a run whose
  row was timed out goes on to the next step (`RecordSuccess`).
- `currentStep` is the value read at the start of the run, not the one it
  writes later; the steps before it are skipped without their outputs.
- BullMQ never uses a job id twice, so a free id is available to a new job only
  when no run still refers to it (`FreshJobIds`).
- The outcome of a run counts only while it holds its job's lock (`HoldsLock`);
  otherwise BullMQ discards it and no `'failed'` event follows.
- A run lost to a crash leaves its job active until a stalled check, and its row
  RUNNING until a scan; handlers, scans and replays of the process just vanish.
- The lookup of `startedAt` in the handler may fail and then counts as "now"
  (`Decisions`).
- A pause is what separates "slow" from "dead": a lease or lock that a live run
  would renew may lapse at most `MaxPauses` times.

Here the limiters appear as the failure of a 429 answer with a retry time, which is the
error `executeStep` throws for them (`ENGINE:627`, `657`). An unusable timeout is
a permanent failure, like a 400 answer.

### RetrySchedule

One variable per item of the job data, plus the time elapsed since `startedAt`,
which saturates at the lifetime limit since the decision only compares with it.
`Fail` is the `'failed'` handler with the classification of what came back,
`StartDelayed` the promotion and start of the next job. The text of a
Retry-After header is abstracted to what `parseRetryAfterHeader` returns: a
number of seconds or nothing. An answer with a status below 400 has no branch of
its own and is classified as a network error.

### ExecutionLifecycle

The abstract moves: create, work, complete; bury and then give up; see a letter,
use it up, reopen; and losing handlers and requests half-way. It says what the
service promises: an execution is failed only by a handler that has left a dead
letter, a completed execution is never failed, and only a request that has seen
a letter reopens one.

### KeyedOperation

What a client may rely on: a request begins, is served with a job of its own, and is
answered with that execution; or, if it bears the key, with the execution of
another request that does. `Stumble` is all that may happen when something has gone
wrong: requests are refused or start again, and a job may have been added for one
of them. Without it nobody is refused, nobody adds a second job, and a request that
comes after an answer to one of its `peers` adds none. Peers are the requests whose
answers it can be given, a choice of the installation that never changes. One execution per key is not promised,
since the code does not keep it (finding 9).

### ApiIdempotency

Tenant, scope and idempotency key name every Redis key and every entry of a
memory, so one such triple is modelled, and requests with it or without a key.
`record` and `lock` are in Redis, `memory` in each process. The operation is that
of the trigger: create an execution, then give it a job.

| Code | Actions |
|---|---|
| `processIdempotentOperation` | `Begin`, which branches on `this.redis`; `GetRecord`, `TakeLock`, `Store`, `Release` |
| `pollForRedisCompletion` | `PollRecord`, `PollLock`, `PollTimeout` |
| `processInMemory`, `pollInMemory` | `EnterMemory`, `PollMemory` |
| the operation of `triggerWorkflow` | `Create`, `Enqueue` |
| Redis, clock, machine (external) | `LockLapses`, `Crash` |

- `clients` are the processes that made a Redis client when they started, because
  `REDIS_URL` was set (`api-idempotency.service.ts:19`). Any set of them is an initial
  state. Without a client a keyed call goes straight to the memory of its process
  (line 61), and nothing has failed. Two requests share a store (`Shares`) if both
  processes have a client, or if they are one process.
- A client connects lazily and has no offline queue (lines 22-24), so a command
  sent before it is connected rejects. The model counts that among the rejected calls.
- `path` says how the request came to run the operation: under the lock, from
  the memory, or without a key. What happens after an error depends on it.
- Every call may reject, and may have taken effect or not. Rejections, polls that
  give up on a live operation, locks that lapse under their holder and crashes are
  the *troubles*, bounded by `MaxTroubles`. A lock that nobody holds any more
  lapses freely.
- The lock is deleted without a look at whose it is.
- A crash empties the memory of the process and loses its requests.
- A request is `late` if it began after another one with the key had been answered
  that it shares a store with.

### Limiters

A counter is absent, lasting (it has no TTL) or expiring. `INCR`, `EXPIRE`,
`DECR`, `TTL` and `SET` are commands of their own, and any of them may reject,
having taken effect or not; the limiters then let the call pass (fail open).

| Code | Actions |
|---|---|
| `checkAndConsume` (rate), `acquire` (concurrency), `canActivate` (gateway) | `Begin`, then per scope `IncrWithin`, `IncrOver` or `IncrFails`; `Expire` |
| the roll-back of both | `UndoOwn`, `Undo`, and `Ttl` for the answer |
| the request in `executeStep`, and `release` | `Request`, `Release`, `Reset` |
| Redis, machine (external) | `Lapse`, `Crash` |

- The rate limiter starts a window's TTL only with the first request; the
  concurrency limiter renews it with each acquisition, refused ones included.
- When the concurrency limiter refuses, what the rate limiter has counted stays
  consumed. `spent` leaves such a caller out, so `WindowsHold` is about those that
  passed.
- A release that finds the counter at or below zero sets it to 0 with a separate
  command. A roll-back that rejects half-way leaves the rest counted.
- A lapse is *untimely*, and counts as a trouble, when a live caller still uses
  the counter; else it is free.
- The limiters have no provider in `AppModule`: the engine uses them only when
  they are injected. The model has them injected.
- The step scope of the code's keys holds the execution id where a workflow id is
  expected (`ENGINE`, `executeStep`), so a step's limit is one per execution.
  The model takes the step part of a key as it comes (`StepOf`).
- The gateway counts by the pair of tenant header and client address; one value
  of `TenantOf` stands for such a pair.

### Catalog

Rows are numbered in the order of their creation, so a list runs from high
numbers to low ones. A request is one call, or a client's walk through all pages
of a list. `Verdict` is the table of `AuthorizationPolicy.can`.

| Code | Actions |
|---|---|
| `createWorkflow` | `AskCreate`, `Create`, `RecordAuditLog` |
| `updateWorkflow`, `deleteWorkflow` | `AskUpdate` or `AskDelete`, `Read` (`getWorkflowById` and the check of the policy), `Update` or `Delete`, `RecordAuditLog` |
| `getWorkflows` with `parsePaginationParams`, `buildPaginatedResult` | `AskWalk`, `Page` |

- An update writes `dto.f ?? wf.f` for every field, so it writes back what it has read.
- The audit log is written by a statement of its own, after the change.
- `written`, `overlap`, `walked` and `cut` are history: the value each field was
  last set to, the rows written by an update that had read an older state, the rows
  a walk has had there since it began, and walks whose cursor's row has gone.

### Accounts

A user is known by the email, a tenant by its number, a session by the request
that made it. Each action is one statement; the first statement of a request
belongs to its beginning.

| Code | Actions |
|---|---|
| `register` | `Register`, `FindTenant`, `CreateTenant`, `FindRole`, `CreateRole`, `CreateUser`, `RecordAuditLog`, `GenerateTokens` |
| `login` | `Login`, `RecordAuditLog`, `GenerateTokens` |
| `logout`, `revokeToken` | `Logout`, `Revoke`, two `RecordAuditLog` |
| `verifyToken` | `Verify` |
| `changeUserRole` | `ChangeUserRole`, `SetRole`, `RecordAuditLog` |
| `updateRolePermissions` | `UpdateRolePermissions`, `CreateRole`, `RecordAuditLog` |
| `updateTenant`, `createApiKey` | `UpdateTenant`, `CreateApiKey`, `RecordAuditLog` |

- Passwords are right, signatures valid, and tokens do not expire: what the
  properties tell apart is who has an account, a session and which role.
- Two tokens signed in the same second for the same user and role are the same
  string in the code; the model tells them apart by the request that made them.
- `updateRolePermissions` stores no permissions, `createApiKey` no key, in the
  code as in the model.
- `logout` takes the user from the body and the access token from the header
  (`app.module.ts:23-25`), and neither is compared with the other: `Logout` names any
  email, also one without an account, and presents the token of any session, or none.
  An empty token goes to the blacklist like any other in the code; the model leaves it
  out, since it is nobody's. The body is taken to name a user, as its type says.
- Any statement may reject, a request's first one too (`AskAndRead`, `UpdateTenant`);
  one that writes may have taken effect all the same.
- In `revokeToken` every statement's error leads to the same answer, which only
  differs in its message (`loggedOut` here, `answered` for "Token revoked
  successfully").

## 4. Runs

Deadlock checking is off in every run: a finished execution stops, a request
ends, and so does an execution that a crash has lost.

| Run | Question | Instance |
|---|---|---|
| `retry_schedule` | Is every chain of retries bounded, ended, within its delays, over at a permanent failure? | default delays; attempts 3, deferrals 2, lifetime 240 s; 18 answers, at least one of each class, with Retry-After absent, 0, 5 and 120 s |
| `engine_one_process` | Is an execution completed only with every step succeeded and, in calm, each step done once, by one run at a time? | one process, two slots, two steps, attempts 2, deferral 1, one crash, one operator, failures 400, 500 and 429 |
| `engine_recovery` | Does an execution with a job finish after the last crash, a triggered one without crash, a dead step's row ever? | one process, two slots, two steps, attempts 2, deferral 1, one crash, failures 400, 500 and 429, lifetime may run out, under fairness |
| `engine_paused` | Do rows have one run and one verdict, does the pointer never move back? | two processes, two pauses, steps 2, attempts 2; failures only by collisions and stalls |
| `engine_replay` | Does the status follow the abstract life cycle, is nothing abandoned without a crash, with operators about? | one process, two slots, one pause, two operators, two steps, attempts 1, failure 400 |
| `api_idempotency` | Do lock and memory exclude, are answers executions with a job, is an answer reused where it can be found, does every request end? Do the clients see `KeyedOperation`? | three requests, two of them in one process, each process with a Redis client or without, one trouble, under fairness |
| `limiters` | Do limits hold, do slots come back, do windows end? | three callers of two tenants and one provider, six counters with limits 1 and 2, one trouble |
| `catalog` | Are tenants and owners kept apart, deletions single, updates kept, walks complete? | three requests of three users (owner, administrator, operator of another tenant), three rows and one to come, two fields, pages of 1 and 2, one rejected statement |
| `accounts` | Is there one account per email, does a logout revoke the sessions of the user it names, is what is answered logged, do tokens carry a role the account had? | three requests, two emails, slugs and roles; one tenant, role and account at the start, one rejected statement |
| `claim_at_least_once` | at-least-once execution (`README.md:10`) | two processes, one crash: violated |
| `claim_one_executor` | no duplicate execution of a step (`README.md:98`) | one process, one crash: violated |
| `claim_idempotent_once` | one operation per key (`api-idempotency.service.ts:39`) | three requests, every process with a Redis client, no trouble: violated |

*Why these bounds are enough for the interesting cases.* Two slots are what it
takes for runs to overlap, in one process (same `workerId`) or in two. Two steps
are what it takes to skip one, to pass over one and go on, and for the pointer to
move. Two attempts give a collision and then a fresh row. Three jobs, in
`engine_one_process`, let the scanner's job coexist with a retry and a stalled one,
and its operator adds a replay, whose first attempts collide with rows that
failed before. One crash followed by a restart leaves behind an active job and a stale row; two pauses cost a run its
lock and its lease. `JobIds` and `LetterIds` bound what is alive at once: at the
bound, an `add` waits for a slot, which removes behaviours but invents none.
Two operators are what it takes to read one letter before either has marked it.
In the other four state machines three requests or callers are one more than any of the
races needs: a holder, a waiter in its process and one outside; two callers of one
tenant and one that shares only the global counters; a walk with two writers; a
registration overtaken by another while a third changes its role. One trouble is
enough for each of the paths it opens, and the proofs are for any number.

The engine's runs and `api_idempotency` use no symmetry, as `WorkerOf`,
`ProcessOf` and the order of job ids tell the actors apart. `limiters` uses the
symmetry of the two callers of one tenant, `catalog` and `accounts` that of the
requests: nothing in these instances tells them apart, and none has a liveness
property.

*What the passing runs do not say.* `CompletedMeansSucceeded` is checked and proved
for one process without pauses. With a second process it is false: this is finding 1.
With a pause it is false in a milder way: the scanner times out the row of a step
that then succeeds, and the run goes on without looking at the update's count.
`ExactlyOnceInCalm` is about calm: no crash, no pause, one replay at a time. It is
proved for any number of processes. Findings 1 and 2 are what happens to it outside.
`OrphanOnlyByCrash` and `TriggeredFinishes` are about behaviours without crashes,
because the crash windows are real: this is finding 5. `LockExcludes`,
`InFlightWithinLimits` and `WindowsHold` leave out locks and counters that lapse under a
holder, where the code has no answer, and the last two commands that reject as well.
`SlotsComeBack` is about behaviours in which nothing goes wrong. `WindowsEnd` leaves out
commands that reject, and the counter of a caller that died right between its `INCR` and
its `EXPIRE`, which does last for ever (until the concurrency limiter's next caller renews
it); a caller that dies anywhere else, with its request under way for instance, is in it,
and the slot it leaves behind has a TTL. `RetryReusesAnswer`, and the promise of
`KeyedOperation` to late requests, hold while nothing goes wrong and between requests
that share a store. With `REDIS_URL` set everywhere these are all requests. With the
settings the repository ships they are those of one process (finding 15): there, a
repeated request that another process serves runs the operation again.
`ConfirmedLogoutRevokes` is about the user that the request names. When the token
presented is another user's, that token is blacklisted, and its owner's sessions stay
live under the same answer; when none is presented, no token is blacklisted.
`TokensCarryRoleHeld` admits the role that was current when a login began.
`OnlyOverlapLosesUpdates` does not say that no update is lost: two that overlap on
one workflow lose one, even when they set different fields (`workflow.service.ts:160`).

## 5. Findings

`PROJECT.json` quotes the documentation for each. Three have a run; the others
were met on the way and are read off the code.

1. **A step can be passed over** (`ENGINE:186`, run `claim_at_least_once`). A process
   dies in a step, and its job is stalled and given to another process before the
   last heartbeat is 30 s old (a job's lock may lapse sooner than that: BullMQ
   renews it every 15 s, the heartbeat is renewed every 5 s). The second process finds the
   step RUNNING elsewhere, passes over it, executes the later steps and completes
   the execution; the step is never done. The same happens when the first process
   is only paused and its step fails later. The documentation promises
   at-least-once execution, and that the second worker aborts.
2. **The atomic claim excludes nobody** (`ENGINE:229`, run `claim_one_executor`). Each
   run claims the row it has just inserted under its own attempt number. After a
   crash the scanner's job (attempt 1) and the retry of the stalled job (attempt
   2) execute the same step at the same time.
3. **Deferrals consume attempts** (`ENGINE:218`). A deferred job keeps its attempt
   number, so its insert collides with the row of the deferred attempt; the
   database error is retried as a transient failure.
4. **Outputs of skipped steps are lost** (`ENGINE:145`). A run that starts at step 2
   has an input without step 1's output, and so has the result of the execution.
5. **A crash between a failure and its retry loses the execution** (`QUEUE:150`). The
   job is failed for BullMQ, the row is FAILED, so neither the stalled check nor
   the scanner finds anything. The same holds between the dead letter and
   `markAsFailed`, between the trigger's two writes, between the scanner's mark
   and its add, and between a replay's removal of the letter and its add.
6. **503 is not a deferral** (`CLASSIFIER:127`), unless it carries Retry-After.
7. **A replay has no clean attempts** (`QUEUE:411`). It starts at attempt 1, whose row
   exists; `docs/architecture/system-design.md:186` says otherwise.
8. **Retry-After is capped** at `maxDelayMs` (`SCHEDULER:96`); `system-design.md:139` says
   "exact delay". It is dropped altogether for a 408 and for an answer below 400.
9. **A key can run its operation twice** (`api-idempotency.service.ts:73`, run
   `claim_idempotent_once`). The record is read before the lock is taken, and not
   again: a request that found no record, and then a free lock because the first
   request has meanwhile stored and released, runs the operation again. A poll has
   the same gap between its two reads.
10. **The gateway drops the key** (`proxy.service.ts:27`). It forwards four headers,
    `idempotency-key` not among them, and gives up after 10 s, so a client's retry
    through the gateway creates another execution.
11. **The limiters count in fixed windows** (`rate-limiter.guard.ts:41`,
    `outbound-rate-limiter.ts:132`); the documentation has a sliding window, a token
    bucket and `X-RateLimit` headers. Quota consumed by a step that the concurrency
    limiter then refuses is not given back.
12. **Permissions are not stored** (`auth.service.ts:250`): `updateRolePermissions`
    answers with the list it was given and logs the update.
13. **The audit log has no reachable route** (`workflow.controller.ts:45`): `:id` is
    declared first and matches.
14. **The dashboard reads the wrong field** (`dashboard.controller.ts:194`):
    `data.services` for `data.dependencies.services`.
15. **Without `REDIS_URL` keys are per process** (`api-idempotency.service.ts:19`, `61`).
    `.env.example:21` and both compose files set only `REDIS_HOST` and `REDIS_PORT`, from
    which this service makes no client, so records are kept in the memory of each
    process: a second process, or a restart, knows nothing of them.

## 6. Fairness

Only the three liveness properties of `engine_recovery`, `ChainEnds` and
`EveryRequestEnds` assume any.
In `WorkflowEngine`, weak fairness is assumed for: the second write of a trigger; each
slot (a ready callback runs, a query ends, a request has a timeout from
`http-timeout-resolver.ts`, a worker polls its queue); each job's handler and
stalled check (BullMQ's timer); each process's scanner (every 15 s) or restart
(`docker-compose` restarts containers); and expiry of a lease. A step's request
may fail for ever: nothing forces a success. Nothing is assumed of triggers,
replays, crashes, pauses, heartbeats, the `workflow-dlq` worker or the lifetime limit.

In `RetrySchedule`, weak fairness of `Next` says that a chain does not stand
still. It may do whatever it likes otherwise, so `ChainEnds` rests on the budgets alone.

In `ApiIdempotency`, weak fairness of each request's calls says that calls answer
or reject and a poll goes on; strong fairness of `PollTimeout` says that a poll
that is in its loop again and again reaches its deadline of 5 s, which is a clock
the code reads in every round. That Redis drops a lock is not assumed: a poll ends
by its own deadline.

## 7. Proofs

All proofs are for arbitrary constants under the assumptions named in the modules
(`EngineAssumption`, `RetryBudgetAssumption`, `ScheduleAssumption`, `PowerAssumption`,
`IdempotencyAssumption`, `LimitersAssumption`, `CatalogAssumption`,
`AccountsAssumption`), which TLC evaluates in every run. `PowerAssumption` is
arithmetic, not a restriction: the powers of two that the back-off uses are positive
integers, which the provers cannot derive for a variable exponent.

| Theorem | Argument |
|---|---|
| `TypeCorrect` (in each module) | `TypeOK` with what the place of a run or request says about its other variables is inductive. One lemma per part or per group of actions; in the engine, `DecisionWithinBudgets` keeps counters in range, `RunMovesOn` the steps |
| `RowsFinishOnceHolds` | every step either leaves `rows` alone or is one of the row updates (`RowUpdates`), each of which writes one row whose status it has tested (`RowUpdateWritesOne`) |
| `OneRunPerRowHolds` | `OneRunPerRow` alone is not inductive: a run could create a row that another one, unknown to the database, already holds. `OneRunInv` adds `HeldRowsExist`: a row that a run holds is in the database. An insert succeeds only on an absent row, and rows are never removed |
| `CurrentStepNeverGoesBackHolds` | only `AdvanceCurrentStep` writes the pointer, under the condition `currentStep < stepOrder`; type correctness makes the comparison one of integers |
| `CompletedMeansSucceededHolds` | for slots of one process without pauses (`OneProcessUnpaused`, the instance of `engine_one_process` with any numbers). `CompletionInv` adds to `OneRunInv`: every step before the pointer, and before the step of a run, has succeeded, and all have when a run is past its last (`OrderOK`); the row a run is working on is as the run left it (`HeldOK`); a RUNNING row is this process's, so no run passes over it (`RunningIsOwn`); and the rows a scan has found belong to no run (`FoundOK`), so the scanner takes no row from a live run |
| `ExactlyOnceInCalmHolds` | with any number of processes. `CalmInv`: in calm, at most one thing bears the execution: a job, a letter, a replay that has removed its letter, or the trigger that has yet to enqueue (`OneBearer`). A run that works holds its job's lock, so there is one (`RunsHold`, `OneRunner`); its row is beaten, so a scan finds nothing (`RunningBeaten`, `NoScans`) and nobody times it out; so no row RUNNING is met by another run, and `HeldOK` and `OrderOK` of `CompletionInv` hold for any number of processes. `NotYetDone`: what a run is about to execute has not succeeded. Each group of actions moves the bearer on to itself or to its successor (`BearerStep`) |
| `OrphanOnlyByCrashHolds` | with any number of processes and pauses. `TendedInv`: as long as nothing has crashed, a triggered execution is completed, failed, or attended: by the trigger, by a replay about to enqueue, or by a job that is carried, which means queued, in its handler, or active with an owner that is not about to return without a verdict. Each step hands this on to itself or to a successor job. Two more facts are needed: active jobs have an owner that refers to them (`JobsOwned`), and a run past its claim is not of a pending execution (`ClaimedOK`) |
| `ImplementsLifecycleHolds` | step simulation. The invariant needed is `Untriggered`: before the trigger there is no job, letter, run or scan, so nothing but the trigger makes the abstract status leave "none". Then each group of actions maps to a named abstract move or a stutter |
| `EveryJobIsPaidForHolds`, `ChainIsBoundedHolds` | the equation `started + (1 if delayed) = attempt + deferrals` is inductive since every positive decision spends exactly one unit (`DecisionSpendsOne`); the bounds on the two counters give the bound on jobs |
| `PermanentFailureEndsChainHolds` | the classification of a permanent failure is never retried (`PermanentIsNotRetried`), so after one the chain is dead, and a dead chain has no step |
| `DelayWithinBoundsHolds`, `RetryAfterRespectedHolds` | `DelayInv` with `TypeOK`: the back-off is within the bounds (`BackoffWithinBounds`), a Retry-After survives classification (`ClassifiedRetryAfter`), so the delay chosen is bounded and honours it (`ChosenDelay`) |
| `LockExcludesHolds` | `LockInv`: without lapses, a holder implies that the lock is set and that there is one holder, so the unconditional delete can only hit its own |
| `MemoryRunsOnceHolds` | `MemoryInv`: an operation in a memory has its entry IN_PROGRESS, and there is one of them |
| `AnswersAreQueuedHolds` | `QueuedInv`: what a record, a completed memory or a request past its enqueue holds has a job |
| `RetryReusesAnswerHolds` | `ReuseInv`: while nothing fails, an answered request with the key implies a record if its process has a Redis client (`RecordInv`), else a completed memory of its process, and a late request meets in its store the one or the other first (`LateInv`) |
| `ImplementsKeyedOperationHolds` | step simulation, with `QueuedInv` and `ReuseInv` and two more. `OwnInv`: an execution just created, and any that a request without the key has created, is in no record, memory or other request's hands, so a job is added for it once and nobody is answered with a stranger's. `PolledInv`: as long as nothing goes wrong an entry of a memory does not go away, so a poll is not refused. A step that moves one request maps to a move of it (`Stays`, `Reuses`, `Stumbles`), which leaves one lemma per group of actions |
| `InFlightWithinLimitsHolds`, `WindowsHoldHolds` | a counter is at least the number of live callers counted in it (`CoverOK`), so when a counter is below its limit one more may pass (`LimitOK`); callers who gave back are in no `spent` (`WithdrawnOK`); and without lapses nobody resets a counter (`NoReset`). Cardinality facts come from `FiniteSetTheorems` |
| `SlotsComeBackHolds` | while nothing goes wrong nobody dies (`QuietOK`), and each command keeps the equation between a counter and its users |
| `WindowsEndHolds` | `StartedInv`, over all callers, dead ones included: without rejected commands, a lasting counter above zero has a caller between its `INCR` and its `EXPIRE`. A dead caller stays where it was, so either it is the exception or a live one is there |
| `TenantsApartHolds` | `CarriesOK` (a request past its check carries a row of its tenant that its user may change), `LoggedOK` and `GivenOK` for the log and the lists; a row's tenant never changes |
| `DeletedOnceHolds` | `OnceOK`: the number of requests about to log the deletion of a row plus entries of it is 1 if the row is gone, else 0 |
| `OnlyOverlapLosesUpdatesHolds` | inductive: an update that wrote onto the row it had read sets only what it was given |
| `WalkIsCompleteHolds` | `WalksFollow` says where a walk is: by cursor, what it has been given lies at or before its cursor, each row once, and no row there all along is missing from that; by skip, as long as the tenant's rows are the same, it has been given the first `skip` of them. A page is the greatest rows after the cursor (`GreatestLemma`), so it extends what has been given by what comes next; when a page is the last, nothing is left. The other requests' statements only insert, update or delete a row (`DisturbsLemma`), and `cut` records those that upset a walk (`OthersWalk`) |
| `OneAccountPerEmailHolds`, `FailsOnlyInRacesHolds` | `OwnersOK` and `MadeByOK` tie an account to the registration that made it; `RacesOK`: what a request has looked for and not found is still absent, or the request is in a race |
| `ConfirmedLogoutRevokesHolds`, `AnsweredIsLoggedHolds`, `TokensCarryRoleHeldHolds` | `LogoutOK`, `LoggedOK` and `HeldOK` say the same of a request at every place on its way; of a logout, of the token it presents and the sessions of the user it names |

*Only model-checked:* the liveness properties, which are outside what TLAPS proves
here, and the three claims, which are false. Every other property of a run is a
theorem.

## 8. Not modelled

- Database and Redis calls that fail in the workflow engine while the process
  lives. The handler, the scanner and the runs would each stop half-way; a crash
  stops all of them at once, which covers the safety of single losses but not a
  scanner that survives a failed handler. The other modules have such failures.
- Graceful shutdown: a stop is modelled as a crash. It waits for the runs but
  not for the handlers, so it loses no more than a crash does.
- `ExecutionLog`, metrics and logging: append-only, read by nobody in the service.
- The deletion of a workflow takes its executions with it, and their steps and logs
  (`onDelete: Cascade`, `prisma/schema.prisma:150`, `170`, `190`, `225`, `226`), also while
  one is running. `Catalog` deletes the row of the workflow; `WorkflowEngine` has one
  execution whose rows never go away, so the runs that then meet nothing are in neither.
- The fallback branches for a client without `updateMany`: Prisma has it, only
  test doubles do not.
- The tenant check of a replay, DLQ listings, status queries, the lists of the auth
  service (they page as those of `Catalog`): no state change.
- The day after which an idempotency record is dropped, passwords, signatures,
  expiry of tokens.
- `http-timeout-resolver.ts` and the step idempotency key: pure functions of a few
  lines. Gateway proxy, health and dashboard, notification service, the other shared
  packages: I/O and formatting without state of their own.

## 9. Plan

Done, in this order: retry policy and schedule; engine, queue, scanner and
replay in one module, since their interleavings are the system's core; the
abstract life cycle and its refinement; API idempotency and what it promises; the limiters; catalogue,
policy and pagination; accounts; and the safety of all of them, proved.

What is left:

1. `WorkflowEngine`: an action for a failing database or Redis call, and graceful
   shutdown as a gentler crash. The state space of the engine's runs leaves little
   room, so this needs a run of its own with one step or one slot.
2. The limiters composed with the engine's runs, to see a refused step deferred
   while its rate quota is gone.
