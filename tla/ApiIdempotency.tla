---------------------------- MODULE ApiIdempotency ----------------------------
(***************************************************************************)
(* processIdempotentOperation, with triggerWorkflow as its operation:      *)
(* requests that may bear one idempotency key, served by several processes.*)
(* Redis holds the record of the completed operation and a lock for the    *)
(* one in progress; each process has a memory of its own, to fall back on  *)
(* and to use from the start if it was configured without a Redis client.  *)
(*                                                                         *)
(* Every key of Redis and of the memories is made of the tenant, the scope *)
(* and the idempotency key, so one such triple is modelled.  An action is  *)
(* one Redis or database call with the local work after its answer.  The   *)
(* day after which records are dropped is not modelled.                    *)
(***************************************************************************)
EXTENDS Naturals, FiniteSets

CONSTANTS
  Requests,      \* API calls that trigger the workflow
  Processes,     \* processes of the workflow service
  ProcessOf,     \* the process that serves a request
  MaxTroubles    \* bound: rejected calls, early timeouts, early lapses and crashes

ASSUME IdempotencyAssumption ==
  /\ ProcessOf \in [Requests -> Processes]
  /\ IsFiniteSet(Requests)
  /\ MaxTroubles \in Nat

VARIABLES
  record,     \* Redis: the result in the COMPLETED record, 0 if there is none
  lock,       \* Redis: the lock key
  memory,     \* memoryStore of each process
  created,    \* how many executions have been created; they are their numbers
  queued,     \* the executions that have been given a job
  \* processIdempotentOperation, one call per request:
  pc,         \* where it is
  path,       \* how it runs the operation: under the lock, from the memory, without a key
  result,     \* the execution it has created or is answered with
  late,       \* history: it began after a request with the key was answered that it shares
              \* a store with
  \* History:
  troubles,   \* calls that rejected, polls given up and locks lapsed though the
              \* operation was still at work, crashes
  lapses,     \* the locks that lapsed among them
  clients     \* the processes with a Redis client: REDIS_URL was set when they started

world == <<troubles, lapses, clients>>
vars == <<record, lock, memory, created, queued, pc, path, result, late, world>>

NoRecord == 0
Free == "free"
Locked == "LOCKED"
Empty == [state |-> "empty", result |-> NoRecord]

TypeOK ==
  /\ record \in 0 .. created /\ lock \in {Free, Locked}
  /\ created \in Nat /\ queued \subseteq 1 .. created
  /\ memory \in [Processes ->
       [state : {"empty", "IN_PROGRESS", "COMPLETED"}, result : 0 .. created]]
  /\ pc \in [Requests ->
       {"idle", "get", "lock", "pollRecord", "pollLock", "create", "enqueue", "store",
        "release", "memory", "pollMemory", "answered", "failed", "lost"}]
  /\ path \in [Requests -> {"none", "direct", "redis", "memory"}]
  /\ result \in [Requests -> 0 .. created]
  /\ late \in [Requests -> BOOLEAN]
  /\ \A r \in Requests : pc[r] = "answered" => result[r] # NoRecord
  /\ troubles \in 0 .. MaxTroubles /\ lapses \in 0 .. MaxTroubles
  /\ clients \subseteq Processes

Init ==
  /\ record = NoRecord /\ lock = Free
  /\ memory = [p \in Processes |-> Empty]
  /\ created = 0 /\ queued = {}
  /\ pc = [r \in Requests |-> "idle"] /\ path = [r \in Requests |-> "none"]
  /\ result = [r \in Requests |-> NoRecord] /\ late = [r \in Requests |-> FALSE]
  /\ troubles = 0 /\ lapses = 0 /\ clients \in SUBSET Processes

-----------------------------------------------------------------------------
Works == UNCHANGED world
Trouble == troubles < MaxTroubles /\ troubles' = troubles + 1 /\ clients' = clients
Fails == Trouble /\ lapses' = lapses

At(r, place) == pc[r] = place
Move(r, place) == pc' = [pc EXCEPT ![r] = place]
Goto(r, place) == Move(r, place) /\ UNCHANGED <<path, result, late>>
GotoWith(r, place, execution) ==
  Move(r, place) /\ result' = [result EXCEPT ![r] = execution] /\ UNCHANGED <<path, late>>
Answer(r, execution) == GotoWith(r, "answered", execution)

\* The catch that leads from Redis to the memory of the process.
FallBack(r) ==
  /\ Move(r, "memory") /\ path' = [path EXCEPT ![r] = "memory"]
  /\ result' = [result EXCEPT ![r] = NoRecord] /\ late' = late

\* The client is made when the service is, or never; without it there is only the memory.
Connected(r) == ProcessOf[r] \in clients

\* What one request has left behind the other can find: in Redis, or in a memory.
Shares(q, r) == (Connected(q) /\ Connected(r)) \/ ProcessOf[q] = ProcessOf[r]

BeginAt(r, place, way) == Move(r, place) /\ path' = [path EXCEPT ![r] = way]
BeginKeyed(r, place, way) ==
  /\ BeginAt(r, place, way)
  /\ late' = [late EXCEPT ![r] =
       \E q \in Requests : At(q, "answered") /\ path[q] # "direct" /\ Shares(q, r)]

\* A call without the key runs the operation at once.
Begin(r) ==
  /\ At(r, "idle")
  /\ \/ Connected(r) /\ BeginKeyed(r, "get", "redis")
     \/ ~Connected(r) /\ BeginKeyed(r, "memory", "memory")
     \/ BeginAt(r, "create", "direct") /\ late' = late
  /\ Works /\ UNCHANGED <<record, lock, memory, created, queued, result>>

\* Mutant of GetRecord: the record is not looked for.
SkipRecord(r) ==
  /\ At(r, "get")
  /\ Goto(r, "lock")
  /\ Works /\ UNCHANGED <<record, lock, memory, created, queued>>

GetRecord(r) ==
  /\ At(r, "get")
  /\ \/ Works /\ record # NoRecord /\ Answer(r, record)
     \/ Works /\ record = NoRecord /\ Goto(r, "lock")
     \/ Fails /\ FallBack(r)
  /\ UNCHANGED <<record, lock, memory, created, queued>>

\* Mutant of TakeLock: SET without NX.
OverwriteLock(r) ==
  /\ At(r, "lock")
  /\ lock' = Locked /\ Goto(r, "create")
  /\ Works /\ UNCHANGED <<record, memory, created, queued>>

\* SET ... EX 30 NX.  The record is not looked at again.
TakeLock(r) ==
  /\ At(r, "lock")
  /\ \/ Works /\ lock = Free /\ lock' = Locked /\ Goto(r, "create")
     \/ Works /\ lock = Locked /\ lock' = lock /\ Goto(r, "pollRecord")
     \/ Fails /\ lock' \in {lock, Locked} /\ FallBack(r)
  /\ UNCHANGED <<record, memory, created, queued>>

\* The request is between taking the lock and deleting it.
Holder(r) == path[r] = "redis" /\ pc[r] \in {"create", "enqueue", "store", "release"}

-----------------------------------------------------------------------------
(* pollForRedisCompletion: every 50 ms for 5 s. *)

PollRecord(r) ==
  /\ At(r, "pollRecord")
  /\ \/ Works /\ record # NoRecord /\ Answer(r, record)
     \/ Works /\ record = NoRecord /\ Goto(r, "pollLock")
     \/ Fails /\ FallBack(r)
  /\ UNCHANGED <<record, lock, memory, created, queued>>

\* The lock is gone and there was no record a moment ago: the poll throws.
PollLock(r) ==
  /\ At(r, "pollLock")
  /\ \/ Works /\ lock = Locked /\ Goto(r, "pollRecord")
     \/ Works /\ lock = Free /\ FallBack(r)
     \/ Fails /\ FallBack(r)
  /\ UNCHANGED <<record, lock, memory, created, queued>>

\* Mutant of PollTimeout: the wait has no deadline.
PollForever(r) ==
  /\ At(r, "pollRecord")
  /\ Works /\ UNCHANGED <<record, lock, memory, created, queued, pc, path, result, late>>

\* Five seconds have passed: because the operation is slow, or its process dead.
PollTimeout(r) ==
  /\ At(r, "pollRecord")
  /\ IF \E q \in Requests : Holder(q) THEN Fails ELSE Works
  /\ FallBack(r)
  /\ UNCHANGED <<record, lock, memory, created, queued>>

-----------------------------------------------------------------------------
(* The operation of triggerWorkflow: create the execution, then enqueue it. *)

\* What becomes of an operation that throws: Redis' caller deletes the lock and falls
\* back, the memory's caller forgets the key and passes the error on.
OperationFails(r) ==
  /\ GotoWith(r, IF path[r] = "redis" THEN "release" ELSE "failed", NoRecord)
  /\ memory' = IF path[r] = "memory" THEN [memory EXCEPT ![ProcessOf[r]] = Empty] ELSE memory

\* ... and of one that succeeds: Redis' caller stores the record, the memory's completes
\* the entry and answers.
OperationSucceeds(r) ==
  /\ Goto(r, IF path[r] = "redis" THEN "store" ELSE "answered")
  /\ memory' = IF path[r] = "memory"
               THEN [memory EXCEPT ![ProcessOf[r]] = [state |-> "COMPLETED", result |-> result[r]]]
               ELSE memory

\* The workflow is looked up, the policy asked, the execution created.
Create(r) ==
  /\ At(r, "create")
  /\ \/ Works /\ created' = created + 1 /\ GotoWith(r, "enqueue", created + 1) /\ memory' = memory
     \/ Fails /\ created' \in {created, created + 1} /\ OperationFails(r)
  /\ UNCHANGED <<record, lock, queued>>

\* Mutant of Enqueue: the answer does not wait for the job.
EnqueueUnawaited(r) ==
  /\ At(r, "enqueue")
  /\ queued' \in {queued, queued \cup {result[r]}} /\ OperationSucceeds(r)
  /\ Works /\ UNCHANGED <<record, lock, created>>

Enqueue(r) ==
  /\ At(r, "enqueue")
  /\ \/ Works /\ queued' = queued \cup {result[r]} /\ OperationSucceeds(r)
     \/ Fails /\ queued' \in {queued, queued \cup {result[r]}} /\ OperationFails(r)
  /\ UNCHANGED <<record, lock, created>>

Store(r) ==
  /\ At(r, "store")
  /\ \/ Works /\ record' = result[r] /\ Goto(r, "release")
     \/ Fails /\ record' \in {record, result[r]} /\ GotoWith(r, "release", NoRecord)
  /\ UNCHANGED <<lock, memory, created, queued>>

\* Mutant of Release: the error of the operation is lost.
ReleaseAndReturn(r) ==
  /\ At(r, "release")
  /\ Answer(r, result[r])
  /\ lock' = Free
  /\ Works /\ UNCHANGED <<record, memory, created, queued>>

\* finally: DEL of the lock, whosever it is by now; a rejection is ignored.
Release(r) ==
  /\ At(r, "release")
  /\ IF result[r] # NoRecord THEN Goto(r, "answered") ELSE FallBack(r)
  /\ \/ Works /\ lock' = Free
     \/ Fails /\ lock' \in {lock, Free}
  /\ UNCHANGED <<record, memory, created, queued>>

-----------------------------------------------------------------------------
(* processInMemory and pollInMemory. *)

\* Mutant of EnterMemory: an operation in progress is not seen.
EnterMemoryAnyhow(r) ==
  LET mine == memory[ProcessOf[r]]
  IN  /\ At(r, "memory")
      /\ IF mine.state = "COMPLETED" THEN Answer(r, mine.result) /\ memory' = memory
         ELSE /\ Goto(r, "create")
              /\ memory' = [memory EXCEPT ![ProcessOf[r]] = [Empty EXCEPT !.state = "IN_PROGRESS"]]
      /\ Works /\ UNCHANGED <<record, lock, created, queued>>

EnterMemory(r) ==
  LET mine == memory[ProcessOf[r]]
  IN  /\ At(r, "memory")
      /\ \/ mine.state = "COMPLETED" /\ Answer(r, mine.result) /\ memory' = memory
         \/ mine.state = "IN_PROGRESS" /\ Goto(r, "pollMemory") /\ memory' = memory
         \/ /\ mine.state = "empty" /\ Goto(r, "create")
            /\ memory' = [memory EXCEPT ![ProcessOf[r]] = [Empty EXCEPT !.state = "IN_PROGRESS"]]
      /\ Works /\ UNCHANGED <<record, lock, created, queued>>

\* Mutant of PollMemory: it looks once and does not wait.
PollMemoryOnce(r) ==
  LET mine == memory[ProcessOf[r]]
  IN  /\ At(r, "pollMemory")
      /\ \/ mine.state = "COMPLETED" /\ Answer(r, mine.result)
         \/ mine.state # "COMPLETED" /\ Goto(r, "failed")
      /\ Works /\ UNCHANGED <<record, lock, memory, created, queued>>

PollMemory(r) ==
  LET mine == memory[ProcessOf[r]]
  IN  /\ At(r, "pollMemory")
      /\ \/ Works /\ mine.state = "COMPLETED" /\ Answer(r, mine.result)
         \/ Works /\ mine.state = "empty" /\ Goto(r, "failed")
         \/ Fails /\ mine.state = "IN_PROGRESS" /\ Goto(r, "failed")
      /\ UNCHANGED <<record, lock, memory, created, queued>>

-----------------------------------------------------------------------------
(* Time and crashes. *)

\* Thirty seconds: the holder is slow, or there is none.
LockLapses ==
  /\ lock = Locked /\ lock' = Free
  /\ IF \E r \in Requests : Holder(r) THEN Trouble /\ lapses' = lapses + 1 ELSE Works
  /\ UNCHANGED <<record, memory, created, queued, pc, path, result, late>>

Ended == {"answered", "failed", "lost"}

Crash(p) ==
  /\ Fails
  /\ memory' = [memory EXCEPT ![p] = Empty]
  /\ pc' = [r \in Requests |->
             IF ProcessOf[r] = p /\ pc[r] \notin Ended \cup {"idle"} THEN "lost" ELSE pc[r]]
  /\ UNCHANGED <<record, lock, created, queued, path, result, late>>

-----------------------------------------------------------------------------
ProcessIdempotentOperation(r) ==
  \/ GetRecord(r) \/ TakeLock(r) \/ PollRecord(r) \/ PollLock(r) \/ PollTimeout(r)
  \/ Create(r) \/ Enqueue(r) \/ Store(r) \/ Release(r) \/ EnterMemory(r) \/ PollMemory(r)

Next ==
  \/ \E r \in Requests : Begin(r) \/ ProcessIdempotentOperation(r)
  \/ LockLapses
  \/ \E p \in Processes : Crash(p)

Spec == Init /\ [][Next]_vars

\* Calls answer or reject, and the clock of a poll runs on: a poll that goes on and on
\* reaches its deadline.  That Redis drops a lock is not assumed.
Fairness == \A r \in Requests :
  WF_vars(ProcessIdempotentOperation(r)) /\ SF_vars(PollTimeout(r))
FairSpec == Spec /\ Fairness

-----------------------------------------------------------------------------
(* Properties. *)

\* As long as no lock lapses under its holder, the operation is never run twice at
\* the same time under the lock, whatever calls reject and whatever processes die: the
\* DEL of `finally', which does not look whose lock it is, deletes no other's.
LockExcludes ==
  lapses = 0 => \A q, r \in Requests : Holder(q) /\ Holder(r) => q = r

\* In one process, the memory admits one operation at a time, and none once an
\* operation has succeeded there (check and set without an await between them).
InMemory(r) == path[r] = "memory" /\ pc[r] \in {"create", "enqueue"}
MemoryRunsOnce ==
  \A r \in Requests : InMemory(r) =>
    /\ memory[ProcessOf[r]].state # "COMPLETED"
    /\ \A q \in Requests : InMemory(q) /\ ProcessOf[q] = ProcessOf[r] => q = r

\* A request is answered only with an execution that has a job, also when it is
\* answered from a record, from the memory or after a failure of the first attempt.
AnswersAreQueued ==
  \A r \in Requests : At(r, "answered") => result[r] \in queued

\* A client that has its answer may send the request again: while nothing fails and
\* nothing is slow, a request that begins after another one with the key was answered
\* does not run the operation, provided the two share a store: Redis, if both processes
\* have a client, or else the memory of one process. Two processes without REDIS_URL
\* share none (api-idempotency.service.ts:19, 61), and nothing is promised between them.
Healthy == troubles = 0
RetryReusesAnswer ==
  Healthy => \A r \in Requests : late[r] => pc[r] \notin {"create", "enqueue"}

\* api-idempotency.service.ts:39-43: a public mutation is executed idempotently, and
\* a concurrent request waits for the one in progress. Nothing fails here, and every
\* process has its Redis client.
OncePerKey ==
  Healthy /\ clients = Processes /\ (\A r \in Requests : path[r] # "direct") => created <= 1

\* Seen by the clients, all of this is KeyedOperation: records, memories, retries and
\* falls from Redis to the memory confuse nobody's execution with another's, refuse
\* nobody, add no second job for a request and none for one that comes after an answer
\* it can be given again, unless something has gone wrong. Whose answers those are
\* (peers) depends on REDIS_URL, as for RetryReusesAnswer.
Stage(r) ==
  CASE At(r, "idle") -> "new"
    [] At(r, "answered") -> "answered"
    [] pc[r] \in {"failed", "lost"} -> "refused"
    [] pc[r] \in {"store", "release"} /\ result[r] # NoRecord -> "served"
    [] OTHER -> "begun"
Given(r) == IF Stage(r) \in {"served", "answered"} THEN result[r] ELSE NoRecord
Keyed == {r \in Requests : path[r] \in {"redis", "memory"}}
Operation ==
  INSTANCE KeyedOperation WITH
    stage <- [r \in Requests |-> Stage(r)], answer <- [r \in Requests |-> Given(r)],
    keyed <- Keyed, late <- {r \in Requests : late[r]}, troubled <- ~Healthy,
    peers <- [r \in Requests |-> {q \in Requests : Shares(q, r)}]
ImplementsKeyedOperation == Operation!Spec

\* Every request is answered or refused, or lost with its process: no poll waits for
\* ever for an operation that has failed, or whose process has died with the lock.
EveryRequestEnds ==
  \A r \in Requests : (pc[r] # "idle") ~> (pc[r] \in Ended)
=============================================================================
