------------------------- MODULE ApiIdempotencyProofs -------------------------
(***************************************************************************)
(* Theorems about ApiIdempotency, for all sets of requests and processes   *)
(* and any number of rejected calls, lapsed locks and crashes.             *)
(***************************************************************************)
EXTENDS ApiIdempotency, TLAPS

\* The type invariant in parts, with what keeps the results executions.
WorldOK ==
  /\ troubles \in 0 .. MaxTroubles /\ lapses \in 0 .. MaxTroubles /\ lapses <= troubles
  /\ clients \subseteq Processes

CallsOK ==
  /\ pc \in [Requests ->
       {"idle", "get", "lock", "pollRecord", "pollLock", "create", "enqueue", "store",
        "release", "memory", "pollMemory", "answered", "failed", "lost"}]
  /\ path \in [Requests -> {"none", "direct", "redis", "memory"}]
  /\ late \in [Requests -> BOOLEAN]
  /\ \A r \in Requests :
       /\ pc[r] \in {"get", "lock", "pollRecord", "pollLock", "store", "release"} => path[r] = "redis"
       /\ pc[r] \in {"memory", "pollMemory"} => path[r] = "memory"

DataOK ==
  /\ created \in Nat /\ record \in 0 .. created /\ lock \in {Free, Locked}
  /\ result \in [Requests -> 0 .. created]

QueueOK == queued \subseteq 1 .. created

MemoryOK ==
  memory \in [Processes ->
    [state : {"empty", "IN_PROGRESS", "COMPLETED"}, result : 0 .. created]]

ResultsOK ==
  /\ \A r \in Requests : pc[r] \in {"enqueue", "store", "answered"} => result[r] # NoRecord
  /\ \A p \in Processes : memory[p].state = "COMPLETED" => memory[p].result # NoRecord

TypeInv == WorldOK /\ CallsOK /\ DataOK /\ QueueOK /\ MemoryOK /\ ResultsOK

LEMMA TypeInit == Init => TypeInv
  BY IdempotencyAssumption
  DEF Init, TypeInv, WorldOK, CallsOK, DataOK, QueueOK, MemoryOK, ResultsOK, Empty,
      NoRecord, Free, Locked

\* No step outruns the bound.
LEMMA WorldStep == WorldOK /\ [Next]_vars => WorldOK'
<1> SUFFICES ASSUME WorldOK, [Next]_vars PROVE WorldOK' OBVIOUS
<1> USE IdempotencyAssumption DEF WorldOK
<1>1. ASSUME NEW r \in Requests, Begin(r) PROVE WorldOK'
  BY <1>1 DEF Begin, Works, world
<1>2. ASSUME NEW r \in Requests, GetRecord(r) PROVE WorldOK'
  BY <1>2 DEF GetRecord, Works, Fails, Trouble, world
<1>3. ASSUME NEW r \in Requests, TakeLock(r) PROVE WorldOK'
  BY <1>3 DEF TakeLock, Works, Fails, Trouble, world
<1>4. ASSUME NEW r \in Requests, PollRecord(r) PROVE WorldOK'
  BY <1>4 DEF PollRecord, Works, Fails, Trouble, world
<1>5. ASSUME NEW r \in Requests, PollLock(r) PROVE WorldOK'
  BY <1>5 DEF PollLock, Works, Fails, Trouble, world
<1>6. ASSUME NEW r \in Requests, PollTimeout(r) PROVE WorldOK'
  BY <1>6 DEF PollTimeout, Works, Fails, Trouble, world
<1>7. ASSUME NEW r \in Requests, Create(r) PROVE WorldOK'
  BY <1>7 DEF Create, Works, Fails, Trouble, world
<1>8. ASSUME NEW r \in Requests, Enqueue(r) PROVE WorldOK'
  BY <1>8 DEF Enqueue, Works, Fails, Trouble, world
<1>9. ASSUME NEW r \in Requests, Store(r) PROVE WorldOK'
  BY <1>9 DEF Store, Works, Fails, Trouble, world
<1>10. ASSUME NEW r \in Requests, Release(r) PROVE WorldOK'
  BY <1>10 DEF Release, Works, Fails, Trouble, world
<1>11. ASSUME NEW r \in Requests, EnterMemory(r) PROVE WorldOK'
  BY <1>11 DEF EnterMemory, Works, world
<1>12. ASSUME NEW r \in Requests, PollMemory(r) PROVE WorldOK'
  BY <1>12 DEF PollMemory, Works, Fails, Trouble, world
<1>13. CASE LockLapses BY <1>13 DEF LockLapses, Works, Trouble, world
<1>14. ASSUME NEW p \in Processes, Crash(p) PROVE WorldOK'
  BY <1>14 DEF Crash, Fails, Trouble
<1>15. CASE UNCHANGED vars BY <1>15 DEF vars, world
<1> QED
  BY <1>1, <1>2, <1>3, <1>4, <1>5, <1>6, <1>7, <1>8, <1>9, <1>10, <1>11, <1>12, <1>13, <1>14, <1>15 DEF Next, ProcessIdempotentOperation

\* A call stays at one of its places.
LEMMA CallsStep == CallsOK /\ [Next]_vars => CallsOK'
<1> SUFFICES ASSUME CallsOK, [Next]_vars PROVE CallsOK' OBVIOUS
<1> USE DEF CallsOK
<1>1. ASSUME NEW r \in Requests, Begin(r) PROVE CallsOK'
  BY <1>1 DEF Begin, At, BeginKeyed, BeginAt, Move
<1>2. ASSUME NEW r \in Requests, GetRecord(r) PROVE CallsOK'
  BY <1>2 DEF GetRecord, At, Goto, Answer, FallBack, GotoWith, Move
<1>3. ASSUME NEW r \in Requests, TakeLock(r) PROVE CallsOK'
  BY <1>3 DEF TakeLock, At, Goto, FallBack, Move
<1>4. ASSUME NEW r \in Requests, PollRecord(r) PROVE CallsOK'
  BY <1>4 DEF PollRecord, At, Goto, Answer, FallBack, GotoWith, Move
<1>5. ASSUME NEW r \in Requests, PollLock(r) PROVE CallsOK'
  BY <1>5 DEF PollLock, At, Goto, FallBack, Move
<1>6. ASSUME NEW r \in Requests, PollTimeout(r) PROVE CallsOK'
  BY <1>6 DEF PollTimeout, At, FallBack, Move
<1>7. ASSUME NEW r \in Requests, Create(r) PROVE CallsOK'
  BY <1>7 DEF Create, At, OperationFails, GotoWith, Move
<1>8. ASSUME NEW r \in Requests, Enqueue(r) PROVE CallsOK'
  BY <1>8 DEF Enqueue, At, OperationSucceeds, OperationFails, Goto, GotoWith, Move
<1>9. ASSUME NEW r \in Requests, Store(r) PROVE CallsOK'
  BY <1>9 DEF Store, At, Goto, GotoWith, Move
<1>10. ASSUME NEW r \in Requests, Release(r) PROVE CallsOK'
  BY <1>10 DEF Release, At, Goto, FallBack, Move
<1>11. ASSUME NEW r \in Requests, EnterMemory(r) PROVE CallsOK'
  BY <1>11 DEF EnterMemory, At, Goto, Answer, GotoWith, Move
<1>12. ASSUME NEW r \in Requests, PollMemory(r) PROVE CallsOK'
  BY <1>12 DEF PollMemory, At, Goto, Answer, GotoWith, Move
<1>13. CASE LockLapses BY <1>13 DEF LockLapses
<1>14. ASSUME NEW p \in Processes, Crash(p) PROVE CallsOK'
  BY <1>14 DEF Crash, Ended
<1>15. CASE UNCHANGED vars BY <1>15 DEF vars
<1> QED
  BY <1>1, <1>2, <1>3, <1>4, <1>5, <1>6, <1>7, <1>8, <1>9, <1>10, <1>11, <1>12, <1>13, <1>14, <1>15 DEF Next, ProcessIdempotentOperation

\* Records and results are executions that have been created.
LEMMA DataStep == CallsOK /\ MemoryOK /\ ResultsOK /\ DataOK /\ [Next]_vars => DataOK'
<1> SUFFICES ASSUME CallsOK, MemoryOK, ResultsOK, DataOK, [Next]_vars PROVE DataOK' OBVIOUS
<1> USE IdempotencyAssumption DEF CallsOK, DataOK, MemoryOK, ResultsOK, NoRecord, Free, Locked
<1>1. ASSUME NEW r \in Requests, Begin(r) PROVE DataOK'
  BY <1>1 DEF Begin, At, BeginKeyed, BeginAt, Move
<1>2. ASSUME NEW r \in Requests, GetRecord(r) PROVE DataOK'
  BY <1>2 DEF GetRecord, At, Goto, Answer, FallBack, GotoWith, Move
<1>3. ASSUME NEW r \in Requests, TakeLock(r) PROVE DataOK'
  BY <1>3 DEF TakeLock, At, Goto, FallBack, Move
<1>4. ASSUME NEW r \in Requests, PollRecord(r) PROVE DataOK'
  BY <1>4 DEF PollRecord, At, Goto, Answer, FallBack, GotoWith, Move
<1>5. ASSUME NEW r \in Requests, PollLock(r) PROVE DataOK'
  BY <1>5 DEF PollLock, At, Goto, FallBack, Move
<1>6. ASSUME NEW r \in Requests, PollTimeout(r) PROVE DataOK'
  BY <1>6 DEF PollTimeout, At, FallBack, Move
<1>7. ASSUME NEW r \in Requests, Create(r) PROVE DataOK'
  <2>1. CASE created' = created + 1 /\ GotoWith(r, "enqueue", created + 1) /\ memory' = memory
    BY <1>7, <2>1 DEF Create, At, GotoWith, Move
  <2>2. CASE created' \in {created, created + 1} /\ OperationFails(r) /\ path[r] = "memory"
    BY <1>7, <2>2 DEF Create, At, OperationFails, GotoWith, Move, Empty
  <2>3. CASE created' \in {created, created + 1} /\ OperationFails(r) /\ path[r] # "memory"
    BY <1>7, <2>3 DEF Create, At, OperationFails, GotoWith, Move
  <2> QED BY <1>7, <2>1, <2>2, <2>3 DEF Create
<1>8. ASSUME NEW r \in Requests, Enqueue(r) PROVE DataOK'
  BY <1>8 DEF Enqueue, At, OperationSucceeds, OperationFails, Goto, GotoWith, Move, Empty
<1>9. ASSUME NEW r \in Requests, Store(r) PROVE DataOK'
  BY <1>9 DEF Store, At, Goto, GotoWith, Move
<1>10. ASSUME NEW r \in Requests, Release(r) PROVE DataOK'
  BY <1>10 DEF Release, At, Goto, FallBack, Move
<1>11. ASSUME NEW r \in Requests, EnterMemory(r) PROVE DataOK'
  <2> DEFINE mine == memory[ProcessOf[r]]
  <2>1. CASE mine.state = "COMPLETED" /\ Answer(r, mine.result) /\ memory' = memory
    BY <1>11, <2>1 DEF EnterMemory, At, Answer, GotoWith, Move
  <2>2. CASE mine.state = "IN_PROGRESS" /\ Goto(r, "pollMemory") /\ memory' = memory
    BY <1>11, <2>2 DEF EnterMemory, At, Goto, Move
  <2>3. CASE /\ mine.state = "empty" /\ Goto(r, "create")
             /\ memory' = [memory EXCEPT ![ProcessOf[r]] = [Empty EXCEPT !.state = "IN_PROGRESS"]]
    BY <1>11, <2>3 DEF EnterMemory, At, Goto, Move, Empty
  <2> QED BY <1>11, <2>1, <2>2, <2>3 DEF EnterMemory
<1>12. ASSUME NEW r \in Requests, PollMemory(r) PROVE DataOK'
  BY <1>12 DEF PollMemory, At, Goto, Answer, GotoWith, Move
<1>13. CASE LockLapses BY <1>13 DEF LockLapses
<1>14. ASSUME NEW p \in Processes, Crash(p) PROVE DataOK'
  BY <1>14 DEF Crash, Ended, Empty
<1>15. CASE UNCHANGED vars BY <1>15 DEF vars
<1> QED
  BY <1>1, <1>2, <1>3, <1>4, <1>5, <1>6, <1>7, <1>8, <1>9, <1>10, <1>11, <1>12, <1>13, <1>14, <1>15 DEF Next, ProcessIdempotentOperation

\* Jobs are of executions that have been created.
LEMMA QueueStep == DataOK /\ ResultsOK /\ QueueOK /\ [Next]_vars => QueueOK'
<1> SUFFICES ASSUME DataOK, ResultsOK, QueueOK, [Next]_vars PROVE QueueOK' OBVIOUS
<1> USE IdempotencyAssumption DEF DataOK, QueueOK, ResultsOK, NoRecord
<1>1. ASSUME NEW r \in Requests, Begin(r) PROVE QueueOK'
  BY <1>1 DEF Begin
<1>2. ASSUME NEW r \in Requests, GetRecord(r) PROVE QueueOK'
  BY <1>2 DEF GetRecord
<1>3. ASSUME NEW r \in Requests, TakeLock(r) PROVE QueueOK'
  BY <1>3 DEF TakeLock
<1>4. ASSUME NEW r \in Requests, PollRecord(r) PROVE QueueOK'
  BY <1>4 DEF PollRecord
<1>5. ASSUME NEW r \in Requests, PollLock(r) PROVE QueueOK'
  BY <1>5 DEF PollLock
<1>6. ASSUME NEW r \in Requests, PollTimeout(r) PROVE QueueOK'
  BY <1>6 DEF PollTimeout
<1>7. ASSUME NEW r \in Requests, Create(r) PROVE QueueOK'
  BY <1>7 DEF Create
<1>8. ASSUME NEW r \in Requests, Enqueue(r) PROVE QueueOK'
  <2>1. result[r] \in 1 .. created /\ created' = created BY <1>8 DEF Enqueue, At
  <2>2. queued' = queued \/ queued' = queued \cup {result[r]} BY <1>8 DEF Enqueue
  <2> QED BY <2>1, <2>2
<1>9. ASSUME NEW r \in Requests, Store(r) PROVE QueueOK'
  BY <1>9 DEF Store
<1>10. ASSUME NEW r \in Requests, Release(r) PROVE QueueOK'
  BY <1>10 DEF Release
<1>11. ASSUME NEW r \in Requests, EnterMemory(r) PROVE QueueOK'
  BY <1>11 DEF EnterMemory
<1>12. ASSUME NEW r \in Requests, PollMemory(r) PROVE QueueOK'
  BY <1>12 DEF PollMemory
<1>13. CASE LockLapses BY <1>13 DEF LockLapses
<1>14. ASSUME NEW p \in Processes, Crash(p) PROVE QueueOK'
  BY <1>14 DEF Crash
<1>15. CASE UNCHANGED vars BY <1>15 DEF vars
<1> QED
  BY <1>1, <1>2, <1>3, <1>4, <1>5, <1>6, <1>7, <1>8, <1>9, <1>10, <1>11, <1>12, <1>13, <1>14, <1>15 DEF Next, ProcessIdempotentOperation

\* The entries of a memory are executions that have been created.
LEMMA MemoryTypeStep == CallsOK /\ DataOK /\ MemoryOK /\ [Next]_vars => MemoryOK'
<1> SUFFICES ASSUME CallsOK, DataOK, MemoryOK, [Next]_vars PROVE MemoryOK' OBVIOUS
<1> USE IdempotencyAssumption DEF CallsOK, DataOK, MemoryOK, NoRecord
<1>1. ASSUME NEW r \in Requests, Begin(r) PROVE MemoryOK'
  BY <1>1 DEF Begin, At, BeginKeyed, BeginAt, Move
<1>2. ASSUME NEW r \in Requests, GetRecord(r) PROVE MemoryOK'
  BY <1>2 DEF GetRecord, At, Goto, Answer, FallBack, GotoWith, Move
<1>3. ASSUME NEW r \in Requests, TakeLock(r) PROVE MemoryOK'
  BY <1>3 DEF TakeLock, At, Goto, FallBack, Move
<1>4. ASSUME NEW r \in Requests, PollRecord(r) PROVE MemoryOK'
  BY <1>4 DEF PollRecord, At, Goto, Answer, FallBack, GotoWith, Move
<1>5. ASSUME NEW r \in Requests, PollLock(r) PROVE MemoryOK'
  BY <1>5 DEF PollLock, At, Goto, FallBack, Move
<1>6. ASSUME NEW r \in Requests, PollTimeout(r) PROVE MemoryOK'
  BY <1>6 DEF PollTimeout, At, FallBack, Move
<1>7. ASSUME NEW r \in Requests, Create(r) PROVE MemoryOK'
  <2>1. CASE created' = created + 1 /\ GotoWith(r, "enqueue", created + 1) /\ memory' = memory
    BY <1>7, <2>1 DEF Create, At, GotoWith, Move
  <2>2. CASE created' \in {created, created + 1} /\ OperationFails(r) /\ path[r] = "memory"
    BY <1>7, <2>2 DEF Create, At, OperationFails, GotoWith, Move, Empty
  <2>3. CASE created' \in {created, created + 1} /\ OperationFails(r) /\ path[r] # "memory"
    BY <1>7, <2>3 DEF Create, At, OperationFails, GotoWith, Move
  <2> QED BY <1>7, <2>1, <2>2, <2>3 DEF Create
<1>8. ASSUME NEW r \in Requests, Enqueue(r) PROVE MemoryOK'
  <2>1. CASE queued' = queued \cup {result[r]} /\ OperationSucceeds(r) /\ path[r] = "memory"
    BY <1>8, <2>1 DEF Enqueue, At, OperationSucceeds, Goto, Move
  <2>2. CASE queued' = queued \cup {result[r]} /\ OperationSucceeds(r) /\ path[r] # "memory"
    BY <1>8, <2>2 DEF Enqueue, At, OperationSucceeds, Goto, Move
  <2>3. CASE queued' \in {queued, queued \cup {result[r]}} /\ OperationFails(r) /\ path[r] = "memory"
    BY <1>8, <2>3 DEF Enqueue, At, OperationFails, GotoWith, Move, Empty
  <2>4. CASE queued' \in {queued, queued \cup {result[r]}} /\ OperationFails(r) /\ path[r] # "memory"
    BY <1>8, <2>4 DEF Enqueue, At, OperationFails, GotoWith, Move
  <2> QED BY <1>8, <2>1, <2>2, <2>3, <2>4 DEF Enqueue
<1>9. ASSUME NEW r \in Requests, Store(r) PROVE MemoryOK'
  BY <1>9 DEF Store, At, Goto, GotoWith, Move
<1>10. ASSUME NEW r \in Requests, Release(r) PROVE MemoryOK'
  BY <1>10 DEF Release, At, Goto, FallBack, Move
<1>11. ASSUME NEW r \in Requests, EnterMemory(r) PROVE MemoryOK'
  <2> DEFINE mine == memory[ProcessOf[r]]
  <2>1. CASE mine.state = "COMPLETED" /\ Answer(r, mine.result) /\ memory' = memory
    BY <1>11, <2>1 DEF EnterMemory, At, Answer, GotoWith, Move
  <2>2. CASE mine.state = "IN_PROGRESS" /\ Goto(r, "pollMemory") /\ memory' = memory
    BY <1>11, <2>2 DEF EnterMemory, At, Goto, Move
  <2>3. CASE /\ mine.state = "empty" /\ Goto(r, "create")
             /\ memory' = [memory EXCEPT ![ProcessOf[r]] = [Empty EXCEPT !.state = "IN_PROGRESS"]]
    BY <1>11, <2>3 DEF EnterMemory, At, Goto, Move, Empty
  <2> QED BY <1>11, <2>1, <2>2, <2>3 DEF EnterMemory
<1>12. ASSUME NEW r \in Requests, PollMemory(r) PROVE MemoryOK'
  BY <1>12 DEF PollMemory, At, Goto, Answer, GotoWith, Move
<1>13. CASE LockLapses BY <1>13 DEF LockLapses
<1>14. ASSUME NEW p \in Processes, Crash(p) PROVE MemoryOK'
  BY <1>14 DEF Crash, Ended, Empty
<1>15. CASE UNCHANGED vars BY <1>15 DEF vars
<1> QED
  BY <1>1, <1>2, <1>3, <1>4, <1>5, <1>6, <1>7, <1>8, <1>9, <1>10, <1>11, <1>12, <1>13, <1>14, <1>15 DEF Next, ProcessIdempotentOperation

\* Where a call is to use a result, it has one.
LEMMA ResultsStep == CallsOK /\ DataOK /\ MemoryOK /\ ResultsOK /\ [Next]_vars => ResultsOK'
<1> SUFFICES ASSUME CallsOK, DataOK, MemoryOK, ResultsOK, [Next]_vars PROVE ResultsOK' OBVIOUS
<1> USE IdempotencyAssumption DEF CallsOK, DataOK, MemoryOK, ResultsOK, NoRecord
<1>1. ASSUME NEW r \in Requests, Begin(r) PROVE ResultsOK'
  BY <1>1 DEF Begin, At, BeginKeyed, BeginAt, Move
<1>2. ASSUME NEW r \in Requests, GetRecord(r) PROVE ResultsOK'
  BY <1>2 DEF GetRecord, At, Goto, Answer, FallBack, GotoWith, Move
<1>3. ASSUME NEW r \in Requests, TakeLock(r) PROVE ResultsOK'
  BY <1>3 DEF TakeLock, At, Goto, FallBack, Move
<1>4. ASSUME NEW r \in Requests, PollRecord(r) PROVE ResultsOK'
  BY <1>4 DEF PollRecord, At, Goto, Answer, FallBack, GotoWith, Move
<1>5. ASSUME NEW r \in Requests, PollLock(r) PROVE ResultsOK'
  BY <1>5 DEF PollLock, At, Goto, FallBack, Move
<1>6. ASSUME NEW r \in Requests, PollTimeout(r) PROVE ResultsOK'
  BY <1>6 DEF PollTimeout, At, FallBack, Move
<1>7. ASSUME NEW r \in Requests, Create(r) PROVE ResultsOK'
  <2>1. CASE created' = created + 1 /\ GotoWith(r, "enqueue", created + 1) /\ memory' = memory
    BY <1>7, <2>1 DEF Create, At, GotoWith, Move
  <2>2. CASE created' \in {created, created + 1} /\ OperationFails(r) /\ path[r] = "memory"
    BY <1>7, <2>2 DEF Create, At, OperationFails, GotoWith, Move, Empty
  <2>3. CASE created' \in {created, created + 1} /\ OperationFails(r) /\ path[r] # "memory"
    BY <1>7, <2>3 DEF Create, At, OperationFails, GotoWith, Move
  <2> QED BY <1>7, <2>1, <2>2, <2>3 DEF Create
<1>8. ASSUME NEW r \in Requests, Enqueue(r) PROVE ResultsOK'
  <2>1. CASE queued' = queued \cup {result[r]} /\ OperationSucceeds(r) /\ path[r] = "memory"
    BY <1>8, <2>1 DEF Enqueue, At, OperationSucceeds, Goto, Move
  <2>2. CASE queued' = queued \cup {result[r]} /\ OperationSucceeds(r) /\ path[r] # "memory"
    BY <1>8, <2>2 DEF Enqueue, At, OperationSucceeds, Goto, Move
  <2>3. CASE queued' \in {queued, queued \cup {result[r]}} /\ OperationFails(r) /\ path[r] = "memory"
    BY <1>8, <2>3 DEF Enqueue, At, OperationFails, GotoWith, Move, Empty
  <2>4. CASE queued' \in {queued, queued \cup {result[r]}} /\ OperationFails(r) /\ path[r] # "memory"
    BY <1>8, <2>4 DEF Enqueue, At, OperationFails, GotoWith, Move
  <2> QED BY <1>8, <2>1, <2>2, <2>3, <2>4 DEF Enqueue
<1>9. ASSUME NEW r \in Requests, Store(r) PROVE ResultsOK'
  BY <1>9 DEF Store, At, Goto, GotoWith, Move
<1>10. ASSUME NEW r \in Requests, Release(r) PROVE ResultsOK'
  BY <1>10 DEF Release, At, Goto, FallBack, Move
<1>11. ASSUME NEW r \in Requests, EnterMemory(r) PROVE ResultsOK'
  <2> DEFINE mine == memory[ProcessOf[r]]
  <2>1. CASE mine.state = "COMPLETED" /\ Answer(r, mine.result) /\ memory' = memory
    BY <1>11, <2>1 DEF EnterMemory, At, Answer, GotoWith, Move
  <2>2. CASE mine.state = "IN_PROGRESS" /\ Goto(r, "pollMemory") /\ memory' = memory
    BY <1>11, <2>2 DEF EnterMemory, At, Goto, Move
  <2>3. CASE /\ mine.state = "empty" /\ Goto(r, "create")
             /\ memory' = [memory EXCEPT ![ProcessOf[r]] = [Empty EXCEPT !.state = "IN_PROGRESS"]]
    BY <1>11, <2>3 DEF EnterMemory, At, Goto, Move, Empty
  <2> QED BY <1>11, <2>1, <2>2, <2>3 DEF EnterMemory
<1>12. ASSUME NEW r \in Requests, PollMemory(r) PROVE ResultsOK'
  BY <1>12 DEF PollMemory, At, Goto, Answer, GotoWith, Move
<1>13. CASE LockLapses BY <1>13 DEF LockLapses
<1>14. ASSUME NEW p \in Processes, Crash(p) PROVE ResultsOK'
  BY <1>14 DEF Crash, Ended, Empty
<1>15. CASE UNCHANGED vars BY <1>15 DEF vars
<1> QED
  BY <1>1, <1>2, <1>3, <1>4, <1>5, <1>6, <1>7, <1>8, <1>9, <1>10, <1>11, <1>12, <1>13, <1>14, <1>15 DEF Next, ProcessIdempotentOperation

LEMMA TypeAlways == Spec => []TypeInv
<1>1. TypeInv /\ [Next]_vars => TypeInv'
  BY WorldStep, CallsStep, DataStep, QueueStep, MemoryTypeStep, ResultsStep DEF TypeInv
<1> QED BY <1>1, TypeInit, PTL DEF Spec

\* Type correctness; in particular a request is answered only with an execution.
THEOREM TypeCorrect == Spec => []TypeOK
<1>1. TypeInv => TypeOK 
  BY DEF TypeInv, WorldOK, CallsOK, DataOK, QueueOK, MemoryOK, ResultsOK, TypeOK
<1> QED BY <1>1, TypeAlways, PTL

\* While no lock has lapsed under its holder, a holder's lock exists and is its own.
LockInv == lapses = 0 =>
  /\ \A r \in Requests : Holder(r) => lock = Locked
  /\ \A q, r \in Requests : Holder(q) /\ Holder(r) => q = r

LEMMA LockInit == Init => LockInv
  BY DEF Init, LockInv, Holder, Free, Locked

\* A lock is taken only when there is none and deleted only by its holder.
LEMMA LockStep == WorldOK /\ CallsOK /\ LockInv /\ [Next]_vars => LockInv'
<1> SUFFICES ASSUME WorldOK, CallsOK, LockInv, [Next]_vars PROVE LockInv' OBVIOUS
<1> USE IdempotencyAssumption DEF WorldOK, CallsOK, LockInv, Holder, Free, Locked
<1>1. ASSUME NEW r \in Requests, Begin(r) PROVE LockInv'
  BY <1>1 DEF Begin, At, BeginKeyed, BeginAt, Works, Move, world
<1>2. ASSUME NEW r \in Requests, GetRecord(r) PROVE LockInv'
  BY <1>2 DEF GetRecord, At, Goto, Answer, FallBack, Works, Fails, GotoWith, Move, Trouble, world
<1>3. ASSUME NEW r \in Requests, TakeLock(r) PROVE LockInv'
  BY <1>3 DEF TakeLock, At, Goto, FallBack, Works, Fails, Move, Trouble, world
<1>4. ASSUME NEW r \in Requests, PollRecord(r) PROVE LockInv'
  BY <1>4 DEF PollRecord, At, Goto, Answer, FallBack, Works, Fails, GotoWith, Move, Trouble, world
<1>5. ASSUME NEW r \in Requests, PollLock(r) PROVE LockInv'
  BY <1>5 DEF PollLock, At, Goto, FallBack, Works, Fails, Move, Trouble, world
<1>6. ASSUME NEW r \in Requests, PollTimeout(r) PROVE LockInv'
  BY <1>6 DEF PollTimeout, At, FallBack, Works, Fails, Move, Trouble, world
<1>7. ASSUME NEW r \in Requests, Create(r) PROVE LockInv'
  BY <1>7 DEF Create, At, Works, Fails, OperationFails, GotoWith, Move, Trouble, world
<1>8. ASSUME NEW r \in Requests, Enqueue(r) PROVE LockInv'
  BY <1>8 DEF Enqueue, At, Works, Fails, OperationSucceeds, OperationFails, Goto, GotoWith, Move, Trouble, world
<1>9. ASSUME NEW r \in Requests, Store(r) PROVE LockInv'
  BY <1>9 DEF Store, At, Goto, Works, Fails, GotoWith, Move, Trouble, world
<1>10. ASSUME NEW r \in Requests, Release(r) PROVE LockInv'
  BY <1>10 DEF Release, At, Goto, FallBack, Works, Fails, Move, Trouble, world
<1>11. ASSUME NEW r \in Requests, EnterMemory(r) PROVE LockInv'
  BY <1>11 DEF EnterMemory, At, Goto, Answer, Works, GotoWith, Move, world
<1>12. ASSUME NEW r \in Requests, PollMemory(r) PROVE LockInv'
  BY <1>12 DEF PollMemory, At, Goto, Answer, Works, Fails, GotoWith, Move, Trouble, world
<1>13. CASE LockLapses BY <1>13 DEF LockLapses, Works, Trouble, world
<1>14. ASSUME NEW p \in Processes, Crash(p) PROVE LockInv'
  BY <1>14 DEF Crash, Fails, Trouble, Ended
<1>15. CASE UNCHANGED vars BY <1>15 DEF vars, world
<1> QED
  BY <1>1, <1>2, <1>3, <1>4, <1>5, <1>6, <1>7, <1>8, <1>9, <1>10, <1>11, <1>12, <1>13, <1>14, <1>15 DEF Next, ProcessIdempotentOperation

\* The operation never runs twice at a time under the lock, whatever calls reject and
\* whatever processes die, as long as no lock lapses under its holder.
THEOREM LockExcludesHolds == Spec => []LockExcludes
<1>1. LockInv => LockExcludes BY DEF LockInv, LockExcludes
<1>2. TypeInv => WorldOK /\ CallsOK BY DEF TypeInv
<1> QED BY <1>1, <1>2, LockInit, LockStep, TypeAlways, PTL DEF Spec

\* An operation running from the memory has its process's entry for itself.
MemoryInv == \A r \in Requests : InMemory(r) =>
  /\ memory[ProcessOf[r]].state = "IN_PROGRESS"
  /\ \A q \in Requests : InMemory(q) /\ ProcessOf[q] = ProcessOf[r] => q = r

LEMMA MemoryInit == Init => MemoryInv
  BY DEF Init, MemoryInv, InMemory

\* The memory admits an operation only when it is empty.
LEMMA MemoryStep == CallsOK /\ MemoryOK /\ MemoryInv /\ [Next]_vars => MemoryInv'
<1> SUFFICES ASSUME CallsOK, MemoryOK, MemoryInv, [Next]_vars PROVE MemoryInv' OBVIOUS
<1> USE IdempotencyAssumption DEF CallsOK, MemoryOK, MemoryInv, InMemory
<1>1. ASSUME NEW r \in Requests, Begin(r) PROVE MemoryInv'
  <2>1. pc[r] = "idle" /\ memory' = memory BY <1>1 DEF Begin, At
  <2>2. \A q \in Requests : InMemory(q)' => InMemory(q) BY <1>1 DEF Begin, BeginKeyed, BeginAt, Move
  <2> QED BY <2>1, <2>2
<1>2. ASSUME NEW r \in Requests, GetRecord(r) PROVE MemoryInv'
  BY <1>2 DEF GetRecord, At, Goto, Answer, FallBack, GotoWith, Move
<1>3. ASSUME NEW r \in Requests, TakeLock(r) PROVE MemoryInv'
  BY <1>3 DEF TakeLock, At, Goto, FallBack, Move
<1>4. ASSUME NEW r \in Requests, PollRecord(r) PROVE MemoryInv'
  BY <1>4 DEF PollRecord, At, Goto, Answer, FallBack, GotoWith, Move
<1>5. ASSUME NEW r \in Requests, PollLock(r) PROVE MemoryInv'
  BY <1>5 DEF PollLock, At, Goto, FallBack, Move
<1>6. ASSUME NEW r \in Requests, PollTimeout(r) PROVE MemoryInv'
  BY <1>6 DEF PollTimeout, At, FallBack, Move
<1>7. ASSUME NEW r \in Requests, Create(r) PROVE MemoryInv'
  BY <1>7 DEF Create, At, OperationFails, GotoWith, Move, Empty
<1>8. ASSUME NEW r \in Requests, Enqueue(r) PROVE MemoryInv'
  BY <1>8 DEF Enqueue, At, OperationSucceeds, OperationFails, Goto, GotoWith, Move, Empty
<1>9. ASSUME NEW r \in Requests, Store(r) PROVE MemoryInv'
  BY <1>9 DEF Store, At, Goto, GotoWith, Move
<1>10. ASSUME NEW r \in Requests, Release(r) PROVE MemoryInv'
  BY <1>10 DEF Release, At, Goto, FallBack, Move
<1>11. ASSUME NEW r \in Requests, EnterMemory(r) PROVE MemoryInv'
  BY <1>11 DEF EnterMemory, At, Goto, Answer, GotoWith, Move, Empty
<1>12. ASSUME NEW r \in Requests, PollMemory(r) PROVE MemoryInv'
  BY <1>12 DEF PollMemory, At, Goto, Answer, GotoWith, Move
<1>13. CASE LockLapses BY <1>13 DEF LockLapses
<1>14. ASSUME NEW p \in Processes, Crash(p) PROVE MemoryInv'
  BY <1>14 DEF Crash, Ended, Empty
<1>15. CASE UNCHANGED vars BY <1>15 DEF vars
<1> QED
  BY <1>1, <1>2, <1>3, <1>4, <1>5, <1>6, <1>7, <1>8, <1>9, <1>10, <1>11, <1>12, <1>13, <1>14, <1>15 DEF Next, ProcessIdempotentOperation

\* In one process the memory admits one operation at a time, and none after a success.
THEOREM MemoryRunsOnceHolds == Spec => []MemoryRunsOnce
<1>1. MemoryInv => MemoryRunsOnce BY DEF MemoryInv, MemoryRunsOnce
<1>2. TypeInv => CallsOK /\ MemoryOK BY DEF TypeInv
<1> QED BY <1>1, <1>2, MemoryInit, MemoryStep, TypeAlways, PTL DEF Spec

\* Whatever a request may be answered with has a job.
QueuedInv ==
  /\ AnswersAreQueued
  /\ record # NoRecord => record \in queued
  /\ \A p \in Processes : memory[p].state = "COMPLETED" => memory[p].result \in queued
  /\ \A r \in Requests : pc[r] \in {"store", "release"} /\ result[r] # NoRecord
       => result[r] \in queued

LEMMA QueuedInit == Init => QueuedInv
  BY DEF Init, QueuedInv, AnswersAreQueued, At, Empty, NoRecord

\* A result is stored or returned only after its job has been added.
LEMMA QueuedStep == CallsOK /\ DataOK /\ MemoryOK /\ ResultsOK /\ QueuedInv /\ [Next]_vars => QueuedInv'
<1> SUFFICES ASSUME CallsOK, DataOK, MemoryOK, ResultsOK, QueuedInv, [Next]_vars PROVE QueuedInv' OBVIOUS
<1> USE IdempotencyAssumption DEF CallsOK, DataOK, MemoryOK, ResultsOK, QueuedInv, AnswersAreQueued, At, NoRecord
<1>1. ASSUME NEW r \in Requests, Begin(r) PROVE QueuedInv'
  BY <1>1 DEF Begin, At, BeginKeyed, BeginAt, Move
<1>2. ASSUME NEW r \in Requests, GetRecord(r) PROVE QueuedInv'
  BY <1>2 DEF GetRecord, At, Goto, Answer, FallBack, GotoWith, Move
<1>3. ASSUME NEW r \in Requests, TakeLock(r) PROVE QueuedInv'
  BY <1>3 DEF TakeLock, At, Goto, FallBack, Move
<1>4. ASSUME NEW r \in Requests, PollRecord(r) PROVE QueuedInv'
  BY <1>4 DEF PollRecord, At, Goto, Answer, FallBack, GotoWith, Move
<1>5. ASSUME NEW r \in Requests, PollLock(r) PROVE QueuedInv'
  BY <1>5 DEF PollLock, At, Goto, FallBack, Move
<1>6. ASSUME NEW r \in Requests, PollTimeout(r) PROVE QueuedInv'
  BY <1>6 DEF PollTimeout, At, FallBack, Move
<1>7. ASSUME NEW r \in Requests, Create(r) PROVE QueuedInv'
  <2>1. CASE created' = created + 1 /\ GotoWith(r, "enqueue", created + 1) /\ memory' = memory
    BY <1>7, <2>1 DEF Create, At, GotoWith, Move
  <2>2. CASE created' \in {created, created + 1} /\ OperationFails(r) /\ path[r] = "memory"
    BY <1>7, <2>2 DEF Create, At, OperationFails, GotoWith, Move, Empty
  <2>3. CASE created' \in {created, created + 1} /\ OperationFails(r) /\ path[r] # "memory"
    BY <1>7, <2>3 DEF Create, At, OperationFails, GotoWith, Move
  <2> QED BY <1>7, <2>1, <2>2, <2>3 DEF Create
<1>8. ASSUME NEW r \in Requests, Enqueue(r) PROVE QueuedInv'
  <2>1. CASE queued' = queued \cup {result[r]} /\ OperationSucceeds(r) /\ path[r] = "memory"
    BY <1>8, <2>1 DEF Enqueue, At, OperationSucceeds, Goto, Move
  <2>2. CASE queued' = queued \cup {result[r]} /\ OperationSucceeds(r) /\ path[r] # "memory"
    BY <1>8, <2>2 DEF Enqueue, At, OperationSucceeds, Goto, Move
  <2>3. CASE queued' \in {queued, queued \cup {result[r]}} /\ OperationFails(r) /\ path[r] = "memory"
    BY <1>8, <2>3 DEF Enqueue, At, OperationFails, GotoWith, Move, Empty
  <2>4. CASE queued' \in {queued, queued \cup {result[r]}} /\ OperationFails(r) /\ path[r] # "memory"
    BY <1>8, <2>4 DEF Enqueue, At, OperationFails, GotoWith, Move
  <2> QED BY <1>8, <2>1, <2>2, <2>3, <2>4 DEF Enqueue
<1>9. ASSUME NEW r \in Requests, Store(r) PROVE QueuedInv'
  BY <1>9 DEF Store, At, Goto, GotoWith, Move
<1>10. ASSUME NEW r \in Requests, Release(r) PROVE QueuedInv'
  BY <1>10 DEF Release, At, Goto, FallBack, Move
<1>11. ASSUME NEW r \in Requests, EnterMemory(r) PROVE QueuedInv'
  <2> DEFINE mine == memory[ProcessOf[r]]
  <2>1. CASE mine.state = "COMPLETED" /\ Answer(r, mine.result) /\ memory' = memory
    BY <1>11, <2>1 DEF EnterMemory, At, Answer, GotoWith, Move
  <2>2. CASE mine.state = "IN_PROGRESS" /\ Goto(r, "pollMemory") /\ memory' = memory
    BY <1>11, <2>2 DEF EnterMemory, At, Goto, Move
  <2>3. CASE /\ mine.state = "empty" /\ Goto(r, "create")
             /\ memory' = [memory EXCEPT ![ProcessOf[r]] = [Empty EXCEPT !.state = "IN_PROGRESS"]]
    BY <1>11, <2>3 DEF EnterMemory, At, Goto, Move, Empty
  <2> QED BY <1>11, <2>1, <2>2, <2>3 DEF EnterMemory
<1>12. ASSUME NEW r \in Requests, PollMemory(r) PROVE QueuedInv'
  BY <1>12 DEF PollMemory, At, Goto, Answer, GotoWith, Move
<1>13. CASE LockLapses BY <1>13 DEF LockLapses
<1>14. ASSUME NEW p \in Processes, Crash(p) PROVE QueuedInv'
  BY <1>14 DEF Crash, Ended, Empty
<1>15. CASE UNCHANGED vars BY <1>15 DEF vars
<1> QED
  BY <1>1, <1>2, <1>3, <1>4, <1>5, <1>6, <1>7, <1>8, <1>9, <1>10, <1>11, <1>12, <1>13, <1>14, <1>15 DEF Next, ProcessIdempotentOperation

\* A request is answered only with an execution that has a job.
THEOREM AnswersAreQueuedHolds == Spec => []AnswersAreQueued
<1>1. QueuedInv => AnswersAreQueued BY DEF QueuedInv
<1>2. TypeInv => CallsOK /\ DataOK /\ MemoryOK /\ ResultsOK BY DEF TypeInv
<1> QED BY <1>1, <1>2, QueuedInit, QueuedStep, TypeAlways, PTL DEF Spec

\* While nothing goes wrong: a lock has a holder; a holder that is about to delete its
\* lock has stored the record; so a poll sees one of the two, and nobody leaves Redis or
\* is answered by it before there is a record. Nobody is with Redis without a client.
RecordInv == Healthy =>
  /\ lock = Locked => \E r \in Requests : Holder(r)
  /\ \A r \in Requests :
       /\ pc[r] \in {"pollRecord", "pollLock"} => lock = Locked \/ record # NoRecord
       /\ pc[r] = "release" => record # NoRecord
       /\ path[r] = "none" => pc[r] = "idle"
       /\ path[r] = "redis" => Connected(r)
       /\ path[r] = "memory" /\ Connected(r) => record # NoRecord
       /\ pc[r] = "answered" /\ path[r] = "redis" => record # NoRecord

LEMMA RecordInit == Init => RecordInv
  BY DEF Init, RecordInv, Healthy, Free, Locked

\* Without trouble the record outlives the lock.
LEMMA RecordStep == WorldOK /\ CallsOK /\ ResultsOK /\ LockInv /\ RecordInv /\ [Next]_vars => RecordInv'
<1> SUFFICES ASSUME WorldOK, CallsOK, ResultsOK, LockInv, RecordInv, [Next]_vars PROVE RecordInv' OBVIOUS
<1> USE IdempotencyAssumption DEF WorldOK, CallsOK, ResultsOK, LockInv, RecordInv, Healthy, Connected, Holder, NoRecord, Free, Locked
<1>1. ASSUME NEW r \in Requests, Begin(r) PROVE RecordInv'
  BY <1>1 DEF Begin, At, BeginKeyed, BeginAt, Works, Move, world
<1>2. ASSUME NEW r \in Requests, GetRecord(r) PROVE RecordInv'
  BY <1>2 DEF GetRecord, At, Goto, Answer, FallBack, Works, Fails, GotoWith, Move, Trouble, world
<1>3. ASSUME NEW r \in Requests, TakeLock(r) PROVE RecordInv'
  BY <1>3 DEF TakeLock, At, Goto, FallBack, Works, Fails, Move, Trouble, world
<1>4. ASSUME NEW r \in Requests, PollRecord(r) PROVE RecordInv'
  BY <1>4 DEF PollRecord, At, Goto, Answer, FallBack, Works, Fails, GotoWith, Move, Trouble, world
<1>5. ASSUME NEW r \in Requests, PollLock(r) PROVE RecordInv'
  BY <1>5 DEF PollLock, At, Goto, FallBack, Works, Fails, Move, Trouble, world
<1>6. ASSUME NEW r \in Requests, PollTimeout(r) PROVE RecordInv'
  BY <1>6 DEF PollTimeout, At, FallBack, Works, Fails, Move, Trouble, world
<1>7. ASSUME NEW r \in Requests, Create(r) PROVE RecordInv'
  BY <1>7 DEF Create, At, Works, Fails, OperationFails, GotoWith, Move, Trouble, world
<1>8. ASSUME NEW r \in Requests, Enqueue(r) PROVE RecordInv'
  BY <1>8 DEF Enqueue, At, Works, Fails, OperationSucceeds, OperationFails, Goto, GotoWith, Move, Trouble, world
<1>9. ASSUME NEW r \in Requests, Store(r) PROVE RecordInv'
  BY <1>9 DEF Store, At, Goto, Works, Fails, GotoWith, Move, Trouble, world
<1>10. ASSUME NEW r \in Requests, Release(r) PROVE RecordInv'
  BY <1>10 DEF Release, At, Goto, FallBack, Works, Fails, Move, Trouble, world
<1>11. ASSUME NEW r \in Requests, EnterMemory(r) PROVE RecordInv'
  <2> DEFINE mine == memory[ProcessOf[r]]
  <2>1. CASE mine.state = "COMPLETED" /\ Answer(r, mine.result) /\ memory' = memory
    BY <1>11, <2>1 DEF EnterMemory, At, Answer, GotoWith, Move, Works, world
  <2>2. CASE mine.state = "IN_PROGRESS" /\ Goto(r, "pollMemory") /\ memory' = memory
    BY <1>11, <2>2 DEF EnterMemory, At, Goto, Move, Works, world
  <2>3. CASE /\ mine.state = "empty" /\ Goto(r, "create")
             /\ memory' = [memory EXCEPT ![ProcessOf[r]] = [Empty EXCEPT !.state = "IN_PROGRESS"]]
    BY <1>11, <2>3 DEF EnterMemory, At, Goto, Move, Empty, Works, world
  <2> QED BY <1>11, <2>1, <2>2, <2>3 DEF EnterMemory
<1>12. ASSUME NEW r \in Requests, PollMemory(r) PROVE RecordInv'
  BY <1>12 DEF PollMemory, At, Goto, Answer, Works, Fails, GotoWith, Move, Trouble, world
<1>13. CASE LockLapses BY <1>13 DEF LockLapses, Works, Trouble, world
<1>14. ASSUME NEW p \in Processes, Crash(p) PROVE RecordInv'
  BY <1>14 DEF Crash, Fails, Trouble, Ended
<1>15. CASE UNCHANGED vars BY <1>15 DEF vars, world
<1> QED
  BY <1>1, <1>2, <1>3, <1>4, <1>5, <1>6, <1>7, <1>8, <1>9, <1>10, <1>11, <1>12, <1>13, <1>14, <1>15 DEF Next, ProcessIdempotentOperation

\* While nothing goes wrong, the record and the completed entry of a memory stay.
Completed(p) == memory[p].state = "COMPLETED"
Kept ==
  /\ Healthy /\ clients' = clients
  /\ record # NoRecord => record' # NoRecord
  /\ \A p \in Processes : Completed(p) => Completed(p)'

LEMMA Stored ==
  ASSUME WorldOK, CallsOK, MemoryOK, ResultsOK, [Next]_vars, Healthy' PROVE Kept
<1> USE IdempotencyAssumption DEF MemoryOK, CallsOK, ResultsOK, WorldOK, Healthy, Completed,
    Kept, NoRecord
<1>1. ASSUME NEW r \in Requests, Begin(r) PROVE Kept
  BY <1>1 DEF Begin, At, Works, Fails, Trouble, world
<1>2. ASSUME NEW r \in Requests, GetRecord(r) PROVE Kept
  BY <1>2 DEF GetRecord, At, Works, Fails, Trouble, world
<1>3. ASSUME NEW r \in Requests, TakeLock(r) PROVE Kept
  BY <1>3 DEF TakeLock, At, Works, Fails, Trouble, world
<1>4. ASSUME NEW r \in Requests, PollRecord(r) PROVE Kept
  BY <1>4 DEF PollRecord, At, Works, Fails, Trouble, world
<1>5. ASSUME NEW r \in Requests, PollLock(r) PROVE Kept
  BY <1>5 DEF PollLock, At, Works, Fails, Trouble, world
<1>6. ASSUME NEW r \in Requests, PollTimeout(r) PROVE Kept
  BY <1>6 DEF PollTimeout, At, Works, Fails, Trouble, world
<1>7. ASSUME NEW r \in Requests, Create(r) PROVE Kept
  BY <1>7 DEF Create, At, Works, Fails, Trouble, world, OperationFails
<1>8. ASSUME NEW r \in Requests, Enqueue(r) PROVE Kept
  BY <1>8 DEF Enqueue, At, Works, Fails, Trouble, world, OperationFails, OperationSucceeds
<1>9. ASSUME NEW r \in Requests, Store(r) PROVE Kept
  BY <1>9 DEF Store, At, Works, Fails, Trouble, world
<1>10. ASSUME NEW r \in Requests, Release(r) PROVE Kept
  BY <1>10 DEF Release, At, Works, Fails, Trouble, world
<1>11. ASSUME NEW r \in Requests, EnterMemory(r) PROVE Kept
  BY <1>11 DEF EnterMemory, At, Works, Fails, Trouble, world
<1>12. ASSUME NEW r \in Requests, PollMemory(r) PROVE Kept
  BY <1>12 DEF PollMemory, At, Works, Fails, Trouble, world
<1>13. CASE LockLapses BY <1>13 DEF LockLapses, Works, Trouble, world
<1>14. ASSUME NEW p \in Processes, Crash(p) PROVE Kept
  BY <1>14 DEF Crash, Fails, Trouble
<1>15. CASE UNCHANGED vars BY <1>15 DEF vars, world
<1> QED
  BY <1>1, <1>2, <1>3, <1>4, <1>5, <1>6, <1>7, <1>8, <1>9, <1>10, <1>11, <1>12, <1>13, <1>14, <1>15 DEF Next, ProcessIdempotentOperation

\* While nothing goes wrong, whoever is answered from a memory leaves its entry there, and
\* a request that comes after an answer finds the record or, without a client, the entry.
LateInv == Healthy => \A r \in Requests :
  /\ pc[r] = "answered" /\ path[r] = "memory" => Completed(ProcessOf[r])
  /\ late[r] => IF Connected(r)
               THEN record # NoRecord /\ pc[r] \in {"get", "answered"}
               ELSE Completed(ProcessOf[r]) /\ pc[r] \in {"memory", "answered"}

LEMMA LateInit == Init => LateInv
  BY DEF Init, LateInv

\* What is late finds what the earlier request has left.
LEMMA LateStep ==
  WorldOK /\ CallsOK /\ MemoryOK /\ ResultsOK /\ RecordInv /\ LateInv /\ [Next]_vars => LateInv'
<1> SUFFICES ASSUME WorldOK, CallsOK, MemoryOK, ResultsOK, RecordInv, LateInv, [Next]_vars, Healthy'
    PROVE LateInv' BY DEF LateInv
<1>0. Kept BY Stored
<1> USE IdempotencyAssumption, <1>0 DEF WorldOK, CallsOK, RecordInv, LateInv, Connected, Kept, Healthy, Fails,
    Trouble
<1>1. ASSUME NEW r \in Requests, Begin(r) PROVE LateInv'
  BY <1>1 DEF Begin, At, BeginKeyed, BeginAt, Move, Shares
<1>2. ASSUME NEW r \in Requests, GetRecord(r) PROVE LateInv'
  BY <1>2 DEF GetRecord, At, Goto, Answer, FallBack, GotoWith, Move
<1>3. ASSUME NEW r \in Requests, TakeLock(r) PROVE LateInv'
  BY <1>3 DEF TakeLock, At, Goto, Answer, FallBack, GotoWith, Move
<1>4. ASSUME NEW r \in Requests, PollRecord(r) PROVE LateInv'
  BY <1>4 DEF PollRecord, At, Goto, Answer, FallBack, GotoWith, Move
<1>5. ASSUME NEW r \in Requests, PollLock(r) PROVE LateInv'
  BY <1>5 DEF PollLock, At, Goto, Answer, FallBack, GotoWith, Move
<1>6. ASSUME NEW r \in Requests, PollTimeout(r) PROVE LateInv'
  BY <1>6 DEF PollTimeout, At, Goto, Answer, FallBack, GotoWith, Move
<1>7. ASSUME NEW r \in Requests, Create(r) PROVE LateInv'
  BY <1>7 DEF Create, At, Goto, Answer, FallBack, GotoWith, Move, OperationFails
<1>8. ASSUME NEW r \in Requests, Enqueue(r) PROVE LateInv'
  <2>1. CASE Works /\ OperationSucceeds(r) /\ path[r] = "memory"
    <3>1. Completed(ProcessOf[r])'
      BY <1>8, <2>1 DEF OperationSucceeds, Completed, MemoryOK
    <3> QED BY <1>8, <2>1, <3>1 DEF Enqueue, At, OperationSucceeds, Goto, Move
  <2>2. CASE Works /\ OperationSucceeds(r) /\ path[r] # "memory"
    BY <1>8, <2>2 DEF Enqueue, At, OperationSucceeds, Goto, Move
  <2>3. CASE Fails BY <2>3
  <2> QED BY <1>8, <2>1, <2>2, <2>3 DEF Enqueue
<1>9. ASSUME NEW r \in Requests, Store(r) PROVE LateInv'
  BY <1>9 DEF Store, At, Goto, Answer, FallBack, GotoWith, Move
<1>10. ASSUME NEW r \in Requests, Release(r) PROVE LateInv'
  BY <1>10 DEF Release, At, Goto, Answer, FallBack, GotoWith, Move
<1>11. ASSUME NEW r \in Requests, EnterMemory(r) PROVE LateInv'
  BY <1>11 DEF EnterMemory, At, Goto, Answer, GotoWith, Move, Completed
<1>12. ASSUME NEW r \in Requests, PollMemory(r) PROVE LateInv'
  BY <1>12 DEF PollMemory, At, Goto, Answer, GotoWith, Move, Completed
<1>13. CASE LockLapses BY <1>13 DEF LockLapses
<1>14. ASSUME NEW p \in Processes, Crash(p) PROVE LateInv'
  BY <1>14 DEF Crash, Ended
<1>15. CASE UNCHANGED vars BY <1>15 DEF vars
<1> QED
  BY <1>1, <1>2, <1>3, <1>4, <1>5, <1>6, <1>7, <1>8, <1>9, <1>10, <1>11, <1>12, <1>13, <1>14, <1>15 DEF Next, ProcessIdempotentOperation

\* Both together.
ReuseInv == RecordInv /\ LateInv

LEMMA ReuseInit == Init => ReuseInv
  BY RecordInit, LateInit DEF ReuseInv

LEMMA ReuseStep ==
  WorldOK /\ CallsOK /\ MemoryOK /\ ResultsOK /\ LockInv /\ ReuseInv /\ [Next]_vars => ReuseInv'
  BY RecordStep, LateStep DEF ReuseInv

\* While nothing fails and nothing is slow, a request that begins after another one
\* with the key was answered does not run the operation, if the two processes are one
\* or both have a Redis client.
THEOREM RetryReusesAnswerHolds == Spec => []RetryReusesAnswer
<1>1. ReuseInv => RetryReusesAnswer BY DEF ReuseInv, LateInv, RetryReusesAnswer
<1>2. TypeInv => WorldOK /\ CallsOK /\ MemoryOK /\ ResultsOK BY DEF TypeInv
<1> QED
  BY <1>1, <1>2, ReuseInit, ReuseStep, LockInit, LockStep, TypeAlways, PTL DEF Spec

-----------------------------------------------------------------------------
(* ApiIdempotency implements KeyedOperation. *)

\* An execution that a request has just created, and any that a request without the key
\* has created, is in no record, memory or other request's hands.
Own(r) == (path[r] = "direct" \/ pc[r] = "enqueue") /\ result[r] # NoRecord
OwnInv ==
  /\ \A r \in Requests :
       /\ pc[r] = "idle" => result[r] = NoRecord /\ path[r] = "none" /\ ~late[r]
       /\ path[r] = "none" => pc[r] = "idle"
       /\ pc[r] = "enqueue" => result[r] \notin queued
  /\ \A r \in Requests : Own(r) =>
       /\ record # result[r] /\ \A p \in Processes : memory[p].result # result[r]
       /\ \A q \in Requests : result[q] = result[r] => q = r

LEMMA OwnInit == Init => OwnInv
  BY DEF Init, OwnInv, Own, NoRecord

\* A request that is answered from elsewhere, waits or falls back owns nothing.
LEMMA OwnAside ==
  ASSUME CallsOK, DataOK, QueueOK, MemoryOK, OwnInv, NEW r \in Requests,
         UNCHANGED <<record, memory, created, queued>>, path[r] = "redis", pc[r] # "idle",
         \/ FallBack(r)
         \/ Answer(r, record)
         \/ \E place \in {"lock", "create", "pollRecord", "pollLock"} : Goto(r, place)
  PROVE  OwnInv'
<1>1. /\ path'[r] \in {"redis", "memory"} /\ pc'[r] \notin {"idle", "enqueue"}
      /\ result'[r] \in {NoRecord, record, result[r]}
      /\ \A q \in Requests \ {r} : /\ pc'[q] = pc[q] /\ path'[q] = path[q]
                                   /\ result'[q] = result[q] /\ late'[q] = late[q]
  BY DEF FallBack, Answer, Goto, GotoWith, Move, CallsOK, DataOK
<1>2. ASSUME NEW q \in Requests, Own(q)'
      PROVE  /\ record' # result'[q] /\ \A p \in Processes : memory'[p].result # result'[q]
             /\ \A n \in Requests : result'[n] = result'[q] => n = q
  <2>1. q # r /\ Own(q) /\ result'[q] = result[q] BY <1>1, <1>2 DEF Own
  <2> QED BY <1>1, <2>1 DEF OwnInv, Own
<1> QED BY <1>1, <1>2 DEF OwnInv

\* Executions are created with new numbers, and only those of requests with the key are
\* stored.
LEMMA OwnStep ==
  CallsOK /\ DataOK /\ QueueOK /\ MemoryOK /\ ResultsOK /\ OwnInv /\ [Next]_vars => OwnInv'
<1> SUFFICES ASSUME CallsOK, DataOK, QueueOK, MemoryOK, ResultsOK, OwnInv, [Next]_vars
    PROVE OwnInv' OBVIOUS
<1> USE IdempotencyAssumption
    DEF CallsOK, DataOK, QueueOK, MemoryOK, ResultsOK, OwnInv, Own, NoRecord
<1>1. ASSUME NEW r \in Requests, Begin(r) PROVE OwnInv'
  BY <1>1 DEF Begin, At, BeginKeyed, BeginAt, Move
<1>2. ASSUME NEW r \in Requests, GetRecord(r) PROVE OwnInv'
  BY <1>2, OwnAside DEF GetRecord, At
<1>3. ASSUME NEW r \in Requests, TakeLock(r) PROVE OwnInv'
  BY <1>3, OwnAside DEF TakeLock, At
<1>4. ASSUME NEW r \in Requests, PollRecord(r) PROVE OwnInv'
  BY <1>4, OwnAside DEF PollRecord, At
<1>5. ASSUME NEW r \in Requests, PollLock(r) PROVE OwnInv'
  BY <1>5, OwnAside DEF PollLock, At
<1>6. ASSUME NEW r \in Requests, PollTimeout(r) PROVE OwnInv'
  BY <1>6, OwnAside DEF PollTimeout, At
<1>7. ASSUME NEW r \in Requests, Create(r) PROVE OwnInv'
  <2>1. CASE created' = created + 1 /\ GotoWith(r, "enqueue", created + 1) /\ memory' = memory
    BY <1>7, <2>1 DEF Create, At, GotoWith, Move
  <2>2. CASE created' \in {created, created + 1} /\ OperationFails(r) /\ path[r] = "memory"
    BY <1>7, <2>2 DEF Create, At, OperationFails, GotoWith, Move, Empty
  <2>3. CASE created' \in {created, created + 1} /\ OperationFails(r) /\ path[r] # "memory"
    BY <1>7, <2>3 DEF Create, At, OperationFails, GotoWith, Move
  <2> QED BY <1>7, <2>1, <2>2, <2>3 DEF Create
<1>8. ASSUME NEW r \in Requests, Enqueue(r) PROVE OwnInv'
  <2>1. CASE queued' = queued \cup {result[r]} /\ OperationSucceeds(r) /\ path[r] = "memory"
    BY <1>8, <2>1 DEF Enqueue, At, OperationSucceeds, Goto, Move
  <2>2. CASE queued' = queued \cup {result[r]} /\ OperationSucceeds(r) /\ path[r] # "memory"
    BY <1>8, <2>2 DEF Enqueue, At, OperationSucceeds, Goto, Move
  <2>3. CASE queued' \in {queued, queued \cup {result[r]}} /\ OperationFails(r) /\ path[r] = "memory"
    BY <1>8, <2>3 DEF Enqueue, At, OperationFails, GotoWith, Move, Empty
  <2>4. CASE queued' \in {queued, queued \cup {result[r]}} /\ OperationFails(r) /\ path[r] # "memory"
    BY <1>8, <2>4 DEF Enqueue, At, OperationFails, GotoWith, Move
  <2> QED BY <1>8, <2>1, <2>2, <2>3, <2>4 DEF Enqueue
<1>9. ASSUME NEW r \in Requests, Store(r) PROVE OwnInv'
  <2>1. path[r] = "redis" /\ result' \in {result, [result EXCEPT ![r] = NoRecord]}
    BY <1>9 DEF Store, At, Goto, GotoWith, Move
  <2>2. \A q \in Requests : Own(q)' => Own(q) /\ q # r /\ result'[q] = result[q]
    BY <1>9, <2>1 DEF Store, At, Goto, GotoWith, Move
  <2>3. record' \in {record, result[r]} BY <1>9 DEF Store
  <2>4. \A q \in Requests : Own(q)' => /\ record' # result'[q]
                                      /\ \A p \in Processes : memory'[p].result # result'[q]
                                      /\ \A n \in Requests : result'[n] = result'[q] => n = q
    BY <1>9, <2>1, <2>2, <2>3 DEF Store
  <2> QED BY <1>9, <2>4 DEF Store, At, Goto, GotoWith, Move
<1>10. ASSUME NEW r \in Requests, Release(r) PROVE OwnInv'
  BY <1>10 DEF Release, At, Goto, FallBack, Move
<1>11. ASSUME NEW r \in Requests, EnterMemory(r) PROVE OwnInv'
  <2> DEFINE mine == memory[ProcessOf[r]]
  <2>1. CASE mine.state = "COMPLETED" /\ Answer(r, mine.result) /\ memory' = memory
    BY <1>11, <2>1 DEF EnterMemory, At, Answer, GotoWith, Move
  <2>2. CASE mine.state = "IN_PROGRESS" /\ Goto(r, "pollMemory") /\ memory' = memory
    BY <1>11, <2>2 DEF EnterMemory, At, Goto, Move
  <2>3. CASE /\ mine.state = "empty" /\ Goto(r, "create")
             /\ memory' = [memory EXCEPT ![ProcessOf[r]] = [Empty EXCEPT !.state = "IN_PROGRESS"]]
    BY <1>11, <2>3 DEF EnterMemory, At, Goto, Move, Empty
  <2> QED BY <1>11, <2>1, <2>2, <2>3 DEF EnterMemory
<1>12. ASSUME NEW r \in Requests, PollMemory(r) PROVE OwnInv'
  BY <1>12 DEF PollMemory, At, Goto, Answer, GotoWith, Move
<1>13. CASE LockLapses BY <1>13 DEF LockLapses
<1>14. ASSUME NEW p \in Processes, Crash(p) PROVE OwnInv'
  BY <1>14 DEF Crash, Ended, Empty
<1>15. CASE UNCHANGED vars BY <1>15 DEF vars
<1> QED
  BY <1>1, <1>2, <1>3, <1>4, <1>5, <1>6, <1>7, <1>8, <1>9, <1>10, <1>11, <1>12, <1>13, <1>14, <1>15 DEF Next, ProcessIdempotentOperation

\* As long as nothing goes wrong, an entry of a memory does not go away, so a request
\* that polls one finds it.
PolledInv == Healthy => \A r \in Requests :
  pc[r] = "pollMemory" => memory[ProcessOf[r]].state # "empty"

LEMMA PolledInit == Init => PolledInv
  BY DEF Init, PolledInv

LEMMA PolledStep == WorldOK /\ CallsOK /\ MemoryOK /\ PolledInv /\ [Next]_vars => PolledInv'
<1> SUFFICES ASSUME WorldOK, CallsOK, MemoryOK, PolledInv, [Next]_vars PROVE PolledInv' OBVIOUS
<1> USE IdempotencyAssumption
    DEF WorldOK, CallsOK, MemoryOK, PolledInv, Healthy, Works, Fails, Trouble, world
<1>1. ASSUME NEW r \in Requests, Begin(r) PROVE PolledInv'
  BY <1>1 DEF Begin, At, BeginKeyed, BeginAt, Move
<1>2. ASSUME NEW r \in Requests, GetRecord(r) PROVE PolledInv'
  BY <1>2 DEF GetRecord, At, Goto, Answer, FallBack, GotoWith, Move
<1>3. ASSUME NEW r \in Requests, TakeLock(r) PROVE PolledInv'
  BY <1>3 DEF TakeLock, At, Goto, FallBack, Move
<1>4. ASSUME NEW r \in Requests, PollRecord(r) PROVE PolledInv'
  BY <1>4 DEF PollRecord, At, Goto, Answer, FallBack, GotoWith, Move
<1>5. ASSUME NEW r \in Requests, PollLock(r) PROVE PolledInv'
  BY <1>5 DEF PollLock, At, Goto, FallBack, Move
<1>6. ASSUME NEW r \in Requests, PollTimeout(r) PROVE PolledInv'
  BY <1>6 DEF PollTimeout, At, FallBack, Move
<1>7. ASSUME NEW r \in Requests, Create(r) PROVE PolledInv'
  <2>1. CASE created' = created + 1 /\ GotoWith(r, "enqueue", created + 1) /\ memory' = memory
    BY <1>7, <2>1 DEF Create, At, GotoWith, Move
  <2>2. CASE created' \in {created, created + 1} /\ OperationFails(r) /\ path[r] = "memory"
    BY <1>7, <2>2 DEF Create, At, OperationFails, GotoWith, Move, Empty
  <2>3. CASE created' \in {created, created + 1} /\ OperationFails(r) /\ path[r] # "memory"
    BY <1>7, <2>3 DEF Create, At, OperationFails, GotoWith, Move
  <2> QED BY <1>7, <2>1, <2>2, <2>3 DEF Create
<1>8. ASSUME NEW r \in Requests, Enqueue(r) PROVE PolledInv'
  <2>1. CASE Works /\ OperationSucceeds(r) /\ path[r] = "memory"
    BY <1>8, <2>1 DEF Enqueue, At, OperationSucceeds, Goto, Move
  <2>2. CASE Works /\ OperationSucceeds(r) /\ path[r] # "memory"
    BY <1>8, <2>2 DEF Enqueue, At, OperationSucceeds, Goto, Move
  <2>3. CASE Fails BY <2>3
  <2> QED BY <1>8, <2>1, <2>2, <2>3 DEF Enqueue
<1>9. ASSUME NEW r \in Requests, Store(r) PROVE PolledInv'
  BY <1>9 DEF Store, At, Goto, GotoWith, Move
<1>10. ASSUME NEW r \in Requests, Release(r) PROVE PolledInv'
  BY <1>10 DEF Release, At, Goto, FallBack, Move
<1>11. ASSUME NEW r \in Requests, EnterMemory(r) PROVE PolledInv'
  <2> DEFINE mine == memory[ProcessOf[r]]
  <2>1. CASE mine.state = "COMPLETED" /\ Answer(r, mine.result) /\ memory' = memory
    BY <1>11, <2>1 DEF EnterMemory, At, Answer, GotoWith, Move
  <2>2. CASE mine.state = "IN_PROGRESS" /\ Goto(r, "pollMemory") /\ memory' = memory
    BY <1>11, <2>2 DEF EnterMemory, At, Goto, Move
  <2>3. CASE /\ mine.state = "empty" /\ Goto(r, "create")
             /\ memory' = [memory EXCEPT ![ProcessOf[r]] = [Empty EXCEPT !.state = "IN_PROGRESS"]]
    BY <1>11, <2>3 DEF EnterMemory, At, Goto, Move, Empty
  <2> QED BY <1>11, <2>1, <2>2, <2>3 DEF EnterMemory
<1>12. ASSUME NEW r \in Requests, PollMemory(r) PROVE PolledInv'
  BY <1>12 DEF PollMemory, At, Goto, Answer, GotoWith, Move
<1>13. CASE LockLapses BY <1>13 DEF LockLapses
<1>14. ASSUME NEW p \in Processes, Crash(p) PROVE PolledInv'
  BY <1>14 DEF Crash, Ended, Empty
<1>15. CASE UNCHANGED vars BY <1>15 DEF vars
<1> QED
  BY <1>1, <1>2, <1>3, <1>4, <1>5, <1>6, <1>7, <1>8, <1>9, <1>10, <1>11, <1>12, <1>13, <1>14, <1>15 DEF Next, ProcessIdempotentOperation

\* Of all requests, one moves on; it bears the key or not, as before.
Moves(r) ==
  /\ \A q \in Requests \ {r} : pc'[q] = pc[q] /\ result'[q] = result[q] /\ path'[q] = path[q]
  /\ (path'[r] \in {"redis", "memory"}) <=> (path[r] \in {"redis", "memory"})
  /\ late' = late /\ clients' = clients

StageOf == [q \in Requests |-> Stage(q)]
AnswerOf == [q \in Requests |-> Given(q)]
LateOnes == {q \in Requests : late[q]}
PeersOf == [r \in Requests |-> {q \in Requests : Shares(q, r)}]

\* Who has a client never changes.
LEMMA SamePeers == ASSUME clients' = clients PROVE PeersOf' = PeersOf
BY DEF PeersOf, Shares, Connected

LEMMA Moved ==
  ASSUME NEW r \in Requests, Moves(r)
  PROVE  /\ Keyed' = Keyed /\ LateOnes' = LateOnes /\ PeersOf' = PeersOf
         /\ StageOf' = [StageOf EXCEPT ![r] = Stage(r)']
         /\ AnswerOf' = [AnswerOf EXCEPT ![r] = Given(r)']
         /\ \A q \in Requests \ {r} : Stage(q)' = Stage(q) /\ Given(q)' = Given(q)
<1>1. \A q \in Requests \ {r} : Stage(q)' = Stage(q) /\ Given(q)' = Given(q)
  BY DEF Moves, Stage, Given, At
<1>2. StageOf' = [StageOf EXCEPT ![r] = Stage(r)'] BY <1>1 DEF StageOf
<1>3. AnswerOf' = [AnswerOf EXCEPT ![r] = Given(r)'] BY <1>1 DEF AnswerOf
<1>4. Keyed' = Keyed BY DEF Moves, Keyed
<1>5. LateOnes' = LateOnes BY DEF Moves, LateOnes
<1>6. PeersOf' = PeersOf BY SamePeers DEF Moves
<1> QED BY <1>1, <1>2, <1>3, <1>4, <1>5, <1>6

LEMMA StageInStages ==
  ASSUME NEW r \in Requests, TypeInv
  PROVE  Stage(r) \in {"new", "begun", "served", "answered", "refused"} /\ Given(r) \in Nat
BY DEF Stage, Given, TypeInv, DataOK, NoRecord

\* A step that the clients do not see, be it that something goes wrong.
LEMMA Stays ==
  ASSUME TypeInv, TypeInv', Works \/ ~Healthy', NEW r \in Requests, Moves(r),
         Stage(r)' = Stage(r), Given(r)' = Given(r), queued' = queued
  PROVE  [Operation!Next]_(Operation!vars)
<1>1. \A q \in Requests : Stage(q)' = Stage(q) /\ Given(q)' = Given(q) BY Moved
<1>2. Keyed' = Keyed /\ LateOnes' = LateOnes /\ PeersOf' = PeersOf BY Moved
<1>3. StageOf' = StageOf /\ AnswerOf' = AnswerOf BY <1>1 DEF StageOf, AnswerOf
<1>4. CASE Works
  <2>1. Healthy' = Healthy BY <1>4 DEF Works, world, Healthy
  <2> QED BY <1>2, <1>3, <2>1 DEF Operation!vars, StageOf, AnswerOf, LateOnes, PeersOf
<1>5. CASE ~Healthy'
  <2>1. StageOf' \in [Requests -> Operation!Stages] /\ AnswerOf' \in [Requests -> Nat]
    BY StageInStages, <1>1 DEF Operation!Stages, StageOf, AnswerOf
  <2>2. Operation!Stumble
    BY <1>1, <1>2, <1>5, <2>1 DEF Operation!Stumble, StageOf, AnswerOf, LateOnes, PeersOf
  <2> QED BY <2>2 DEF Operation!Next
<1> QED BY <1>4, <1>5

\* Something goes wrong, and a request starts again or is refused.
LEMMA Stumbles ==
  ASSUME TypeInv, TypeInv', ~Healthy', NEW r \in Requests, Moves(r),
         Stage(r) \in {"begun", "served"}, Stage(r)' \in {"begun", "refused"},
         queued' = queued \/ \E e \in queued' : Operation!AddsJob(e)
  PROVE  Operation!Next
<1>1. Given(r)' = NoRecord BY DEF Given
<1>2. StageOf' \in [Requests -> Operation!Stages] /\ AnswerOf' \in [Requests -> Nat]
  <2>1. \A q \in Requests : Stage(q)' \in Operation!Stages /\ Given(q)' \in Nat
    <3>1. ASSUME NEW q \in Requests \ {r} PROVE Stage(q)' \in Operation!Stages /\ Given(q)' \in Nat
      BY StageInStages, Moved DEF Operation!Stages
    <3>2. Stage(r)' \in Operation!Stages /\ Given(r)' \in Nat
      BY <1>1 DEF Operation!Stages, NoRecord
    <3> QED BY <3>1, <3>2
  <2> QED BY <2>1 DEF StageOf, AnswerOf
<1>3. \A q \in Requests :
        \/ StageOf'[q] = StageOf[q] /\ AnswerOf'[q] = AnswerOf[q]
        \/ /\ StageOf[q] \in {"begun", "served"} /\ StageOf'[q] \in {"begun", "refused"}
           /\ AnswerOf'[q] = Operation!NoAnswer
  BY <1>1, Moved DEF StageOf, AnswerOf, Operation!NoAnswer, NoRecord
<1>4. Operation!Stumble
  BY <1>2, <1>3, Moved DEF Operation!Stumble, StageOf, AnswerOf, LateOnes, PeersOf
<1> QED BY <1>4 DEF Operation!Next

\* A request with the key is answered with an execution that is not one of a request
\* without the key.
LEMMA Reuses ==
  ASSUME TypeInv, clients' = clients, OwnInv, Works, NEW r \in Requests, NEW e, Answer(r, e), queued' = queued,
         Stage(r) = "begun", path[r] \in {"redis", "memory"}, e \in queued,
         e = record \/ \E p \in Processes : e = memory[p].result
  PROVE  Operation!Next
<1>1. Moves(r) BY DEF Answer, GotoWith, Move, Moves, TypeInv, CallsOK, DataOK
<1>2. e # NoRecord BY DEF TypeInv, QueueOK, NoRecord, DataOK
<1>3. Stage(r)' = "answered" /\ Given(r)' = e
  <2>1. pc'[r] = "answered" /\ result'[r] = e
    BY DEF Answer, GotoWith, Move, TypeInv, CallsOK, DataOK
  <2> QED BY <2>1 DEF Stage, Given, At
<1>4. \A q \in Requests \ Keyed : Given(q) # e
  <2> SUFFICES ASSUME NEW q \in Requests \ Keyed, Given(q) = e PROVE FALSE OBVIOUS
  <2>1. result[q] = e /\ Stage(q) # "new" BY <1>2 DEF Given
  <2>2. path[q] = "direct"
    BY <2>1 DEF TypeInv, CallsOK, OwnInv, Keyed, Stage, At
  <2> QED BY <1>2, <2>1, <2>2 DEF OwnInv, Own
<1>5. r \in Keyed BY DEF Keyed
<1>6. Healthy' = Healthy BY DEF Works, world, Healthy
<1>7. Operation!Reuse(r, e)
  BY <1>1, <1>3, <1>4, <1>5, <1>6, Moved
  DEF Operation!Reuse, Operation!Watch, StageOf, AnswerOf, LateOnes, PeersOf
<1> QED BY <1>7 DEF Operation!Next

-----------------------------------------------------------------------------
(* Each action maps to a move of KeyedOperation or to a stutter. *)

LEMMA Redis == ASSUME TypeInv, clients' = clients, NEW r \in Requests, FallBack(r), path[r] = "redis"
               PROVE  Moves(r) /\ Stage(r)' = "begun" /\ Given(r)' = NoRecord
<1>1. /\ pc'[r] = "memory" /\ path'[r] = "memory" /\ result'[r] = NoRecord
      /\ \A q \in Requests \ {r} : pc'[q] = pc[q] /\ path'[q] = path[q] /\ result'[q] = result[q]
  BY DEF FallBack, Move, TypeInv, CallsOK, DataOK
<1>2. Moves(r) BY <1>1 DEF FallBack, Moves
<1>3. Stage(r)' = "begun" BY <1>1 DEF Stage, At
<1> QED BY <1>2, <1>3 DEF Given

LEMMA Goes ==
  ASSUME TypeInv, clients' = clients, NEW r \in Requests, NEW place, Goto(r, place)
  PROVE  Moves(r) /\ pc'[r] = place /\ result'[r] = result[r]
BY DEF Goto, Move, Moves, TypeInv, CallsOK, DataOK

LEMMA GoesWith ==
  ASSUME TypeInv, clients' = clients, NEW r \in Requests, NEW place, NEW e, GotoWith(r, place, e)
  PROVE  Moves(r) /\ pc'[r] = place /\ result'[r] = e
BY DEF GotoWith, Move, Moves, TypeInv, CallsOK, DataOK

LEMMA FailsTroubles == ASSUME TypeInv, Fails PROVE ~Healthy'
BY IdempotencyAssumption DEF Fails, Trouble, Healthy, TypeInv, WorldOK

Early == {"get", "lock", "pollRecord", "pollLock", "create", "enqueue", "memory", "pollMemory"}
LEMMA EarlyBegun == ASSUME NEW r \in Requests, pc[r] \in Early
                    PROVE  Stage(r) = "begun" /\ Given(r) = NoRecord
BY DEF Early, Stage, Given, At

\* What each step may assume.
Promised ==
  /\ TypeInv /\ TypeInv' /\ QueuedInv /\ ReuseInv /\ OwnInv /\ PolledInv
  /\ clients' = clients

LEMMA BeginMaps ==
  ASSUME Promised, NEW r \in Requests, Begin(r) PROVE Operation!Next
<1> USE DEF Promised
<1> DEFINE FindsAnswer ==
      \E q \in Requests : At(q, "answered") /\ path[q] # "direct" /\ Shares(q, r)
<1>1. /\ pc[r] = "idle" /\ pc'[r] \in {"get", "memory", "create"} /\ result' = result
      /\ \/ path'[r] \in {"redis", "memory"} /\ late'[r] = FindsAnswer
         \/ path'[r] = "direct" /\ late' = late
      /\ \A q \in Requests \ {r} : pc'[q] = pc[q] /\ path'[q] = path[q] /\ late'[q] = late[q]
  BY DEF Begin, At, BeginKeyed, BeginAt, Move, TypeInv, CallsOK
<1>2. \A q \in Requests \ {r} : Stage(q)' = Stage(q) /\ Given(q)' = Given(q)
  BY <1>1 DEF Stage, Given, At
<1>3. Stage(r) = "new" /\ Stage(r)' = "begun" /\ Given(r) = NoRecord /\ Given(r)' = NoRecord
  BY <1>1 DEF Stage, Given, At
<1>4. AnswerOf' = AnswerOf /\ StageOf' = [StageOf EXCEPT ![r] = "begun"]
  BY <1>2, <1>3 DEF StageOf, AnswerOf
<1>5. \A q \in Requests : At(q, "answered") /\ path[q] # "direct"
        <=> q \in Keyed /\ StageOf[q] = "answered"
  <2> TAKE q \in Requests
  <2>1. Stage(q) = "answered" <=> pc[q] = "answered" BY DEF Stage, At
  <2>2. pc[q] = "answered" /\ path[q] # "direct" => path[q] \in {"redis", "memory"}
    BY DEF TypeInv, CallsOK, OwnInv
  <2> QED BY <2>1, <2>2 DEF StageOf, Keyed, At
<1>6. r \notin Keyed /\ r \notin LateOnes BY <1>1 DEF OwnInv, Keyed, LateOnes
<1>7. queued' = queued /\ Healthy' = Healthy BY DEF Begin, Works, world, Healthy
<1>8. PeersOf' = PeersOf BY SamePeers
<1>9. FindsAnswer <=> \E q \in Keyed \cap PeersOf[r] : StageOf[q] = "answered"
  BY <1>5 DEF Keyed, PeersOf
<1> HIDE DEF FindsAnswer
<1>10. CASE path'[r] \in {"redis", "memory"} /\ late'[r] = FindsAnswer
  <2>1. Keyed' = Keyed \cup {r} BY <1>1, <1>10 DEF Keyed
  <2>2. LateOnes' = IF \E q \in Keyed \cap PeersOf[r] : StageOf[q] = "answered"
                    THEN LateOnes \cup {r} ELSE LateOnes
    BY <1>1, <1>6, <1>9, <1>10 DEF LateOnes
  <2>3. Operation!Begin(r, TRUE)
    BY <1>3, <1>4, <1>7, <1>8, <2>1, <2>2
    DEF Operation!Begin, StageOf, AnswerOf, LateOnes, PeersOf
  <2> QED BY <2>3 DEF Operation!Next
<1>11. CASE path'[r] = "direct" /\ late' = late
  <2>1. Keyed' = Keyed /\ LateOnes' = LateOnes BY <1>1, <1>6, <1>11 DEF Keyed, LateOnes
  <2>2. Operation!Begin(r, FALSE)
    BY <1>3, <1>4, <1>7, <1>8, <2>1 DEF Operation!Begin, StageOf, AnswerOf, LateOnes, PeersOf
  <2> QED BY <2>2 DEF Operation!Next
<1> QED BY <1>1, <1>10, <1>11

\* A record or an answer from it has a job, as has what a memory holds.
LEMMA FetchMaps ==
  ASSUME Promised, NEW r \in Requests, GetRecord(r) \/ PollRecord(r)
  PROVE  [Operation!Next]_(Operation!vars)
<1> USE DEF Promised
<1>1. path[r] = "redis" /\ pc[r] \in Early /\ queued' = queued
  BY DEF GetRecord, PollRecord, At, TypeInv, CallsOK, Early
<1>2. Stage(r) = "begun" /\ Given(r) = NoRecord BY <1>1, EarlyBegun
<1>3. CASE Works /\ record # NoRecord /\ Answer(r, record)
  BY <1>1, <1>2, <1>3, Reuses DEF QueuedInv
<1>4. CASE Works /\ \E place \in {"lock", "pollLock"} : Goto(r, place)
  <2>1. Moves(r) /\ pc'[r] \in {"lock", "pollLock"} BY <1>4, Goes
  <2>2. Stage(r)' = "begun" /\ Given(r)' = NoRecord BY <2>1 DEF Stage, Given, At
  <2> QED BY <1>1, <1>2, <1>4, <2>1, <2>2, Stays
<1>5. CASE Fails /\ FallBack(r) BY <1>1, <1>2, <1>5, FailsTroubles, Redis, Stays
<1> QED BY <1>3, <1>4, <1>5 DEF GetRecord, PollRecord

LEMMA WaitMaps ==
  ASSUME Promised, NEW r \in Requests, TakeLock(r) \/ PollLock(r) \/ PollTimeout(r)
  PROVE  [Operation!Next]_(Operation!vars)
<1> USE DEF Promised
<1>1. path[r] = "redis" /\ pc[r] \in Early /\ queued' = queued
  BY DEF TakeLock, PollLock, PollTimeout, At, TypeInv, CallsOK, Early
<1>2. Stage(r) = "begun" /\ Given(r) = NoRecord BY <1>1, EarlyBegun
<1>3. Works \/ ~Healthy' BY FailsTroubles DEF TakeLock, PollLock, PollTimeout
<1>4. CASE \E place \in {"create", "pollRecord"} : Goto(r, place)
  <2>1. Moves(r) /\ pc'[r] \in {"create", "pollRecord"} BY <1>4, Goes
  <2>2. Stage(r)' = "begun" /\ Given(r)' = NoRecord BY <2>1 DEF Stage, Given, At
  <2> QED BY <1>1, <1>2, <1>3, <2>1, <2>2, Stays
<1>5. CASE FallBack(r) BY <1>1, <1>2, <1>3, <1>5, Redis, Stays
<1> QED BY <1>4, <1>5 DEF TakeLock, PollLock, PollTimeout

\* An operation that throws leaves the request to start again, or refuses it.
LEMMA OperationFailsMaps ==
  ASSUME Promised, NEW r \in Requests, Fails, OperationFails(r), pc[r] \in Early,
         queued' = queued \/ \E e \in queued' : Operation!AddsJob(e)
  PROVE  [Operation!Next]_(Operation!vars)
<1> USE DEF Promised
<1>1. Stage(r) = "begun" /\ Given(r) = NoRecord BY EarlyBegun
<1>2. Moves(r) /\ pc'[r] \in {"release", "failed"} /\ result'[r] = NoRecord
  BY GoesWith DEF OperationFails
<1>3. Stage(r)' \in {"begun", "refused"} BY <1>2 DEF Stage, At
<1> QED BY <1>1, <1>2, <1>3, FailsTroubles, Stumbles

LEMMA CreateMaps ==
  ASSUME Promised, NEW r \in Requests, Create(r) PROVE [Operation!Next]_(Operation!vars)
<1> USE DEF Promised
<1>1. pc[r] \in Early /\ queued' = queued BY DEF Create, At, Early
<1>2. CASE Works /\ GotoWith(r, "enqueue", created + 1)
  <2>1. Moves(r) /\ pc'[r] = "enqueue" BY <1>2, GoesWith
  <2>2. Stage(r)' = "begun" /\ Given(r)' = NoRecord BY <2>1 DEF Stage, Given, At
  <2> QED BY <1>1, <1>2, <2>1, <2>2, EarlyBegun, Stays
<1>3. CASE Fails /\ OperationFails(r) BY <1>1, <1>3, OperationFailsMaps
<1> QED BY <1>2, <1>3 DEF Create

LEMMA EnqueueMaps ==
  ASSUME Promised, NEW r \in Requests, Enqueue(r) PROVE [Operation!Next]_(Operation!vars)
<1> USE DEF Promised
<1>1. pc[r] = "enqueue" /\ pc[r] \in Early /\ result[r] \notin queued /\ result[r] # NoRecord
  BY DEF Enqueue, At, Early, OwnInv, TypeInv, ResultsOK
<1>2. CASE Works /\ queued' = queued \cup {result[r]} /\ OperationSucceeds(r)
  <2>1. Moves(r) /\ pc'[r] \in {"store", "answered"} /\ result'[r] = result[r]
    BY <1>2, Goes DEF OperationSucceeds
  <2>2. Stage(r)' \in {"served", "answered"} /\ Given(r)' = result[r]
    BY <1>1, <2>1 DEF Stage, Given, At
  <2>3. late[r] => ~Healthy BY <1>1 DEF ReuseInv, LateInv
  <2>4. Healthy' = Healthy BY <1>2 DEF Works, world, Healthy
  <2>5. Operation!AddsJob(result[r]) BY <1>1, <1>2 DEF Operation!AddsJob
  <2>6. Stage(r) = "begun" BY <1>1, EarlyBegun
  <2>7. Operation!Serve(r, result[r])
    BY <2>1, <2>2, <2>3, <2>4, <2>5, <2>6, Moved
    DEF Operation!Serve, Operation!Watch, StageOf, AnswerOf, LateOnes, PeersOf
  <2> QED BY <1>2, <2>7 DEF Operation!Next
<1>3. CASE Fails /\ queued' \in {queued, queued \cup {result[r]}} /\ OperationFails(r)
  <2>1. queued' = queued \/ \E e \in queued' : Operation!AddsJob(e)
    BY <1>1, <1>3 DEF Operation!AddsJob
  <2> QED BY <1>1, <1>3, <2>1, OperationFailsMaps
<1> QED BY <1>2, <1>3 DEF Enqueue

LEMMA StoreMaps ==
  ASSUME Promised, NEW r \in Requests, Store(r) PROVE [Operation!Next]_(Operation!vars)
<1> USE DEF Promised
<1>1. pc[r] = "store" /\ result[r] # NoRecord /\ queued' = queued
  BY DEF Store, At, TypeInv, ResultsOK
<1>2. Stage(r) = "served" /\ Given(r) = result[r] BY <1>1 DEF Stage, Given, At
<1>3. CASE Works /\ Goto(r, "release")
  <2>1. Moves(r) /\ pc'[r] = "release" /\ result'[r] = result[r] BY <1>3, Goes
  <2>2. Stage(r)' = "served" /\ Given(r)' = result[r] BY <1>1, <2>1 DEF Stage, Given, At
  <2> QED BY <1>1, <1>2, <1>3, <2>1, <2>2, Stays
<1>4. CASE Fails /\ GotoWith(r, "release", NoRecord)
  <2>1. Moves(r) /\ pc'[r] = "release" /\ result'[r] = NoRecord BY <1>4, GoesWith
  <2>2. Stage(r)' = "begun" BY <2>1 DEF Stage, At
  <2> QED BY <1>1, <1>2, <1>4, <2>1, <2>2, FailsTroubles, Stumbles
<1> QED BY <1>3, <1>4 DEF Store

LEMMA ReleaseMaps ==
  ASSUME Promised, NEW r \in Requests, Release(r) PROVE [Operation!Next]_(Operation!vars)
<1> USE DEF Promised
<1>1. pc[r] = "release" /\ path[r] = "redis" /\ queued' = queued
  BY DEF Release, At, TypeInv, CallsOK
<1>2. Works \/ ~Healthy' BY FailsTroubles DEF Release
<1>3. CASE result[r] # NoRecord /\ Goto(r, "answered")
  <2>1. Moves(r) /\ pc'[r] = "answered" /\ result'[r] = result[r] BY <1>3, Goes
  <2>2. Stage(r) = "served" /\ Stage(r)' = "answered" /\ Given(r)' = Given(r)
    BY <1>1, <1>3, <2>1 DEF Stage, Given, At
  <2>3. AnswerOf' = AnswerOf BY <2>1, <2>2, Moved DEF AnswerOf
  <2>4. ~Healthy => ~Healthy' BY <1>2 DEF Works, world, Healthy
  <2>5. Operation!Answer(r)
    BY <1>1, <2>1, <2>2, <2>3, <2>4, Moved
    DEF Operation!Answer, Operation!Watch, StageOf, AnswerOf, LateOnes, PeersOf
  <2> QED BY <2>5 DEF Operation!Next
<1>4. CASE result[r] = NoRecord /\ FallBack(r)
  <2>1. Stage(r) = "begun" /\ Given(r) = NoRecord BY <1>1, <1>4 DEF Stage, Given, At
  <2> QED BY <1>1, <1>2, <1>4, <2>1, Redis, Stays
<1> QED BY <1>3, <1>4 DEF Release

LEMMA MemoryMaps ==
  ASSUME Promised, NEW r \in Requests, EnterMemory(r) \/ PollMemory(r)
  PROVE  [Operation!Next]_(Operation!vars)
<1> USE DEF Promised
<1> DEFINE mine == memory[ProcessOf[r]]
<1>0. ProcessOf[r] \in Processes BY IdempotencyAssumption
<1>1. path[r] = "memory" /\ pc[r] \in Early /\ queued' = queued
  BY DEF EnterMemory, PollMemory, At, TypeInv, CallsOK, Early
<1>2. Stage(r) = "begun" /\ Given(r) = NoRecord BY <1>1, EarlyBegun
<1>3. CASE Works /\ mine.state = "COMPLETED" /\ Answer(r, mine.result)
  BY <1>0, <1>1, <1>2, <1>3, Reuses DEF QueuedInv
<1>4. CASE Works /\ \E place \in {"create", "pollMemory"} : Goto(r, place)
  <2>1. Moves(r) /\ pc'[r] \in {"create", "pollMemory"} BY <1>4, Goes
  <2>2. Stage(r)' = "begun" /\ Given(r)' = NoRecord BY <2>1 DEF Stage, Given, At
  <2> QED BY <1>1, <1>2, <1>4, <2>1, <2>2, Stays
<1>5. CASE Goto(r, "failed") /\ ~Healthy'
  <2>1. Moves(r) /\ pc'[r] = "failed" BY <1>5, Goes
  <2>2. Stage(r)' = "refused" BY <2>1 DEF Stage, At
  <2> QED BY <1>1, <1>2, <1>5, <2>1, <2>2, Stumbles
<1>6. CASE EnterMemory(r) BY <1>3, <1>4, <1>6 DEF EnterMemory
<1>7. CASE PollMemory(r)
  <2>1. CASE Works /\ mine.state = "empty" /\ Goto(r, "failed")
    <3>1. ~Healthy BY <1>7, <2>1 DEF PollMemory, At, PolledInv
    <3>2. ~Healthy' BY <2>1, <3>1 DEF Works, world, Healthy
    <3> QED BY <1>5, <2>1, <3>2
  <2>2. CASE Fails /\ Goto(r, "failed") BY <1>5, <2>2, FailsTroubles
  <2> QED BY <1>3, <1>7, <2>1, <2>2 DEF PollMemory
<1> QED BY <1>6, <1>7

LEMMA LapseMaps == ASSUME Promised, LockLapses PROVE [Operation!Next]_(Operation!vars)
<1> USE DEF Promised
<1>1. /\ StageOf' = StageOf /\ AnswerOf' = AnswerOf /\ Keyed' = Keyed
      /\ LateOnes' = LateOnes /\ PeersOf' = PeersOf /\ queued' = queued
  BY SamePeers DEF LockLapses, StageOf, AnswerOf, Stage, Given, At, Keyed, LateOnes
<1>2. Healthy' = Healthy \/ ~Healthy'
  BY IdempotencyAssumption DEF LockLapses, Works, Trouble, world, Healthy, TypeInv, WorldOK
<1>3. CASE Healthy' = Healthy
  BY <1>1, <1>3 DEF Operation!vars, StageOf, AnswerOf, LateOnes, PeersOf
<1>4. CASE ~Healthy'
  <2>1. StageOf' \in [Requests -> Operation!Stages] /\ AnswerOf' \in [Requests -> Nat]
    BY <1>1, StageInStages DEF Operation!Stages, StageOf, AnswerOf
  <2>2. Operation!Stumble
    BY <1>1, <1>4, <2>1 DEF Operation!Stumble, StageOf, AnswerOf, LateOnes, PeersOf
  <2> QED BY <2>2 DEF Operation!Next
<1> QED BY <1>2, <1>3, <1>4

LEMMA CrashMaps ==
  ASSUME Promised, NEW p \in Processes, Crash(p) PROVE [Operation!Next]_(Operation!vars)
<1> USE DEF Promised
<1>1. ~Healthy' BY FailsTroubles DEF Crash
<1>2. Keyed' = Keyed /\ LateOnes' = LateOnes /\ PeersOf' = PeersOf /\ queued' = queued
  BY SamePeers DEF Crash, Keyed, LateOnes
<1>3. \A q \in Requests :
        \/ pc'[q] = pc[q]
        \/ pc[q] \notin {"idle", "answered", "failed", "lost"} /\ pc'[q] = "lost"
  BY DEF Crash, Ended
<1>4. \A q \in Requests :
        \/ Stage(q)' = Stage(q) /\ Given(q)' = Given(q)
        \/ /\ Stage(q) \in {"begun", "served"} /\ Stage(q)' = "refused"
           /\ Given(q)' = NoRecord
  BY <1>3 DEF Crash, Stage, Given, At
<1>5. StageOf' \in [Requests -> Operation!Stages] /\ AnswerOf' \in [Requests -> Nat]
  BY <1>4, StageInStages DEF Operation!Stages, StageOf, AnswerOf, NoRecord
<1>6. Operation!Stumble
  BY <1>1, <1>2, <1>4, <1>5
  DEF Operation!Stumble, Operation!NoAnswer, NoRecord, StageOf, AnswerOf, LateOnes, PeersOf
<1> QED BY <1>6 DEF Operation!Next

LEMMA ClientsStay == [Next]_vars => clients' = clients
BY DEF Next, ProcessIdempotentOperation, Begin, GetRecord, TakeLock, PollRecord, PollLock,
       PollTimeout, Create, Enqueue, Store, Release, EnterMemory, PollMemory, LockLapses,
       Crash, Works, Fails, Trouble, vars, world

LEMMA OperationMaps == Promised /\ [Next]_vars => [Operation!Next]_(Operation!vars)
<1> SUFFICES ASSUME Promised, [Next]_vars PROVE [Operation!Next]_(Operation!vars) OBVIOUS
<1>1. CASE \E r \in Requests : Begin(r) BY <1>1, BeginMaps
<1>2. ASSUME NEW r \in Requests, ProcessIdempotentOperation(r)
      PROVE  [Operation!Next]_(Operation!vars)
  BY <1>2, FetchMaps, WaitMaps, CreateMaps, EnqueueMaps, StoreMaps, ReleaseMaps, MemoryMaps
  DEF ProcessIdempotentOperation
<1>3. CASE LockLapses BY <1>3, LapseMaps
<1>4. CASE \E p \in Processes : Crash(p) BY <1>4, CrashMaps
<1>5. CASE UNCHANGED vars
  <2>1. PeersOf' = PeersOf BY <1>5, SamePeers DEF vars, world
  <2> QED
    BY <1>5, <2>1 DEF vars, world, Operation!vars, Stage, Given, At, Keyed, Healthy, PeersOf
<1> QED BY <1>1, <1>2, <1>3, <1>4, <1>5 DEF Next

LEMMA OperationInit == Init => Operation!Init
BY DEF Init, Operation!Init, Operation!NoAnswer, Stage, Given, At, Keyed, Healthy, NoRecord,
       Shares

\* The clients see KeyedOperation: an answer is an execution with a job, which is the
\* request's own or, if it bears the key, that of another one with the key; and unless
\* something has gone wrong, nobody is refused, a request adds one job at most, and none
\* when it comes after an answer of the same process or, with Redis clients, of any.
THEOREM ImplementsKeyedOperationHolds == Spec => ImplementsKeyedOperation
<1>1. Spec => [](TypeInv /\ QueuedInv /\ ReuseInv /\ OwnInv /\ PolledInv)
  <2>1. TypeInv => WorldOK /\ CallsOK /\ DataOK /\ QueueOK /\ MemoryOK /\ ResultsOK BY DEF TypeInv
  <2> QED
    BY <2>1, TypeAlways, QueuedInit, QueuedStep, LockInit, LockStep, ReuseInit, ReuseStep,
       OwnInit, OwnStep, PolledInit, PolledStep, PTL DEF Spec
<1>2. TypeInv /\ TypeInv' /\ QueuedInv /\ ReuseInv /\ OwnInv /\ PolledInv /\ [Next]_vars
        => [Operation!Next]_(Operation!vars)
  BY OperationMaps, ClientsStay DEF Promised
<1> QED BY <1>1, <1>2, OperationInit, PTL DEF Spec, ImplementsKeyedOperation, Operation!Spec
=============================================================================
