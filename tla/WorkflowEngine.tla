---------------------------- MODULE WorkflowEngine ----------------------------
(***************************************************************************)
(* The life of one workflow execution in the workflow service: the API     *)
(* call that triggers it, the BullMQ job that carries it, executeExecution *)
(* running its steps in a worker process, the 'failed' handler that        *)
(* retries or dead-letters it, the background scanner that recovers stale  *)
(* steps, and the operators who replay it from the dead-letter queue.      *)
(*                                                                         *)
(* Every statement of the code names its execution by id, so executions    *)
(* meet only in the limiters and in the order the scanner visits them; one *)
(* execution is modelled, with every process that may touch it.            *)
(*                                                                         *)
(* An action is what the code does between two awaits: one query, one      *)
(* Redis call, or one answer from a provider, with the local work after    *)
(* it.  A process may crash between any two of them.                       *)
(***************************************************************************)
EXTENDS RetryPolicy

CONSTANTS
  NumSteps,     \* steps of the workflow, ordered 1 .. NumSteps
  Workers,      \* worker processes, by workerId (HOSTNAME)
  Slots,        \* the concurrent job slots of all processes
  WorkerOf,     \* the process a slot belongs to
  JobIds,       \* ids of live BullMQ jobs: bounds how many live at once
  LetterIds,    \* ids of dead letters: bounds how many are kept at once
  Operators,    \* replay requests that may be in flight at once
  Failures,     \* what a step's request may fail with
  MaxStalls,    \* BullMQ's maxStalledCount, 1 by default
  MaxCrashes,   \* bound: crashes explored in one behaviour
  MaxPauses,    \* bound: leases and locks lost by a paused process
  MayExpire,    \* whether the hour of maxExecutionLifetimeMs may run out
  None          \* the null of a process or slot reference

Steps == 1 .. NumSteps
Attempts == 1 .. MaxNormalRetries
NoJob == 0

ASSUME EngineAssumption ==
  /\ NumSteps \in Nat \ {0}
  /\ WorkerOf \in [Slots -> Workers]
  /\ JobIds \subseteq Nat \ {0}
  /\ LetterIds \subseteq Nat
  /\ MaxStalls \in Nat /\ MaxCrashes \in Nat /\ MaxPauses \in Nat
  /\ MayExpire \in BOOLEAN
  /\ None \notin Workers \cup Slots

VARIABLES
  \* PostgreSQL
  status,       \* WorkflowExecution.status; "none" before the row exists
  currentStep,  \* WorkflowExecution.currentStep
  metadata,     \* the steps whose output WorkflowExecution.metadata holds
  rows,         \* StepExecution, by its unique key (stepId, attempt)
  \* Redis
  jobs,         \* the queue workflow-executions; finished jobs are forgotten
  letters,      \* the queue workflow-dlq
  \* processes
  up,           \* whether a process runs
  trigger,      \* the API call that creates the execution
  runs,         \* executeExecution, one call per busy slot
  scans,        \* recoverStaleExecutions, one call per process
  replays,      \* replayDlqJob, one call per operator
  expired,      \* whether an hour has passed since startedAt
  crashes,      \* history: crashes so far
  pauses        \* history: leases and locks lost by a run that lives

database == <<status, currentStep, metadata, rows>>
processes == <<up, trigger, runs, scans, replays>>
world == <<expired, crashes, pauses>>
vars == <<status, currentStep, metadata, rows, jobs, letters,
          up, trigger, runs, scans, replays, expired, crashes, pauses>>

-----------------------------------------------------------------------------
(* The records the variables hold. *)

Statuses == {"none", "pending", "running", "retrying", "completed", "failed"}
RowStatuses == {"absent", "PENDING", "RUNNING", "SUCCEEDED", "FAILED", "TIMED_OUT"}
Finished == {"SUCCEEDED", "FAILED", "TIMED_OUT"}

NoRow == [status |-> "absent", worker |-> None, fresh |-> FALSE]

FreeJob == [state |-> "free", attempt |-> 1, deferrals |-> 0, stalls |-> 0,
            owner |-> None, handler |-> None, err |-> GenericError]

NewJob(attempt, deferrals) ==
  [FreeJob EXCEPT !.state = "queued", !.attempt = attempt, !.deferrals = deferrals]

NoLetter == [state |-> "free", replayed |-> FALSE]

IdleRun == [pc |-> "idle", job |-> NoJob, attempt |-> 1, step |-> 1,
            inputs |-> {}, err |-> GenericError]
IdleScan == [pc |-> "idle", found |-> {}, sawRunning |-> FALSE, recovered |-> FALSE]
IdleReplay == [pc |-> "idle", letter |-> 0, worker |-> None,
               replayed |-> FALSE, metadata |-> {}]

Errors == {GenericError} \cup {classifyHttpError(a) : a \in Failures}

RowRecords == [status : RowStatuses, worker : Workers \cup {None}, fresh : BOOLEAN]
JobRecords == [state : {"free", "queued", "active", "failed", "buried"},
               attempt : Attempts, deferrals : 0 .. MaxRateLimitDeferrals,
               stalls : 0 .. MaxStalls, owner : Slots \cup {None},
               handler : Workers \cup {None}, err : Errors]
LetterRecords == [state : {"free", "waiting", "locked", "kept"}, replayed : BOOLEAN]
RunRecords == [pc : {"idle", "claim", "lookup", "active", "advance", "create", "start",
                     "execute", "succeed", "fail", "throw", "complete", "return"},
               job : JobIds \cup {NoJob}, attempt : Attempts, step : Steps,
               inputs : SUBSET Steps, err : Errors]
ScanRecords == [pc : {"idle", "mark", "flag", "check", "enqueue"},
                found : SUBSET (Steps \X Attempts), sawRunning : BOOLEAN, recovered : BOOLEAN]
ReplayRecords == [pc : {"idle", "check", "mark", "remove", "read", "log", "enqueue"},
                  letter : LetterIds \cup {0}, worker : Workers \cup {None},
                  replayed : BOOLEAN, metadata : SUBSET Steps]

TypeOK ==
  /\ status \in Statuses /\ currentStep \in Steps /\ metadata \in SUBSET Steps
  /\ rows \in [Steps \X Attempts -> RowRecords]
  /\ jobs \in [JobIds -> JobRecords]
  /\ letters \in [LetterIds -> LetterRecords]
  /\ up \in [Workers -> BOOLEAN]
  /\ trigger \in [pc : {"idle", "created", "done"}, worker : Workers \cup {None}]
  /\ runs \in [Slots -> RunRecords]
  /\ scans \in [Workers -> ScanRecords]
  /\ replays \in [Operators -> ReplayRecords]
  /\ expired \in BOOLEAN /\ crashes \in 0 .. MaxCrashes /\ pauses \in 0 .. MaxPauses

Init ==
  /\ status = "none" /\ currentStep = 1 /\ metadata = {}
  /\ rows = [k \in Steps \X Attempts |-> NoRow]
  /\ jobs = [j \in JobIds |-> FreeJob]
  /\ letters = [l \in LetterIds |-> NoLetter]
  /\ up = [w \in Workers |-> TRUE]
  /\ trigger = [pc |-> "idle", worker |-> None]
  /\ runs = [i \in Slots |-> IdleRun]
  /\ scans = [w \in Workers |-> IdleScan]
  /\ replays = [o \in Operators |-> IdleReplay]
  /\ expired = FALSE
  /\ crashes = 0 /\ pauses = 0

-----------------------------------------------------------------------------
(* The queue. *)

\* The ids open to a new job, in a step that forgets job `freed': one no job bears
\* and no run still refers to, since BullMQ never uses an id twice.
FreshJobIds(freed) ==
  {j \in JobIds : (jobs[j].state = "free" \/ j = freed) /\ \A i \in Slots : runs[i].job # j}

FreshLetterIds ==
  {l \in LetterIds : letters[l].state = "free"
                       /\ \A o \in Operators :
                            replays[o].pc = "idle" \/ replays[o].letter # l}

\* queue.add of `job', in a step that forgets job `freed'.
AddJob(job, freed) ==
  \E j \in FreshJobIds(freed) :
    /\ \A k \in FreshJobIds(freed) : j <= k
    /\ jobs' = [n \in JobIds |-> IF n = j THEN job
                                ELSE IF n = freed THEN FreeJob ELSE jobs[n]]

\* enqueueWorkflowExecution: counters start afresh.
enqueueWorkflowExecution == AddJob(NewJob(1, 0), NoJob)

\* getJobs(['active', 'waiting', 'delayed']) holds a job of the execution.
IsQueued == \E j \in JobIds : jobs[j].state \in {"queued", "active"}

\* The run in slot i still holds the lock of its job.
HoldsLock(i) ==
  /\ runs[i].job \in JobIds
  /\ jobs[runs[i].job].state = "active"
  /\ jobs[runs[i].job].owner = i

-----------------------------------------------------------------------------
(* triggerWorkflow: create the execution, then enqueue it. *)

TriggerCreate(w) ==
  /\ trigger.pc = "idle" /\ up[w]
  /\ trigger' = [pc |-> "created", worker |-> w]
  /\ status' = "pending"
  /\ UNCHANGED <<currentStep, metadata, rows, jobs, letters, up, runs, scans, replays, world>>

TriggerEnqueue ==
  /\ trigger.pc = "created"
  /\ trigger' = [trigger EXCEPT !.pc = "done"]
  /\ enqueueWorkflowExecution
  /\ UNCHANGED <<database, letters, up, runs, scans, replays, world>>

-----------------------------------------------------------------------------
(* executeExecution in slot i. *)

\* What changes nothing but the run itself and the database.
OnlyRun == UNCHANGED <<jobs, letters, up, trigger, scans, replays, world>>

Goto(i, pc) == runs' = [runs EXCEPT ![i].pc = pc]

\* Mutant of PassStep: the loop does not stop after the last step.
PassStepUnbounded(run) == [run EXCEPT !.pc = "lookup", !.step = run.step + 1]

\* The for loop's next iteration, or its end.
PassStep(run) ==
  IF run.step = NumSteps THEN [run EXCEPT !.pc = "complete"]
  ELSE [run EXCEPT !.pc = "lookup", !.step = run.step + 1]

\* Where an iteration's row is: the run creates it under (step, attempt).
RowOf(run) == <<run.step, run.attempt>>

\* A free slot takes a queued job and reads the execution.  The steps before the
\* currentStep just read are skipped without a lookup: their outputs are in the
\* input only if metadata holds them.
Fetch(i, j) ==
  /\ runs[i].pc = "idle" /\ up[WorkerOf[i]]
  /\ jobs[j].state = "queued"
  /\ jobs' = [jobs EXCEPT ![j].state = "active", ![j].owner = i]
  /\ runs' = [runs EXCEPT ![i] =
                [IdleRun EXCEPT !.pc = "claim", !.job = j, !.attempt = jobs[j].attempt,
                                !.step = currentStep, !.inputs = metadata]]
  /\ UNCHANGED <<database, letters, up, trigger, scans, replays, world>>

\* Mutants of Claimable: a job of a failed execution is let in; a job whose execution
\* a dead worker left running is not.
ClaimableWhenFailed == {"pending", "retrying", "running", "failed"}
ClaimableWhenPending == {"pending"}

Claimable == {"pending", "retrying", "running"}

Claim(i) ==
  /\ runs[i].pc = "claim"
  /\ IF status \in Claimable
     THEN /\ status' = IF runs[i].attempt > 1 THEN "retrying" ELSE "running"
          /\ Goto(i, "lookup")
     ELSE status' = status /\ Goto(i, "return")
  /\ UNCHANGED <<currentStep, metadata, rows>> /\ OnlyRun

\* A SUCCEEDED row of the step: reuse its output and go on.
LookupSucceeded(i) ==
  LET run == runs[i]
  IN  /\ run.pc = "lookup"
      /\ runs' = [runs EXCEPT ![i] =
                    IF \E a \in Attempts : rows[<<run.step, a>>].status = "SUCCEEDED"
                    THEN PassStep([run EXCEPT !.inputs = run.inputs \cup {run.step}])
                    ELSE [run EXCEPT !.pc = "active"]]
      /\ UNCHANGED database /\ OnlyRun

\* The attempts at step s with a fresh heartbeat.
ActiveAttempts(s) ==
  {a \in Attempts : rows[<<s, a>>].status = "RUNNING" /\ rows[<<s, a>>].fresh}

\* findFirst returns any one fresh RUNNING row; if it is another process's, the
\* step is passed over.
CheckActive(i) ==
  LET run == runs[i]
      active == ActiveAttempts(run.step)
      foreign == {a \in active : rows[<<run.step, a>>].worker # WorkerOf[i]}
  IN  /\ run.pc = "active"
      /\ \/ foreign # {} /\ runs' = [runs EXCEPT ![i] = PassStep(run)]
         \/ active = {} /\ Goto(i, "advance")
         \/ active # foreign /\ Goto(i, "advance")
      /\ UNCHANGED database /\ OnlyRun

\* Mutants of AdvanceCurrentStep: without the condition currentStep < stepOrder; to the
\* step after.
AdvanceToAnyStep(i) ==
  /\ runs[i].pc = "advance"
  /\ currentStep' = IF status \in {"running", "retrying"} THEN runs[i].step ELSE currentStep
  /\ Goto(i, "create")
  /\ UNCHANGED <<status, metadata, rows>> /\ OnlyRun

AdvancePastStep(i) ==
  /\ runs[i].pc = "advance"
  /\ currentStep' = IF runs[i].step < NumSteps THEN runs[i].step + 1 ELSE currentStep
  /\ Goto(i, "create")
  /\ UNCHANGED <<status, metadata, rows>> /\ OnlyRun

AdvanceCurrentStep(i) ==
  /\ runs[i].pc = "advance"
  /\ currentStep' = IF currentStep < runs[i].step /\ status \in {"running", "retrying"}
                    THEN runs[i].step ELSE currentStep
  /\ Goto(i, "create")
  /\ UNCHANGED <<status, metadata, rows>> /\ OnlyRun

\* Mutant of CreateRow: an upsert takes the place of the insert.
UpsertRow(i) ==
  /\ runs[i].pc = "create"
  /\ rows' = [rows EXCEPT ![RowOf(runs[i])] = [NoRow EXCEPT !.status = "PENDING",
                                                           !.worker = WorkerOf[i]]]
  /\ Goto(i, "start")
  /\ UNCHANGED <<status, currentStep, metadata>> /\ OnlyRun

\* The insert fails on the unique key if the attempt's row is already there.
CreateRow(i) ==
  LET k == RowOf(runs[i])
  IN  /\ runs[i].pc = "create"
      /\ IF rows[k].status = "absent"
         THEN /\ rows' = [rows EXCEPT ![k] = [NoRow EXCEPT !.status = "PENDING",
                                                           !.worker = WorkerOf[i]]]
              /\ Goto(i, "start")
         ELSE /\ rows' = rows
              /\ runs' = [runs EXCEPT ![i].pc = "throw", ![i].err = GenericError]
      /\ UNCHANGED <<status, currentStep, metadata>> /\ OnlyRun

\* PENDING -> RUNNING, and the heartbeat timer starts.
StartRow(i) ==
  LET k == RowOf(runs[i])
  IN  /\ runs[i].pc = "start"
      /\ IF rows[k].status = "PENDING"
         THEN /\ rows' = [rows EXCEPT ![k].status = "RUNNING", ![k].fresh = TRUE,
                                      ![k].worker = WorkerOf[i]]
              /\ Goto(i, "execute")
         ELSE rows' = rows /\ runs' = [runs EXCEPT ![i] = PassStep(runs[i])]
      /\ UNCHANGED <<status, currentStep, metadata>> /\ OnlyRun

\* executeStep returns, or throws the classified failure.  A refusal by one of
\* the outbound limiters is the failure of a 429 answer: RATE_LIMITED with a
\* retry time.
ExecuteStep(i) ==
  /\ runs[i].pc = "execute"
  /\ \/ Goto(i, "succeed")
     \/ \E a \in Failures :
          runs' = [runs EXCEPT ![i].pc = "fail", ![i].err = classifyHttpError(a)]
  /\ UNCHANGED database /\ OnlyRun

\* Mutant of FinishedRow: the update by id alone, as in the fallback without updateMany.
FinishedAnyhow(i, row, end) == [row EXCEPT !.status = end, !.fresh = FALSE]

\* The row as finished by the run in slot i: only if it is still RUNNING and its own.
FinishedRow(i, row, end) ==
  IF row.status = "RUNNING" /\ row.worker = WorkerOf[i]
  THEN [row EXCEPT !.status = end, !.fresh = FALSE] ELSE row

\* The count of the update is not looked at: the run goes on even if the row had
\* been taken from it.
RecordSuccess(i) ==
  LET run == runs[i]
  IN  /\ run.pc = "succeed"
      /\ rows' = [rows EXCEPT ![RowOf(run)] = FinishedRow(i, @, "SUCCEEDED")]
      /\ runs' = [runs EXCEPT ![i] = PassStep([run EXCEPT !.inputs = run.inputs \cup {run.step}])]
      /\ UNCHANGED <<status, currentStep, metadata>> /\ OnlyRun

\* Mutant of RecordFailure: the error is recorded and not thrown on.
SwallowFailure(i) ==
  LET run == runs[i]
  IN  /\ run.pc = "fail"
      /\ rows' = [rows EXCEPT ![RowOf(run)] = FinishedRow(i, @, "FAILED")]
      /\ runs' = [runs EXCEPT ![i] = PassStep(run)]
      /\ UNCHANGED <<status, currentStep, metadata>> /\ OnlyRun

RecordFailure(i) ==
  LET run == runs[i]
      end == IF run.err.category = "TIMEOUT" \/ run.err.status = 408
             THEN "TIMED_OUT" ELSE "FAILED"
  IN  /\ run.pc = "fail"
      /\ rows' = [rows EXCEPT ![RowOf(run)] = FinishedRow(i, @, end)]
      /\ Goto(i, "throw")
      /\ UNCHANGED <<status, currentStep, metadata>> /\ OnlyRun

Complete(i) ==
  /\ runs[i].pc = "complete"
  /\ IF status \in {"running", "retrying"}
     THEN status' = "completed" /\ metadata' = runs[i].inputs
     ELSE UNCHANGED <<status, metadata>>
  /\ Goto(i, "return")
  /\ UNCHANGED <<currentStep, rows>> /\ OnlyRun

\* The processor returns: BullMQ completes the job, unless its lock is lost.
Return(i) ==
  /\ runs[i].pc = "return"
  /\ jobs' = IF HoldsLock(i) THEN [jobs EXCEPT ![runs[i].job] = FreeJob] ELSE jobs
  /\ runs' = [runs EXCEPT ![i] = IdleRun]
  /\ UNCHANGED <<database, letters, up, trigger, scans, replays, world>>

\* The processor throws: BullMQ fails the job and, if the lock is still held,
\* emits 'failed' in the same process.
Throw(i) ==
  /\ runs[i].pc = "throw"
  /\ jobs' = IF HoldsLock(i)
             THEN [jobs EXCEPT ![runs[i].job] =
                    [@ EXCEPT !.state = "failed", !.owner = None,
                              !.handler = WorkerOf[i], !.err = runs[i].err]]
             ELSE jobs
  /\ runs' = [runs EXCEPT ![i] = IdleRun]
  /\ UNCHANGED <<database, letters, up, trigger, scans, replays, world>>

ExecuteExecution(i) ==
  \/ Claim(i) \/ LookupSucceeded(i) \/ CheckActive(i) \/ AdvanceCurrentStep(i)
  \/ CreateRow(i) \/ StartRow(i) \/ ExecuteStep(i) \/ RecordSuccess(i)
  \/ RecordFailure(i) \/ Complete(i) \/ Return(i) \/ Throw(i)

-----------------------------------------------------------------------------
(* The 'failed' handler of job j: judge the error, then either add the next *)
(* job or a dead letter, and after a dead letter mark the execution failed. *)

\* The lookup of startedAt may fail; the handler then takes the execution for new.
Decisions(j) ==
  {calculateRetryDecision(jobs[j].err, jobs[j].attempt, jobs[j].deferrals, late) :
     late \in {expired, FALSE}}

HandleRetry(j) ==
  /\ jobs[j].state = "failed"
  /\ \E d \in Decisions(j) :
       /\ d.shouldRetry
       /\ AddJob(NewJob(d.attempt, d.deferrals), j)
  /\ UNCHANGED <<database, letters, processes, world>>

\* Mutant of HandleBury: the handler ends with the dead letter.
BuryAndForget(j) ==
  /\ jobs[j].state = "failed"
  /\ \E d \in Decisions(j) : ~d.shouldRetry
  /\ \E l \in FreshLetterIds :
       letters' = [letters EXCEPT ![l] = [NoLetter EXCEPT !.state = "waiting"]]
  /\ jobs' = [jobs EXCEPT ![j] = FreeJob]
  /\ UNCHANGED <<database, processes, world>>

HandleBury(j) ==
  /\ jobs[j].state = "failed"
  /\ \E d \in Decisions(j) : ~d.shouldRetry
  /\ \E l \in FreshLetterIds :
       /\ \A m \in FreshLetterIds : l <= m
       /\ letters' = [letters EXCEPT ![l] = [NoLetter EXCEPT !.state = "waiting"]]
  /\ jobs' = [jobs EXCEPT ![j].state = "buried"]
  /\ UNCHANGED <<database, processes, world>>

markAsFailed(j) ==
  /\ jobs[j].state = "buried"
  /\ status' = IF status # "completed" THEN "failed" ELSE status
  /\ jobs' = [jobs EXCEPT ![j] = FreeJob]
  /\ UNCHANGED <<currentStep, metadata, rows, letters, processes, world>>

-----------------------------------------------------------------------------
(* recoverStaleExecutions in process w, on its timer. *)

\* Mutant of StaleRows: looks only at executions that are running.
StaleRowsOfRunning ==
  {k \in Steps \X Attempts :
     rows[k].status = "RUNNING" /\ ~rows[k].fresh /\ status = "running"}

StaleRows ==
  {k \in Steps \X Attempts : rows[k].status = "RUNNING" /\ ~rows[k].fresh}

\* What changes nothing but the scan itself.
OnlyScan == UNCHANGED <<letters, up, trigger, runs, replays, world>>

\* findMany returns the stale rows, each with the execution as it is now.
ScanFind(w) ==
  /\ scans[w].pc = "idle" /\ up[w] /\ StaleRows # {}
  /\ scans' = [scans EXCEPT ![w] = [IdleScan EXCEPT !.pc = "mark", !.found = StaleRows,
                                                    !.sawRunning = (status = "running")]]
  /\ UNCHANGED <<database, jobs>> /\ OnlyScan

\* The scan after a row is dealt with.
ScanNext(scan) ==
  [scan EXCEPT !.pc = IF scan.found # {} THEN "mark"
                      ELSE IF scan.recovered THEN "check" ELSE "idle"]

\* RUNNING -> TIMED_OUT for a row that was stale when it was found.
ScanMark(w, k) ==
  LET scan == [scans[w] EXCEPT !.found = scans[w].found \ {k}]
      won == [scan EXCEPT !.recovered = TRUE]
  IN  /\ scans[w].pc = "mark" /\ k \in scans[w].found
      /\ IF rows[k].status = "RUNNING"
         THEN /\ rows' = [rows EXCEPT ![k].status = "TIMED_OUT", ![k].fresh = FALSE]
              /\ scans' = [scans EXCEPT ![w] = IF scan.sawRunning
                                               THEN [won EXCEPT !.pc = "flag"] ELSE ScanNext(won)]
         ELSE rows' = rows /\ scans' = [scans EXCEPT ![w] = ScanNext(scan)]
      /\ UNCHANGED <<status, currentStep, metadata, jobs>> /\ OnlyScan

ScanFlag(w) ==
  /\ scans[w].pc = "flag"
  /\ status' = IF status = "running" THEN "retrying" ELSE status
  /\ scans' = [scans EXCEPT ![w] = ScanNext(scans[w])]
  /\ UNCHANGED <<currentStep, metadata, rows, jobs>> /\ OnlyScan

ScanCheck(w) ==
  /\ scans[w].pc = "check"
  /\ scans' = [scans EXCEPT ![w] = IF IsQueued THEN IdleScan
                                   ELSE [IdleScan EXCEPT !.pc = "enqueue"]]
  /\ UNCHANGED <<database, jobs>> /\ OnlyScan

ScanEnqueue(w) ==
  /\ scans[w].pc = "enqueue"
  /\ enqueueWorkflowExecution
  /\ scans' = [scans EXCEPT ![w] = IdleScan]
  /\ UNCHANGED database /\ OnlyScan

RecoverStaleExecutions(w) ==
  \/ ScanFind(w) \/ (\E k \in Steps \X Attempts : ScanMark(w, k))
  \/ ScanFlag(w) \/ ScanCheck(w) \/ ScanEnqueue(w)

-----------------------------------------------------------------------------
(* replayDlqJob for operator o, served by a process. *)

OnlyReplay == UNCHANGED <<up, trigger, runs, scans, world>>

ReplayTo(o, pc) == replays' = [replays EXCEPT ![o].pc = pc]
ReplayEnds(o) == replays' = [replays EXCEPT ![o] = IdleReplay]

ReplayGetJob(o, l, w) ==
  /\ replays[o].pc = "idle" /\ up[w] /\ letters[l].state # "free"
  /\ replays' = [replays EXCEPT ![o] =
                   [IdleReplay EXCEPT !.pc = "check", !.letter = l, !.worker = w,
                                      !.replayed = letters[l].replayed]]
  /\ UNCHANGED <<database, jobs, letters>> /\ OnlyReplay

\* Refused while a job of the execution is queued, or if already replayed when read.
ReplayCheck(o) ==
  /\ replays[o].pc = "check"
  /\ IF IsQueued \/ replays[o].replayed THEN ReplayEnds(o) ELSE ReplayTo(o, "mark")
  /\ UNCHANGED <<database, jobs, letters>> /\ OnlyReplay

\* updateData fails if the letter has been removed meanwhile.
ReplayMark(o) ==
  LET l == replays[o].letter
  IN  /\ replays[o].pc = "mark"
      /\ IF letters[l].state = "free" THEN ReplayEnds(o) /\ letters' = letters
         ELSE ReplayTo(o, "remove") /\ letters' = [letters EXCEPT ![l].replayed = TRUE]
      /\ UNCHANGED <<database, jobs>> /\ OnlyReplay

\* remove fails on a letter the workflow-dlq worker holds the lock of.
ReplayRemove(o) ==
  LET l == replays[o].letter
  IN  /\ replays[o].pc = "remove"
      /\ IF letters[l].state = "locked" THEN ReplayEnds(o) /\ letters' = letters
         ELSE ReplayTo(o, "read") /\ letters' = [letters EXCEPT ![l] = NoLetter]
      /\ UNCHANGED <<database, jobs>> /\ OnlyReplay

ReplayRead(o) ==
  /\ replays[o].pc = "read"
  /\ replays' = [replays EXCEPT ![o].pc = "log", ![o].metadata = metadata]
  /\ UNCHANGED <<database, jobs, letters>> /\ OnlyReplay

\* logReplayEvent's update has no condition on the status, and writes back the
\* metadata it read.
ReplayLog(o) ==
  /\ replays[o].pc = "log"
  /\ status' = "running"
  /\ metadata' = replays[o].metadata
  /\ ReplayTo(o, "enqueue")
  /\ UNCHANGED <<currentStep, rows, jobs, letters>> /\ OnlyReplay

ReplayEnqueue(o) ==
  /\ replays[o].pc = "enqueue"
  /\ enqueueWorkflowExecution
  /\ ReplayEnds(o)
  /\ UNCHANGED <<database, letters>> /\ OnlyReplay

ReplayDlqJob(o) ==
  \/ \E l \in LetterIds, w \in Workers : ReplayGetJob(o, l, w)
  \/ ReplayCheck(o) \/ ReplayMark(o) \/ ReplayRemove(o)
  \/ ReplayRead(o) \/ ReplayLog(o) \/ ReplayEnqueue(o)

\* The workflow-dlq worker takes each letter once and keeps it as completed.
DlqWorker(l) ==
  /\ letters[l].state \in {"waiting", "locked"}
  /\ letters' = [letters EXCEPT ![l].state =
                   IF letters[l].state = "waiting" THEN "locked" ELSE "kept"]
  /\ UNCHANGED <<database, jobs, processes, world>>

-----------------------------------------------------------------------------
(* Time, leases and crashes. *)

\* The run in slot i is between claiming row k and finishing it: its timer beats.
Beats(i, k) == runs[i].pc \in {"execute", "succeed", "fail"} /\ RowOf(runs[i]) = k

Heartbeat(i) ==
  LET k == RowOf(runs[i])
  IN  /\ Beats(i, k)
      /\ rows[k].status = "RUNNING" /\ rows[k].worker = WorkerOf[i] /\ ~rows[k].fresh
      /\ rows' = [rows EXCEPT ![k].fresh = TRUE]
      /\ UNCHANGED <<status, currentStep, metadata, runs>> /\ OnlyRun

\* A lease or lock lapses: always if nothing renews it, and if a live run does, only
\* by a pause of its process.
Lapses(renewed) == IF renewed THEN pauses < MaxPauses /\ pauses' = pauses + 1
                   ELSE pauses' = pauses

\* Thirty seconds without a heartbeat: no run beats, or its process is paused.
LeaseExpires(k) ==
  /\ rows[k].status = "RUNNING" /\ rows[k].fresh
  /\ Lapses(\E i \in Slots : Beats(i, k))
  /\ rows' = [rows EXCEPT ![k].fresh = FALSE]
  /\ UNCHANGED <<status, currentStep, metadata, jobs, letters, processes, expired, crashes>>

\* BullMQ's stalled check, run by live process w, finds the lock of job j expired:
\* back to the queue, or failed if that has happened too often.
Stalled(j, w) ==
  /\ up[w] /\ jobs[j].state = "active"
  /\ Lapses(\E i \in Slots : runs[i].job = j /\ HoldsLock(i))
  /\ jobs' = [jobs EXCEPT ![j] =
                IF jobs[j].stalls < MaxStalls
                THEN [@ EXCEPT !.state = "queued", !.owner = None,
                             !.stalls = jobs[j].stalls + 1]
                ELSE [@ EXCEPT !.state = "failed", !.owner = None, !.handler = w,
                               !.err = GenericError]]
  /\ UNCHANGED <<database, letters, processes, expired, crashes>>

Expire ==
  /\ MayExpire /\ ~expired /\ trigger.pc = "done"
  /\ expired' = TRUE
  /\ UNCHANGED <<database, jobs, letters, processes, crashes, pauses>>

\* A crash takes everything the process was doing: its runs, its handlers, its
\* scan, the requests it served.  Jobs it held stay active until they are stalled.
Crash(w) ==
  /\ up[w] /\ crashes < MaxCrashes
  /\ crashes' = crashes + 1
  /\ up' = [up EXCEPT ![w] = FALSE]
  /\ runs' = [i \in Slots |-> IF WorkerOf[i] = w THEN IdleRun ELSE runs[i]]
  /\ jobs' = [j \in JobIds |->
               IF jobs[j].state \in {"failed", "buried"} /\ jobs[j].handler = w
               THEN FreeJob ELSE jobs[j]]
  /\ scans' = [scans EXCEPT ![w] = IdleScan]
  /\ replays' = [o \in Operators |->
                  IF replays[o].worker = w THEN IdleReplay ELSE replays[o]]
  /\ trigger' = IF trigger.pc = "created" /\ trigger.worker = w
                THEN [trigger EXCEPT !.pc = "done"] ELSE trigger
  /\ UNCHANGED <<database, letters, expired, pauses>>

Restart(w) ==
  /\ ~up[w]
  /\ up' = [up EXCEPT ![w] = TRUE]
  /\ UNCHANGED <<database, jobs, letters, trigger, runs, scans, replays, world>>

-----------------------------------------------------------------------------
Next ==
  \/ TriggerEnqueue \/ Expire
  \/ \E w \in Workers : TriggerCreate(w) \/ RecoverStaleExecutions(w) \/ Crash(w) \/ Restart(w)
  \/ \E i \in Slots : ExecuteExecution(i) \/ Heartbeat(i) \/ (\E j \in JobIds : Fetch(i, j))
  \/ \E j \in JobIds : \/ HandleRetry(j) \/ HandleBury(j) \/ markAsFailed(j)
                      \/ \E w \in Workers : Stalled(j, w)
  \/ \E l \in LetterIds : DlqWorker(l)
  \/ \E o \in Operators : ReplayDlqJob(o)
  \/ \E k \in Steps \X Attempts : LeaseExpires(k)

Spec == Init /\ [][Next]_vars

(***************************************************************************)
(* Fairness.  Node runs every callback that is ready, every query ends, a  *)
(* request is given a timeout, BullMQ's workers poll, its stalled check    *)
(* and the scanner run on timers, and a crashed process is restarted.      *)
(* Nothing obliges a client to trigger, an operator to ask for a replay, a *)
(* process to crash or to be paused.                                       *)
(***************************************************************************)
Fairness ==
  /\ WF_vars(TriggerEnqueue)
  /\ \A i \in Slots : WF_vars(ExecuteExecution(i) \/ \E j \in JobIds : Fetch(i, j))
  /\ \A j \in JobIds : WF_vars(\/ HandleRetry(j) \/ HandleBury(j) \/ markAsFailed(j)
                               \/ \E w \in Workers : Stalled(j, w))
  /\ \A w \in Workers : WF_vars(RecoverStaleExecutions(w) \/ Restart(w))
  /\ WF_vars(\E k \in Steps \X Attempts : LeaseExpires(k))

FairSpec == Spec /\ Fairness

-----------------------------------------------------------------------------
(* Safety. *)

Terminal == {"completed", "failed"}
Succeeded(s) == \E a \in Attempts : rows[<<s, a>>].status = "SUCCEEDED"
Holds(i) == runs[i].pc \in {"start", "execute", "succeed", "fail"}

\* The atomic claim (create under the unique key, then PENDING -> RUNNING): no two
\* calls of executeExecution ever work on the same StepExecution row, however jobs
\* are duplicated by recovery, stalls and replays.
OneRunPerRow ==
  \A i, j \in Slots :
    Holds(i) /\ Holds(j) /\ RowOf(runs[i]) = RowOf(runs[j]) => i = j

\* A StepExecution is finished once: a late answer never overwrites the verdict
\* of the scanner, nor the scanner the result of a step (the status and workerId
\* conditions of the updates in workflow-engine.service.ts).
RowsFinishOnce ==
  [][\A k \in Steps \X Attempts :
       rows[k].status \in Finished => rows'[k] = rows[k]]_vars

\* A slow run that is overtaken never moves the execution's pointer back to a step
\* that a faster run has left.
CurrentStepNeverGoesBack == [][currentStep' >= currentStep]_vars

\* In one process that may crash but is not paused, an execution is completed only
\* when every step of its workflow has succeeded, whichever runs were lost half-way,
\* repeated, or overlapped (the loop over the steps in executeExecution).
CompletedMeansSucceeded ==
  status = "completed" => \A s \in Steps : Succeeded(s)

\* README.md:10, at-least-once execution: each step of a completed execution has a
\* SUCCEEDED row, or an output in the result, or a run that is still at work on it.
AtLeastOnce ==
  status = "completed" =>
    \A s \in Steps : \/ Succeeded(s) \/ s \in metadata
                     \/ \E i \in Slots : runs[i].pc # "idle" /\ runs[i].step = s

\* README.md:98, docs/IDEMPOTENCY.md:64: the atomic claim keeps duplicated jobs from
\* executing a step at the same time.
NoDuplicateExecution ==
  \A i, j \in Slots :
    runs[i].pc = "execute" /\ runs[j].pc = "execute" /\ runs[i].step = runs[j].step => i = j

\* As long as no process has crashed or been paused beyond its leases, and replays come
\* one at a time, every step succeeds exactly once, whichever processes the job, its
\* retries, deferrals and replays meet: no two runs are at the same step's request, none
\* repeats a request that has succeeded, and none completes the execution without it.
Calm == crashes = 0 /\ pauses = 0 /\ \A o, p \in Operators : o = p
ExactlyOnceInCalm ==
  Calm => /\ NoDuplicateExecution /\ CompletedMeansSucceeded
          /\ \A i \in Slots : runs[i].pc = "execute" => ~Succeeded(runs[i].step)

\* As long as no process crashes, an execution is never abandoned: when no job,
\* handler, scan, replay or trigger is left to act on it, it is finished.
Idle ==
  /\ \A j \in JobIds : jobs[j].state = "free"
  /\ \A i \in Slots : runs[i].pc = "idle"
  /\ \A w \in Workers : scans[w].pc = "idle"
  /\ \A o \in Operators : replays[o].pc = "idle"
  /\ trigger.pc = "done"
OrphanOnlyByCrash == Idle /\ crashes = 0 => status \in Terminal

\* Seen from outside, all of this is the simple life cycle of ExecutionLifecycle:
\* duplicated jobs, late runs, scans and handlers never reopen a finished execution
\* or fail one without a dead letter.
Buried == {l \in LetterIds : letters[l].state # "free"}
Giving == {j \in JobIds : jobs[j].state = "buried"}
Replaying == {o \in Operators : replays[o].pc \notin {"idle", "enqueue"}}
Lifecycle ==
  INSTANCE ExecutionLifecycle WITH
    Handlers <- JobIds, Letters <- LetterIds, Requests <- Operators,
    buried <- Buried, giving <- Giving, replaying <- Replaying
ImplementsLifecycle == Lifecycle!Spec

-----------------------------------------------------------------------------
(* Liveness. *)

\* Once the crashes are over, an execution that still has a job in Redis finishes,
\* whatever point of executeExecution its process died at.
QueuedJobFinishes == (IsQueued /\ crashes = MaxCrashes) ~> (status \in Terminal)

\* A triggered execution finishes, unless a crash loses it.
TriggeredFinishes == (trigger.pc = "created") ~> (status \in Terminal \/ crashes > 0)

\* A step whose process died does not stay RUNNING.
DeadStepIsReclaimed ==
  \A k \in Steps \X Attempts :
    (rows[k].status = "RUNNING" /\ \A i \in Slots : ~Beats(i, k))
      ~> (rows[k].status \in Finished)
=============================================================================
