------------------------- MODULE WorkflowEngineProofs -------------------------
(***************************************************************************)
(* Theorems about WorkflowEngine, for any number of steps, processes,      *)
(* slots, jobs, letters, operators, retries, stalls, crashes and pauses.   *)
(***************************************************************************)
EXTENDS WorkflowEngine, TLAPS

-----------------------------------------------------------------------------
(* Types. *)

\* The records handed out as fresh are of their types.
LEMMA FreshRecords ==
  /\ NoRow \in RowRecords /\ FreeJob \in JobRecords /\ NoLetter \in LetterRecords
  /\ IdleRun \in RunRecords /\ IdleScan \in ScanRecords /\ IdleReplay \in ReplayRecords
  BY RetryBudgetAssumption, EngineAssumption
  DEF Steps, Attempts, NoJob, NoRow, RowRecords, RowStatuses, FreeJob, JobRecords, Errors, NoLetter,
     LetterRecords, IdleRun, RunRecords, IdleScan, ScanRecords, IdleReplay, ReplayRecords

\* A decision keeps within both budgets, whatever the error: a retry is numbered at
\* most MaxNormalRetries, and at most MaxRateLimitDeferrals deferrals are counted.
LEMMA DecisionWithinBudgets ==
  ASSUME NEW err, NEW attempt \in Attempts, NEW deferrals \in 0 .. MaxRateLimitDeferrals,
         NEW late
  PROVE  LET d == calculateRetryDecision(err, attempt, deferrals, late)
         IN  d.attempt \in Attempts /\ d.deferrals \in 0 .. MaxRateLimitDeferrals
  BY RetryBudgetAssumption DEF Attempts, calculateRetryDecision, Stop, RetryAs

LEMMA NewJobType ==
  ASSUME NEW a \in Attempts, NEW d \in 0 .. MaxRateLimitDeferrals
  PROVE  NewJob(a, d) \in JobRecords
  BY FreshRecords DEF NewJob, FreeJob, JobRecords, Errors

LEMMA AddJobType ==
  ASSUME jobs \in [JobIds -> JobRecords], NEW job \in JobRecords, NEW freed,
         AddJob(job, freed)
  PROVE  jobs' \in [JobIds -> JobRecords]
  BY FreshRecords DEF AddJob

LEMMA EnqueueType ==
  ASSUME TypeOK, enqueueWorkflowExecution
  PROVE  jobs' \in [JobIds -> JobRecords]
<1>1. NewJob(1, 0) \in JobRecords BY RetryBudgetAssumption, NewJobType DEF Attempts
<1> QED BY <1>1, AddJobType DEF enqueueWorkflowExecution, TypeOK

LEMMA RunMovesOn ==
  ASSUME NEW run \in RunRecords
  PROVE  /\ PassStep(run) \in RunRecords
         /\ PassStep([run EXCEPT !.inputs = run.inputs \cup {run.step}]) \in RunRecords
<1>1. run.step \in Steps /\ run.inputs \in SUBSET Steps BY DEF RunRecords
<1>2. ASSUME NEW r \in RunRecords, r.step = run.step PROVE PassStep(r) \in RunRecords
  <2>1. CASE r.step = NumSteps BY <2>1 DEF PassStep, RunRecords
  <2>2. CASE r.step # NumSteps
    <3>1. r.step + 1 \in Steps BY <1>1, <1>2, <2>2, EngineAssumption DEF Steps
    <3>2. PassStep(r) = [r EXCEPT !.pc = "lookup", !.step = r.step + 1]
      BY <2>2 DEF PassStep
    <3> QED BY <3>1, <3>2 DEF RunRecords
  <2> QED BY <2>1, <2>2
<1>3. [run EXCEPT !.inputs = run.inputs \cup {run.step}] \in RunRecords
  BY <1>1 DEF RunRecords
<1>4. [run EXCEPT !.inputs = run.inputs \cup {run.step}].step = run.step
  BY DEF RunRecords
<1> QED BY <1>2, <1>3, <1>4

LEMMA InitType == Init => TypeOK
<1> SUFFICES ASSUME Init PROVE TypeOK OBVIOUS
<1>1. /\ status \in Statuses /\ currentStep \in Steps /\ metadata \in SUBSET Steps
      /\ crashes \in 0 .. MaxCrashes /\ pauses \in 0 .. MaxPauses
  BY EngineAssumption DEF Init, Statuses, Steps
<1>4. expired \in BOOLEAN BY DEF Init
<1>2. trigger \in [pc : {"idle", "created", "done"}, worker : Workers \cup {None}]
  BY DEF Init
<1>3. /\ rows \in [Steps \X Attempts -> RowRecords] /\ jobs \in [JobIds -> JobRecords]
      /\ letters \in [LetterIds -> LetterRecords] /\ up \in [Workers -> BOOLEAN]
      /\ runs \in [Slots -> RunRecords] /\ scans \in [Workers -> ScanRecords]
      /\ replays \in [Operators -> ReplayRecords]
  BY FreshRecords DEF Init
<1> QED BY <1>1, <1>2, <1>3, <1>4 DEF TypeOK

LEMMA TriggerType ==
  ASSUME TypeOK, TriggerEnqueue \/ \E w \in Workers : TriggerCreate(w)
  PROVE  TypeOK'
<1>1. CASE TriggerEnqueue
  <2>1. jobs' \in [JobIds -> JobRecords]
    BY <1>1, EnqueueType DEF TriggerEnqueue
  <2> QED BY <1>1, <2>1 DEF TriggerEnqueue, TypeOK, database, world
<1>2. CASE \E w \in Workers : TriggerCreate(w)
  BY <1>2 DEF TriggerCreate, TypeOK, Statuses, world
<1> QED BY <1>1, <1>2

\* What every action of executeExecution has to show, the rest being unchanged.
LEMMA RunType ==
  ASSUME TypeOK, OnlyRun,
         status' \in Statuses, currentStep' \in Steps, metadata' \in SUBSET Steps,
         rows' \in [Steps \X Attempts -> RowRecords], runs' \in [Slots -> RunRecords]
  PROVE  TypeOK'
  BY DEF TypeOK, OnlyRun, world

LEMMA GotoType ==
  ASSUME TypeOK, NEW i \in Slots,
         NEW pc \in {"lookup", "advance", "active", "create", "start", "execute", "succeed",
                     "throw", "return"},
         Goto(i, pc)
  PROVE  runs' \in [Slots -> RunRecords]
<1>1. runs[i] \in RunRecords BY DEF TypeOK
<1>2. [runs[i] EXCEPT !.pc = pc] \in RunRecords BY <1>1 DEF RunRecords
<1>3. runs' = [runs EXCEPT ![i] = [runs[i] EXCEPT !.pc = pc]] BY DEF Goto
<1> QED BY <1>2, <1>3 DEF TypeOK

LEMMA ExecuteExecutionType ==
  ASSUME TypeOK, NEW i \in Slots, ExecuteExecution(i)
  PROVE  TypeOK'
<1> DEFINE run == runs[i]
<1>0. /\ run \in RunRecords /\ run.err \in Errors
      /\ RowOf(run) \in Steps \X Attempts /\ run.step \in Steps
      /\ rows[RowOf(run)] \in RowRecords /\ WorkerOf[i] \in Workers
  BY EngineAssumption DEF TypeOK, RunRecords, RowOf
<1>1. CASE Claim(i)
  <2>1. runs' \in [Slots -> RunRecords] BY <1>1, GotoType DEF Claim
  <2>2. status' \in Statuses BY <1>1 DEF Claim, TypeOK, Statuses
  <2> QED BY <1>1, <2>1, <2>2, RunType DEF Claim, TypeOK
<1>2. CASE LookupSucceeded(i)
  <2>1. runs' \in [Slots -> RunRecords]
    <3>1. [run EXCEPT !.pc = "active"] \in RunRecords BY <1>0 DEF RunRecords
    <3> QED BY <1>0, <1>2, <3>1, RunMovesOn DEF LookupSucceeded, TypeOK
  <2> QED BY <1>2, <2>1, RunType DEF LookupSucceeded, TypeOK, database
<1>3. CASE CheckActive(i)
  <2>1. runs' \in [Slots -> RunRecords]
    <3>1. CASE runs' = [runs EXCEPT ![i] = PassStep(run)]
      <4>1. PassStep(run) \in RunRecords BY <1>0, RunMovesOn
      <4> QED BY <3>1, <4>1 DEF TypeOK
    <3>2. CASE Goto(i, "advance") BY <3>2, GotoType
    <3> QED BY <1>3, <3>1, <3>2 DEF CheckActive
  <2> QED BY <1>3, <2>1, RunType DEF CheckActive, TypeOK, database
<1>4. CASE AdvanceCurrentStep(i)
  <2>1. runs' \in [Slots -> RunRecords] BY <1>4, GotoType DEF AdvanceCurrentStep
  <2>2. currentStep' \in Steps BY <1>0, <1>4 DEF AdvanceCurrentStep, TypeOK
  <2> QED BY <1>4, <2>1, <2>2, RunType DEF AdvanceCurrentStep, TypeOK
<1>5. CASE CreateRow(i)
  <2>1. runs' \in [Slots -> RunRecords]
    <3>1. [run EXCEPT !.pc = "throw", !.err = GenericError] \in RunRecords
      BY <1>0 DEF RunRecords, Errors
    <3> QED BY <1>5, <3>1, GotoType DEF CreateRow, TypeOK
  <2>2. [NoRow EXCEPT !.status = "PENDING", !.worker = WorkerOf[i]] \in RowRecords
    BY <1>0 DEF NoRow, RowRecords, RowStatuses
  <2>3. rows' \in [Steps \X Attempts -> RowRecords] BY <1>5, <2>2 DEF CreateRow, TypeOK
  <2> QED BY <1>5, <2>1, <2>3, RunType DEF CreateRow, TypeOK
<1>6. CASE StartRow(i)
  <2>1. runs' \in [Slots -> RunRecords]
    <3>1. CASE runs' = [runs EXCEPT ![i] = PassStep(run)]
      <4>1. PassStep(run) \in RunRecords BY <1>0, RunMovesOn
      <4> QED BY <3>1, <4>1 DEF TypeOK
    <3>2. CASE Goto(i, "execute") BY <3>2, GotoType
    <3> QED BY <1>6, <3>1, <3>2 DEF StartRow
  <2>2. [rows[RowOf(run)] EXCEPT !.status = "RUNNING", !.fresh = TRUE, !.worker = WorkerOf[i]]
          \in RowRecords
    BY <1>0 DEF RowRecords, RowStatuses
  <2>3. rows' \in [Steps \X Attempts -> RowRecords]
    BY <1>0, <1>6, <2>2 DEF StartRow, TypeOK
  <2> QED BY <1>6, <2>1, <2>3, RunType DEF StartRow, TypeOK
<1>7. CASE ExecuteStep(i)
  <2>1. \A a \in Failures : [run EXCEPT !.pc = "fail", !.err = classifyHttpError(a)] \in RunRecords
    BY <1>0 DEF RunRecords, Errors
  <2>2. runs' \in [Slots -> RunRecords]
    <3>1. CASE Goto(i, "succeed") BY <3>1, GotoType
    <3>2. ASSUME NEW a \in Failures,
                 runs' = [runs EXCEPT ![i].pc = "fail", ![i].err = classifyHttpError(a)]
          PROVE  runs' \in [Slots -> RunRecords]
      <4>1. runs' = [runs EXCEPT ![i] =
                       [run EXCEPT !.pc = "fail", !.err = classifyHttpError(a)]]
        BY <3>2 DEF TypeOK
      <4> QED BY <2>1, <4>1 DEF TypeOK
    <3> QED BY <1>7, <3>1, <3>2 DEF ExecuteStep
  <2> QED BY <1>7, <2>2, RunType DEF ExecuteStep, TypeOK, database
<1>8. ASSUME NEW end \in {"SUCCEEDED", "FAILED", "TIMED_OUT"},
             rows' = [rows EXCEPT ![RowOf(run)] = FinishedRow(i, @, end)]
      PROVE  rows' \in [Steps \X Attempts -> RowRecords]
  <2>1. FinishedRow(i, rows[RowOf(run)], end) \in RowRecords
    BY <1>0 DEF FinishedRow, RowRecords, RowStatuses
  <2> QED BY <1>0, <1>8, <2>1 DEF TypeOK
<1>9. CASE RecordSuccess(i)
  <2>1. runs' \in [Slots -> RunRecords] BY <1>0, <1>9, RunMovesOn DEF RecordSuccess, TypeOK
  <2>2. rows' \in [Steps \X Attempts -> RowRecords] BY <1>8, <1>9 DEF RecordSuccess
  <2> QED BY <1>9, <2>1, <2>2, RunType DEF RecordSuccess, TypeOK
<1>10. CASE RecordFailure(i)
  <2>1. runs' \in [Slots -> RunRecords] BY <1>10, GotoType DEF RecordFailure
  <2>2. rows' \in [Steps \X Attempts -> RowRecords] BY <1>8, <1>10 DEF RecordFailure
  <2> QED BY <1>10, <2>1, <2>2, RunType DEF RecordFailure, TypeOK
<1>11. CASE Complete(i)
  <2>1. runs' \in [Slots -> RunRecords] BY <1>11, GotoType DEF Complete
  <2>2. status' \in Statuses /\ metadata' \in SUBSET Steps
    BY <1>0, <1>11 DEF Complete, TypeOK, Statuses, RunRecords
  <2> QED BY <1>11, <2>1, <2>2, RunType DEF Complete, TypeOK
<1>12. CASE Return(i)
  <2>1. runs' \in [Slots -> RunRecords] /\ jobs' \in [JobIds -> JobRecords]
    BY <1>12, FreshRecords DEF Return, TypeOK, HoldsLock
  <2> QED BY <1>12, <2>1 DEF Return, TypeOK, database, world
<1>13. CASE Throw(i)
  <2>1. ASSUME HoldsLock(i)
        PROVE  [jobs[run.job] EXCEPT !.state = "failed", !.owner = None,
                                     !.handler = WorkerOf[i], !.err = run.err] \in JobRecords
    <3>1. jobs[run.job] \in JobRecords BY <2>1 DEF HoldsLock, TypeOK
    <3> QED BY <1>0, <3>1 DEF JobRecords
  <2>2. runs' \in [Slots -> RunRecords] /\ jobs' \in [JobIds -> JobRecords]
    BY <1>13, <2>1, FreshRecords DEF Throw, TypeOK, HoldsLock
  <2> QED BY <1>13, <2>2 DEF Throw, TypeOK, database, world
<1> QED
  BY <1>1, <1>2, <1>3, <1>4, <1>5, <1>6, <1>7, <1>9, <1>10, <1>11, <1>12, <1>13
  DEF ExecuteExecution

LEMMA FetchType ==
  ASSUME TypeOK, NEW i \in Slots, NEW j \in JobIds, Fetch(i, j)
  PROVE  TypeOK'
<1>1. /\ jobs[j] \in JobRecords /\ jobs[j].attempt \in Attempts
      /\ currentStep \in Steps /\ metadata \in SUBSET Steps
  BY DEF TypeOK, JobRecords
<1>2. [jobs[j] EXCEPT !.state = "active", !.owner = i] \in JobRecords
  BY <1>1 DEF JobRecords
<1>3. [IdleRun EXCEPT !.pc = "claim", !.job = j, !.attempt = jobs[j].attempt,
                      !.step = currentStep, !.inputs = metadata] \in RunRecords
  BY <1>1, FreshRecords DEF IdleRun, RunRecords
<1>4. runs' \in [Slots -> RunRecords] BY <1>3 DEF Fetch, TypeOK
<1>5. jobs' = [jobs EXCEPT ![j] = [jobs[j] EXCEPT !.state = "active", !.owner = i]]
  BY DEF Fetch, TypeOK
<1>6. jobs' \in [JobIds -> JobRecords] BY <1>2, <1>5 DEF TypeOK
<1> QED BY <1>4, <1>6 DEF Fetch, TypeOK, database, world

LEMMA HandlerType ==
  ASSUME TypeOK, NEW j \in JobIds, HandleRetry(j) \/ HandleBury(j) \/ markAsFailed(j)
  PROVE  TypeOK'
<1>0. jobs[j] \in JobRecords BY DEF TypeOK
<1>1. CASE HandleRetry(j)
  <2>1. PICK d \in Decisions(j) : AddJob(NewJob(d.attempt, d.deferrals), j)
    BY <1>1 DEF HandleRetry
  <2>2. jobs[j].attempt \in Attempts /\ jobs[j].deferrals \in 0 .. MaxRateLimitDeferrals
    BY <1>0 DEF JobRecords
  <2>3. d.attempt \in Attempts /\ d.deferrals \in 0 .. MaxRateLimitDeferrals
    BY <2>2, DecisionWithinBudgets DEF Decisions
  <2>4. jobs' \in [JobIds -> JobRecords] BY <2>1, <2>3, NewJobType, AddJobType DEF TypeOK
  <2> QED BY <1>1, <2>4 DEF HandleRetry, TypeOK, database, processes, world
<1>2. CASE HandleBury(j)
  <2>1. [jobs[j] EXCEPT !.state = "buried"] \in JobRecords BY <1>0 DEF JobRecords
  <2>2. jobs' = [jobs EXCEPT ![j] = [jobs[j] EXCEPT !.state = "buried"]]
    BY <1>2 DEF HandleBury
  <2>3. jobs' \in [JobIds -> JobRecords] BY <2>1, <2>2 DEF TypeOK
  <2>4. [NoLetter EXCEPT !.state = "waiting"] \in LetterRecords
    BY DEF NoLetter, LetterRecords
  <2>5. letters' \in [LetterIds -> LetterRecords] BY <1>2, <2>4 DEF HandleBury, TypeOK
  <2> QED BY <1>2, <2>3, <2>5 DEF HandleBury, TypeOK, database, processes, world
<1>3. CASE markAsFailed(j)
  <2>1. jobs' \in [JobIds -> JobRecords] BY <1>3, FreshRecords DEF markAsFailed, TypeOK
  <2>2. status' \in Statuses BY <1>3 DEF markAsFailed, TypeOK, Statuses
  <2> QED BY <1>3, <2>1, <2>2 DEF markAsFailed, TypeOK, processes, world
<1> QED BY <1>1, <1>2, <1>3

LEMMA ScanNextType ==
  ASSUME NEW scan \in ScanRecords
  PROVE  ScanNext(scan) \in ScanRecords
  BY DEF ScanNext, ScanRecords

LEMMA ScanType ==
  ASSUME TypeOK, NEW w \in Workers, RecoverStaleExecutions(w)
  PROVE  TypeOK'
<1>0. scans[w] \in ScanRecords BY DEF TypeOK
<1>1. CASE ScanFind(w)
  <2>1. StaleRows \in SUBSET (Steps \X Attempts) BY DEF StaleRows
  <2>2. (status = "running") \in BOOLEAN OBVIOUS
  <2>3. [IdleScan EXCEPT !.pc = "mark", !.found = StaleRows,
                         !.sawRunning = (status = "running")] \in ScanRecords
    BY <2>1, <2>2 DEF IdleScan, ScanRecords
  <2>4. scans' \in [Workers -> ScanRecords] BY <1>1, <2>3 DEF ScanFind, TypeOK
  <2> QED BY <1>1, <2>4 DEF ScanFind, OnlyScan, TypeOK, database, world
<1>2. ASSUME NEW k \in Steps \X Attempts, ScanMark(w, k) PROVE TypeOK'
  <2> DEFINE scan == [scans[w] EXCEPT !.found = scans[w].found \ {k}]
             won == [scan EXCEPT !.recovered = TRUE]
  <2>1. scan \in ScanRecords BY <1>0 DEF ScanRecords
  <2>2. won \in ScanRecords BY <2>1 DEF ScanRecords
  <2>3. [won EXCEPT !.pc = "flag"] \in ScanRecords BY <2>2 DEF ScanRecords
  <2>4. ScanNext(scan) \in ScanRecords /\ ScanNext(won) \in ScanRecords
    BY <2>1, <2>2, ScanNextType
  <2> HIDE DEF scan, won
  <2>5. \E r \in ScanRecords : scans' = [scans EXCEPT ![w] = r]
    BY <1>2, <2>3, <2>4 DEF ScanMark, scan, won
  <2>6. scans' \in [Workers -> ScanRecords] BY <2>5 DEF TypeOK
  <2>7. [rows[k] EXCEPT !.status = "TIMED_OUT", !.fresh = FALSE] \in RowRecords
    <3>1. rows[k] \in RowRecords BY DEF TypeOK
    <3> QED BY <3>1 DEF RowRecords, RowStatuses
  <2>8. rows' \in [Steps \X Attempts -> RowRecords]
    <3>1. CASE rows' = rows BY <3>1 DEF TypeOK
    <3>2. CASE rows' = [rows EXCEPT ![k].status = "TIMED_OUT", ![k].fresh = FALSE]
      <4>1. rows' = [rows EXCEPT ![k] = [rows[k] EXCEPT !.status = "TIMED_OUT",
                                                        !.fresh = FALSE]]
        BY <3>2 DEF TypeOK
      <4> QED BY <2>7, <4>1 DEF TypeOK
    <3> QED BY <1>2, <3>1, <3>2 DEF ScanMark
  <2> QED BY <1>2, <2>6, <2>8 DEF ScanMark, OnlyScan, TypeOK, world
<1>3. CASE ScanFlag(w)
  <2>1. scans' \in [Workers -> ScanRecords] BY <1>0, <1>3, ScanNextType DEF ScanFlag, TypeOK
  <2>2. status' \in Statuses BY <1>3 DEF ScanFlag, TypeOK, Statuses
  <2> QED BY <1>3, <2>1, <2>2 DEF ScanFlag, OnlyScan, TypeOK, world
<1>4. CASE ScanCheck(w)
  <2>1. [IdleScan EXCEPT !.pc = "enqueue"] \in ScanRecords BY DEF IdleScan, ScanRecords
  <2>2. scans' \in [Workers -> ScanRecords] BY <1>4, <2>1, FreshRecords DEF ScanCheck, TypeOK
  <2> QED BY <1>4, <2>2 DEF ScanCheck, OnlyScan, TypeOK, database, world
<1>5. CASE ScanEnqueue(w)
  <2>1. jobs' \in [JobIds -> JobRecords] BY <1>5, EnqueueType DEF ScanEnqueue
  <2>2. scans' \in [Workers -> ScanRecords] BY <1>5, FreshRecords DEF ScanEnqueue, TypeOK
  <2> QED BY <1>5, <2>1, <2>2 DEF ScanEnqueue, OnlyScan, TypeOK, database, world
<1> QED BY <1>1, <1>2, <1>3, <1>4, <1>5 DEF RecoverStaleExecutions

LEMMA ReplayType ==
  ASSUME TypeOK, NEW o \in Operators, ReplayDlqJob(o)
  PROVE  TypeOK'
<1>0. replays[o] \in ReplayRecords /\ metadata \in SUBSET Steps BY DEF TypeOK
<1>1. ASSUME NEW pc \in {"mark", "remove", "read", "log", "enqueue"}, ReplayTo(o, pc)
      PROVE  replays' \in [Operators -> ReplayRecords]
  <2>1. [replays[o] EXCEPT !.pc = pc] \in ReplayRecords BY <1>0 DEF ReplayRecords
  <2>2. replays' = [replays EXCEPT ![o] = [replays[o] EXCEPT !.pc = pc]]
    BY <1>1 DEF ReplayTo
  <2> QED BY <2>1, <2>2 DEF TypeOK
<1>2. ReplayEnds(o) => replays' \in [Operators -> ReplayRecords]
  BY FreshRecords DEF ReplayEnds, TypeOK
<1>3. ASSUME NEW l \in LetterIds, NEW w \in Workers, ReplayGetJob(o, l, w) PROVE TypeOK'
  <2>1. letters[l].replayed \in BOOLEAN BY DEF TypeOK, LetterRecords
  <2>2. [IdleReplay EXCEPT !.pc = "check", !.letter = l, !.worker = w,
                           !.replayed = letters[l].replayed] \in ReplayRecords
    BY <2>1 DEF IdleReplay, ReplayRecords
  <2>3. replays' \in [Operators -> ReplayRecords] BY <1>3, <2>2 DEF ReplayGetJob, TypeOK
  <2> QED BY <1>3, <2>3 DEF ReplayGetJob, OnlyReplay, TypeOK, database, world
<1>4. CASE ReplayCheck(o)
  BY <1>1, <1>2, <1>4 DEF ReplayCheck, OnlyReplay, TypeOK, database, world
<1>5. CASE ReplayMark(o)
  <2>1. replays' \in [Operators -> ReplayRecords] BY <1>1, <1>2, <1>5 DEF ReplayMark
  <2>2. \A l \in LetterIds : [letters[l] EXCEPT !.replayed = TRUE] \in LetterRecords
    BY DEF TypeOK, LetterRecords
  <2>3. letters' \in [LetterIds -> LetterRecords]
    <3> DEFINE l == replays[o].letter
    <3>1. CASE letters' = letters BY <3>1 DEF TypeOK
    <3>2. CASE letters' = [letters EXCEPT ![l].replayed = TRUE]
      <4>1. letters' = [letters EXCEPT ![l] = [letters[l] EXCEPT !.replayed = TRUE]]
        BY <3>2
      <4> QED BY <2>2, <4>1 DEF TypeOK
    <3> QED BY <1>5, <3>1, <3>2 DEF ReplayMark
  <2> QED BY <1>5, <2>1, <2>3 DEF ReplayMark, OnlyReplay, TypeOK, database, world
<1>6. CASE ReplayRemove(o)
  <2>1. replays' \in [Operators -> ReplayRecords] BY <1>1, <1>2, <1>6 DEF ReplayRemove
  <2>2. letters' \in [LetterIds -> LetterRecords]
    BY <1>6, FreshRecords DEF ReplayRemove, TypeOK
  <2> QED BY <1>6, <2>1, <2>2 DEF ReplayRemove, OnlyReplay, TypeOK, database, world
<1>7. CASE ReplayRead(o)
  <2>1. [replays[o] EXCEPT !.pc = "log", !.metadata = metadata] \in ReplayRecords
    BY <1>0 DEF ReplayRecords
  <2>2. replays' = [replays EXCEPT ![o] = [replays[o] EXCEPT !.pc = "log",
                                                             !.metadata = metadata]]
    BY <1>7 DEF ReplayRead, TypeOK
  <2>3. replays' \in [Operators -> ReplayRecords] BY <2>1, <2>2 DEF TypeOK
  <2> QED BY <1>7, <2>3 DEF ReplayRead, OnlyReplay, TypeOK, database, world
<1>8. CASE ReplayLog(o)
  <2>1. replays' \in [Operators -> ReplayRecords] BY <1>1, <1>8 DEF ReplayLog
  <2>2. status' \in Statuses /\ metadata' \in SUBSET Steps
    BY <1>0, <1>8 DEF ReplayLog, Statuses, ReplayRecords
  <2> QED BY <1>8, <2>1, <2>2 DEF ReplayLog, OnlyReplay, TypeOK, world
<1>9. CASE ReplayEnqueue(o)
  <2>1. jobs' \in [JobIds -> JobRecords] BY <1>9, EnqueueType DEF ReplayEnqueue
  <2> QED BY <1>2, <1>9, <2>1 DEF ReplayEnqueue, OnlyReplay, TypeOK, database, world
<1> QED BY <1>3, <1>4, <1>5, <1>6, <1>7, <1>8, <1>9 DEF ReplayDlqJob

LEMMA DlqWorkerType ==
  ASSUME TypeOK, NEW l \in LetterIds, DlqWorker(l)
  PROVE  TypeOK'
<1>1. \A state \in {"locked", "kept"} : [letters[l] EXCEPT !.state = state] \in LetterRecords
  BY DEF TypeOK, LetterRecords
<1>2. PICK state \in {"locked", "kept"} :
        letters' = [letters EXCEPT ![l] = [letters[l] EXCEPT !.state = state]]
  BY DEF DlqWorker
<1>3. letters' \in [LetterIds -> LetterRecords] BY <1>1, <1>2 DEF TypeOK
<1> QED BY <1>3 DEF DlqWorker, TypeOK, database, processes, world

LEMMA RowTimeType ==
  ASSUME TypeOK, NEW k \in Steps \X Attempts,
         LeaseExpires(k) \/ \E i \in Slots : Heartbeat(i) /\ k = RowOf(runs[i])
  PROVE  TypeOK'
<1>1. \A b \in BOOLEAN : [rows[k] EXCEPT !.fresh = b] \in RowRecords
  BY DEF TypeOK, RowRecords
<1>2. PICK b \in BOOLEAN : rows' = [rows EXCEPT ![k] = [rows[k] EXCEPT !.fresh = b]]
  BY DEF LeaseExpires, Heartbeat
<1>3. rows' \in [Steps \X Attempts -> RowRecords] BY <1>1, <1>2 DEF TypeOK
<1>4. CASE LeaseExpires(k)
  <2>1. pauses' \in 0 .. MaxPauses
    BY <1>4, EngineAssumption DEF LeaseExpires, Lapses, TypeOK
  <2> QED BY <1>3, <1>4, <2>1 DEF LeaseExpires, TypeOK, processes
<1>5. CASE \E i \in Slots : Heartbeat(i) /\ k = RowOf(runs[i])
  BY <1>3, <1>5 DEF Heartbeat, OnlyRun, TypeOK, world
<1> QED BY <1>4, <1>5

LEMMA StalledType ==
  ASSUME TypeOK, NEW j \in JobIds, NEW w \in Workers, Stalled(j, w)
  PROVE  TypeOK'
<1>0. jobs[j] \in JobRecords BY DEF TypeOK
<1>1. PICK job \in JobRecords : jobs' = [jobs EXCEPT ![j] = job]
  <2>1. CASE jobs[j].stalls < MaxStalls
    <3>1. jobs[j].stalls + 1 \in 0 .. MaxStalls BY <1>0, <2>1, EngineAssumption DEF JobRecords
    <3>2. [jobs[j] EXCEPT !.state = "queued", !.owner = None, !.stalls = jobs[j].stalls + 1]
            \in JobRecords
      BY <1>0, <3>1 DEF JobRecords
    <3>3. jobs' = [jobs EXCEPT ![j] = [jobs[j] EXCEPT !.state = "queued", !.owner = None,
                                                      !.stalls = jobs[j].stalls + 1]]
      BY <2>1 DEF Stalled
    <3> QED BY <3>2, <3>3
  <2>2. CASE ~(jobs[j].stalls < MaxStalls)
    <3>1. [jobs[j] EXCEPT !.state = "failed", !.owner = None, !.handler = w,
                          !.err = GenericError] \in JobRecords
      BY <1>0 DEF JobRecords, Errors
    <3>2. jobs' = [jobs EXCEPT ![j] = [jobs[j] EXCEPT !.state = "failed", !.owner = None,
                                                      !.handler = w, !.err = GenericError]]
      BY <2>2 DEF Stalled
    <3> QED BY <3>1, <3>2
  <2> QED BY <2>1, <2>2
<1>2. jobs' \in [JobIds -> JobRecords] BY <1>1 DEF TypeOK
<1>3. pauses' \in 0 .. MaxPauses BY EngineAssumption DEF Stalled, Lapses, TypeOK
<1> QED BY <1>2, <1>3 DEF Stalled, TypeOK, database, processes

LEMMA CrashType ==
  ASSUME TypeOK, NEW w \in Workers, Crash(w)
  PROVE  TypeOK'
<1>1. crashes' \in 0 .. MaxCrashes BY EngineAssumption DEF Crash, TypeOK
<1>2. /\ up' \in [Workers -> BOOLEAN] /\ scans' \in [Workers -> ScanRecords]
      /\ runs' \in [Slots -> RunRecords] /\ jobs' \in [JobIds -> JobRecords]
      /\ replays' \in [Operators -> ReplayRecords]
  BY FreshRecords DEF Crash, TypeOK
<1>3. trigger' \in [pc : {"idle", "created", "done"}, worker : Workers \cup {None}]
  BY DEF Crash, TypeOK
<1> QED BY <1>1, <1>2, <1>3 DEF Crash, TypeOK, database

LEMMA StepType == TypeOK /\ [Next]_vars => TypeOK'
<1> SUFFICES ASSUME TypeOK, [Next]_vars PROVE TypeOK' OBVIOUS
<1>1. CASE TriggerEnqueue \/ \E w \in Workers : TriggerCreate(w) BY <1>1, TriggerType
<1>2. CASE Expire BY <1>2 DEF Expire, TypeOK, database, processes
<1>3. CASE \E w \in Workers : RecoverStaleExecutions(w) BY <1>3, ScanType
<1>4. CASE \E w \in Workers : Crash(w) BY <1>4, CrashType
<1>5. CASE \E w \in Workers : Restart(w) BY <1>5 DEF Restart, TypeOK, database, world
<1>6. CASE \E i \in Slots : ExecuteExecution(i) BY <1>6, ExecuteExecutionType
<1>7. CASE \E i \in Slots : Heartbeat(i)
  <2>1. \A i \in Slots : RowOf(runs[i]) \in Steps \X Attempts
    BY DEF TypeOK, RunRecords, RowOf
  <2> QED BY <1>7, <2>1, RowTimeType
<1>8. CASE \E i \in Slots, j \in JobIds : Fetch(i, j) BY <1>8, FetchType
<1>9. CASE \E j \in JobIds : HandleRetry(j) \/ HandleBury(j) \/ markAsFailed(j)
  BY <1>9, HandlerType
<1>10. CASE \E j \in JobIds, w \in Workers : Stalled(j, w) BY <1>10, StalledType
<1>11. CASE \E l \in LetterIds : DlqWorker(l) BY <1>11, DlqWorkerType
<1>12. CASE \E o \in Operators : ReplayDlqJob(o) BY <1>12, ReplayType
<1>13. CASE \E k \in Steps \X Attempts : LeaseExpires(k) BY <1>13, RowTimeType
<1>14. CASE UNCHANGED vars BY <1>14 DEF vars, TypeOK
<1> QED
  BY <1>1, <1>2, <1>3, <1>4, <1>5, <1>6, <1>7, <1>8, <1>9, <1>10, <1>11, <1>12, <1>13, <1>14
  DEF Next

\* Every variable keeps its type: attempts and deferrals stay within their budgets, a
\* run never leaves the steps of its workflow, and every reference is to something
\* that exists.
THEOREM TypeCorrect == Spec => []TypeOK
  BY InitType, StepType, PTL DEF Spec

-----------------------------------------------------------------------------
(* The rows of StepExecution. *)

\* Every step either leaves the rows alone or is one of these updates.
RowUpdate ==
  \/ \E i \in Slots : \/ CreateRow(i) \/ StartRow(i) \/ RecordSuccess(i) \/ RecordFailure(i)
                      \/ Heartbeat(i)
  \/ \E w \in Workers, k \in Steps \X Attempts : ScanMark(w, k)
  \/ \E k \in Steps \X Attempts : LeaseExpires(k)

LEMMA RowUpdates == [Next]_vars => rows' = rows \/ RowUpdate
<1> SUFFICES ASSUME [Next]_vars, ~RowUpdate PROVE rows' = rows OBVIOUS
<1>1. CASE TriggerEnqueue \/ Expire BY <1>1 DEF TriggerEnqueue, Expire, database
<1>2. CASE \E w \in Workers : TriggerCreate(w) \/ Crash(w) \/ Restart(w)
  BY <1>2 DEF TriggerCreate, Crash, Restart, database
<1>3. CASE \E w \in Workers : RecoverStaleExecutions(w)
  BY <1>3 DEF RecoverStaleExecutions, RowUpdate, ScanFind, ScanFlag, ScanCheck, ScanEnqueue,
     database
<1>4. CASE \E i \in Slots : ExecuteExecution(i)
  BY <1>4 DEF ExecuteExecution, RowUpdate, Claim, LookupSucceeded, CheckActive,
     AdvanceCurrentStep, ExecuteStep, Complete, Return, Throw, database
<1>5. CASE \E i \in Slots : Heartbeat(i) BY <1>5 DEF RowUpdate
<1>6. CASE \E i \in Slots, j \in JobIds : Fetch(i, j) BY <1>6 DEF Fetch, database
<1>7. CASE \E j \in JobIds : HandleRetry(j) \/ HandleBury(j) \/ markAsFailed(j)
  BY <1>7 DEF HandleRetry, HandleBury, markAsFailed, database
<1>8. CASE \E j \in JobIds, w \in Workers : Stalled(j, w) BY <1>8 DEF Stalled, database
<1>9. CASE \E l \in LetterIds : DlqWorker(l) BY <1>9 DEF DlqWorker, database
<1>10. CASE \E o \in Operators : ReplayDlqJob(o)
  BY <1>10 DEF ReplayDlqJob, ReplayGetJob, ReplayCheck, ReplayMark, ReplayRemove, ReplayRead,
     ReplayLog, ReplayEnqueue, database
<1>11. CASE \E k \in Steps \X Attempts : LeaseExpires(k) BY <1>11 DEF RowUpdate
<1>12. CASE UNCHANGED vars BY <1>12 DEF vars
<1> QED
  BY <1>1, <1>2, <1>3, <1>4, <1>5, <1>6, <1>7, <1>8, <1>9, <1>10, <1>11, <1>12 DEF Next

\* An update writes one row, one that is not finished, and does not delete it.
LEMMA RowUpdateWritesOne ==
  ASSUME TypeOK, RowUpdate
  PROVE  rows' = rows \/ \E n \in Steps \X Attempts, r \in RowRecords :
           /\ rows[n].status \notin Finished
           /\ r.status # "absent"
           /\ rows' = [rows EXCEPT ![n] = r]
<1>0. \A n \in Steps \X Attempts : rows[n] \in RowRecords BY DEF TypeOK
<1>1. \A i \in Slots : RowOf(runs[i]) \in Steps \X Attempts /\ WorkerOf[i] \in Workers
  BY EngineAssumption DEF TypeOK, RunRecords, RowOf
<1>2. ASSUME NEW i \in Slots, CreateRow(i), rows' # rows
      PROVE  /\ rows[RowOf(runs[i])].status = "absent"
             /\ rows' = [rows EXCEPT ![RowOf(runs[i])] =
                           [NoRow EXCEPT !.status = "PENDING", !.worker = WorkerOf[i]]]
             /\ [NoRow EXCEPT !.status = "PENDING", !.worker = WorkerOf[i]] \in RowRecords
  BY <1>1, <1>2 DEF CreateRow, NoRow, RowRecords, RowStatuses
<1>3. ASSUME NEW i \in Slots, StartRow(i), rows' # rows
      PROVE  \E r \in RowRecords : /\ rows[RowOf(runs[i])].status = "PENDING"
                                   /\ r.status = "RUNNING"
                                   /\ rows' = [rows EXCEPT ![RowOf(runs[i])] = r]
  <2> DEFINE r == [rows[RowOf(runs[i])] EXCEPT !.status = "RUNNING", !.fresh = TRUE,
                                              !.worker = WorkerOf[i]]
  <2>1. rows[RowOf(runs[i])].status = "PENDING" BY <1>3 DEF StartRow
  <2>2. rows' = [rows EXCEPT ![RowOf(runs[i])] = r] BY <1>3, <2>1 DEF StartRow, TypeOK
  <2>3. r \in RowRecords /\ r.status = "RUNNING" BY <1>0, <1>1 DEF RowRecords, RowStatuses
  <2> QED BY <2>1, <2>2, <2>3
<1>4. ASSUME NEW i \in Slots, NEW end \in {"SUCCEEDED", "FAILED", "TIMED_OUT"}, rows' # rows,
             rows' = [rows EXCEPT ![RowOf(runs[i])] = FinishedRow(i, @, end)]
      PROVE  \E r \in RowRecords : /\ rows[RowOf(runs[i])].status = "RUNNING"
                                   /\ r.status = end
                                   /\ rows' = [rows EXCEPT ![RowOf(runs[i])] = r]
  <2> DEFINE n == RowOf(runs[i])
             r == FinishedRow(i, rows[n], end)
  <2>1. rows' = [rows EXCEPT ![n] = r] BY <1>4
  <2>2. r # rows[n] BY <1>4, <2>1, <1>1 DEF TypeOK
  <2>3. rows[n].status = "RUNNING" /\ rows[n].worker = WorkerOf[i] BY <2>2 DEF FinishedRow
  <2>4. r = [rows[n] EXCEPT !.status = end, !.fresh = FALSE] BY <2>3 DEF FinishedRow
  <2>5. r \in RowRecords /\ r.status = end BY <1>0, <1>1, <2>4 DEF RowRecords, RowStatuses
  <2> HIDE DEF r
  <2> QED BY <2>1, <2>3, <2>5
<1>5. ASSUME NEW i \in Slots, RecordSuccess(i) \/ RecordFailure(i), rows' # rows
      PROVE  \E r \in RowRecords : /\ rows[RowOf(runs[i])].status = "RUNNING"
                                   /\ r.status # "absent"
                                   /\ rows' = [rows EXCEPT ![RowOf(runs[i])] = r]
  <2>1. PICK end \in {"SUCCEEDED", "FAILED", "TIMED_OUT"} :
          rows' = [rows EXCEPT ![RowOf(runs[i])] = FinishedRow(i, @, end)]
    BY <1>5 DEF RecordSuccess, RecordFailure
  <2> QED BY <1>4, <1>5, <2>1
<1>6. ASSUME NEW w \in Workers, NEW n \in Steps \X Attempts, ScanMark(w, n), rows' # rows
      PROVE  \E r \in RowRecords : /\ rows[n].status = "RUNNING" /\ r.status # "absent"
                                   /\ rows' = [rows EXCEPT ![n] = r]
  <2> DEFINE r == [rows[n] EXCEPT !.status = "TIMED_OUT", !.fresh = FALSE]
  <2>1. rows[n].status = "RUNNING" /\ rows' = [rows EXCEPT ![n] = r]
    BY <1>6 DEF ScanMark, TypeOK
  <2>2. r \in RowRecords /\ r.status = "TIMED_OUT" BY <1>0 DEF RowRecords, RowStatuses
  <2> QED BY <2>1, <2>2
<1>7. ASSUME NEW n \in Steps \X Attempts, NEW b \in BOOLEAN, rows[n].status = "RUNNING",
             rows' = [rows EXCEPT ![n].fresh = b]
      PROVE  \E r \in RowRecords : /\ rows[n].status = "RUNNING" /\ r.status # "absent"
                                   /\ rows' = [rows EXCEPT ![n] = r]
  <2> DEFINE r == [rows[n] EXCEPT !.fresh = b]
  <2>1. rows' = [rows EXCEPT ![n] = r] BY <1>7
  <2>2. r \in RowRecords /\ r.status = "RUNNING" BY <1>0, <1>7 DEF RowRecords
  <2> QED BY <1>7, <2>1, <2>2
<1>8. ASSUME NEW i \in Slots, Heartbeat(i)
      PROVE  rows[RowOf(runs[i])].status = "RUNNING"
             /\ rows' = [rows EXCEPT ![RowOf(runs[i])].fresh = TRUE]
  BY <1>8 DEF Heartbeat
<1>9. ASSUME NEW n \in Steps \X Attempts, LeaseExpires(n)
      PROVE  rows[n].status = "RUNNING" /\ rows' = [rows EXCEPT ![n].fresh = FALSE]
  BY <1>9 DEF LeaseExpires
<1>10. ASSUME NEW i \in Slots, CreateRow(i), rows' # rows
       PROVE  \E r \in RowRecords : /\ rows[RowOf(runs[i])].status = "absent"
                                    /\ r.status # "absent"
                                    /\ rows' = [rows EXCEPT ![RowOf(runs[i])] = r]
  BY <1>2, <1>10 DEF NoRow
<1> SUFFICES ASSUME rows' # rows
             PROVE  \E n \in Steps \X Attempts, r \in RowRecords :
                      /\ rows[n].status \notin Finished
                      /\ r.status # "absent"
                      /\ rows' = [rows EXCEPT ![n] = r]
  OBVIOUS
<1>11. CASE \E i \in Slots : CreateRow(i) BY <1>1, <1>10, <1>11 DEF Finished
<1>12. CASE \E i \in Slots : StartRow(i) BY <1>1, <1>3, <1>12 DEF Finished
<1>13. CASE \E i \in Slots : RecordSuccess(i) \/ RecordFailure(i)
  BY <1>1, <1>5, <1>13 DEF Finished
<1>14. CASE \E i \in Slots : Heartbeat(i)
  <2>1. PICK i \in Slots : Heartbeat(i) BY <1>14
  <2> DEFINE n == RowOf(runs[i])
  <2>2. rows[n].status = "RUNNING" /\ rows' = [rows EXCEPT ![n].fresh = TRUE] BY <1>8, <2>1
  <2>3. n \in Steps \X Attempts BY <1>1
  <2> HIDE DEF n
  <2>4. \E r \in RowRecords : r.status # "absent" /\ rows' = [rows EXCEPT ![n] = r]
    BY <1>7, <2>2, <2>3
  <2> QED BY <2>2, <2>3, <2>4 DEF Finished
<1>15. CASE \E w \in Workers, n \in Steps \X Attempts : ScanMark(w, n)
  BY <1>6, <1>15 DEF Finished
<1>16. CASE \E n \in Steps \X Attempts : LeaseExpires(n) BY <1>7, <1>9, <1>16 DEF Finished
<1> QED BY <1>11, <1>12, <1>13, <1>14, <1>15, <1>16 DEF RowUpdate

\* A finished row is left as it is, and no row is ever deleted.
LEMMA RowsKept ==
  ASSUME TypeOK, [Next]_vars, NEW k \in Steps \X Attempts
  PROVE  /\ rows[k].status \in Finished => rows'[k] = rows[k]
         /\ rows[k].status # "absent" => rows'[k].status # "absent"
  BY RowUpdates, RowUpdateWritesOne DEF TypeOK

\* A StepExecution is finished once: no late answer, scan, heartbeat or duplicated job
\* ever changes a row that has succeeded, failed or timed out, because each update of
\* workflow-engine.service.ts names the status it starts from.
THEOREM RowsFinishOnceHolds == Spec => RowsFinishOnce
<1>1. TypeOK /\ [Next]_vars =>
        [\A k \in Steps \X Attempts : rows[k].status \in Finished => rows'[k] = rows[k]]_vars
  BY RowsKept
<1> QED BY <1>1, TypeCorrect, PTL DEF Spec, RowsFinishOnce

-----------------------------------------------------------------------------
(* One run per row. *)

\* What makes OneRunPerRow inductive: the unique key refuses a second insert only as
\* long as the row of each run at work exists.
HeldRowsExist ==
  \A i \in Slots : Holds(i) => rows[RowOf(runs[i])].status # "absent"

OneRunInv == TypeOK /\ HeldRowsExist /\ OneRunPerRow

\* Runs keep the rows they hold, and no run comes to hold a row but by CreateRow.
HoldersKept ==
  \A i \in Slots : Holds(i)' => Holds(i) /\ RowOf(runs[i])' = RowOf(runs[i])

LEMMA HoldersByCreation ==
  ASSUME TypeOK, [Next]_vars
  PROVE  \/ HoldersKept
         \/ \E i \in Slots : /\ CreateRow(i) /\ rows[RowOf(runs[i])].status = "absent"
                             /\ Goto(i, "start")
<1>0. runs \in [Slots -> RunRecords] BY DEF TypeOK
<1>1. ASSUME UNCHANGED runs PROVE HoldersKept
  BY <1>1 DEF HoldersKept, Holds, RowOf
<1>2. ASSUME NEW i \in Slots, NEW r, runs' = [runs EXCEPT ![i] = r],
             r.pc \notin {"start", "execute", "succeed", "fail"}
      PROVE  HoldersKept
  BY <1>0, <1>2 DEF HoldersKept, Holds, RowOf
<1>3. \A run \in RunRecords : PassStep(run).pc \in {"lookup", "complete"}
  BY DEF PassStep, RunRecords
<1>4. ASSUME NEW i \in Slots, NEW pc, Goto(i, pc),
             pc \notin {"start", "execute", "succeed", "fail"}
      PROVE  HoldersKept
  BY <1>0, <1>4 DEF HoldersKept, Holds, RowOf, Goto, RunRecords
<1>5. ASSUME NEW i \in Slots, ExecuteExecution(i), ~HoldersKept
      PROVE  CreateRow(i) /\ rows[RowOf(runs[i])].status = "absent" /\ Goto(i, "start")
  <2>0. runs[i] \in RunRecords BY <1>0
  <2>1. CASE Claim(i) BY <1>4, <1>5, <2>1 DEF Claim
  <2>2. CASE LookupSucceeded(i)
    <3> DEFINE run == [runs[i] EXCEPT !.inputs = runs[i].inputs \cup {runs[i].step}]
    <3>1. run \in RunRecords BY <2>0 DEF RunRecords
    <3>2. [runs[i] EXCEPT !.pc = "active"].pc = "active" BY <2>0 DEF RunRecords
    <3>3. PassStep(run).pc \in {"lookup", "complete"} BY <1>3, <3>1
    <3> QED BY <1>2, <1>5, <2>2, <3>2, <3>3 DEF LookupSucceeded
  <2>3. CASE CheckActive(i) BY <1>2, <1>3, <1>4, <1>5, <2>0, <2>3 DEF CheckActive
  <2>4. CASE AdvanceCurrentStep(i) BY <1>4, <1>5, <2>4 DEF AdvanceCurrentStep
  <2>5. CASE CreateRow(i)
    <3>1. CASE rows[RowOf(runs[i])].status = "absent" BY <2>5, <3>1 DEF CreateRow
    <3>2. CASE rows[RowOf(runs[i])].status # "absent"
      <4>1. runs' = [runs EXCEPT ![i] = [runs[i] EXCEPT !.pc = "throw", !.err = GenericError]]
        BY <1>0, <2>5, <3>2 DEF CreateRow
      <4>2. [runs[i] EXCEPT !.pc = "throw", !.err = GenericError].pc = "throw"
        BY <2>0 DEF RunRecords
      <4> QED BY <1>2, <1>5, <4>1, <4>2
    <3> QED BY <3>1, <3>2
  <2>6. CASE StartRow(i)
    <3>1. CASE Goto(i, "execute")
      BY <1>0, <1>5, <2>6, <3>1 DEF StartRow, Goto, HoldersKept, Holds, RowOf, RunRecords
    <3>2. CASE runs' = [runs EXCEPT ![i] = PassStep(runs[i])] BY <1>2, <1>3, <1>5, <2>0, <3>2
    <3> QED BY <2>6, <3>1, <3>2 DEF StartRow
  <2>7. CASE ExecuteStep(i)
    BY <1>0, <1>5, <2>7 DEF ExecuteStep, Goto, HoldersKept, Holds, RowOf, RunRecords
  <2>8. CASE RecordSuccess(i)
    <3> DEFINE run == [runs[i] EXCEPT !.inputs = runs[i].inputs \cup {runs[i].step}]
    <3>1. run \in RunRecords BY <2>0 DEF RunRecords
    <3> QED BY <1>2, <1>3, <1>5, <2>8, <3>1 DEF RecordSuccess
  <2>9. CASE RecordFailure(i) BY <1>4, <1>5, <2>9 DEF RecordFailure
  <2>10. CASE Complete(i) BY <1>4, <1>5, <2>10 DEF Complete
  <2>11. CASE Return(i) BY <1>2, <1>5, <2>11 DEF Return, IdleRun
  <2>12. CASE Throw(i) BY <1>2, <1>5, <2>12 DEF Throw, IdleRun
  <2> QED
    BY <1>5, <2>1, <2>2, <2>3, <2>4, <2>5, <2>6, <2>7, <2>8, <2>9, <2>10, <2>11, <2>12
    DEF ExecuteExecution
<1>6. CASE TriggerEnqueue \/ Expire BY <1>1, <1>6 DEF TriggerEnqueue, Expire, processes
<1>7. CASE \E w \in Workers : TriggerCreate(w) \/ Restart(w)
  BY <1>1, <1>7 DEF TriggerCreate, Restart
<1>8. CASE \E w \in Workers : RecoverStaleExecutions(w)
  BY <1>1, <1>8 DEF RecoverStaleExecutions, ScanFind, ScanMark, ScanFlag, ScanCheck,
     ScanEnqueue, OnlyScan
<1>9. CASE \E w \in Workers : Crash(w)
  BY <1>9 DEF Crash, IdleRun, HoldersKept, Holds, RowOf
<1>10. CASE \E i \in Slots : ExecuteExecution(i) BY <1>5, <1>10
<1>11. CASE \E i \in Slots : Heartbeat(i) BY <1>1, <1>11 DEF Heartbeat
<1>12. CASE \E i \in Slots, j \in JobIds : Fetch(i, j)
  <2>1. PICK i \in Slots, j \in JobIds : Fetch(i, j) BY <1>12
  <2> DEFINE r == [IdleRun EXCEPT !.pc = "claim", !.job = j, !.attempt = jobs[j].attempt,
                                  !.step = currentStep, !.inputs = metadata]
  <2>2. runs' = [runs EXCEPT ![i] = r] BY <2>1 DEF Fetch
  <2>3. r.pc = "claim" BY DEF IdleRun
  <2> HIDE DEF r
  <2> QED BY <1>2, <2>2, <2>3
<1>13. CASE \E j \in JobIds : HandleRetry(j) \/ HandleBury(j) \/ markAsFailed(j)
  BY <1>1, <1>13 DEF HandleRetry, HandleBury, markAsFailed, processes
<1>14. CASE \E j \in JobIds, w \in Workers : Stalled(j, w)
  BY <1>1, <1>14 DEF Stalled, processes
<1>15. CASE \E l \in LetterIds : DlqWorker(l) BY <1>1, <1>15 DEF DlqWorker, processes
<1>16. CASE \E o \in Operators : ReplayDlqJob(o)
  BY <1>1, <1>16 DEF ReplayDlqJob, ReplayGetJob, ReplayCheck, ReplayMark, ReplayRemove,
     ReplayRead, ReplayLog, ReplayEnqueue, OnlyReplay
<1>17. CASE \E k \in Steps \X Attempts : LeaseExpires(k)
  BY <1>1, <1>17 DEF LeaseExpires, processes
<1>18. CASE UNCHANGED vars BY <1>1, <1>18 DEF vars
<1> QED
  BY <1>6, <1>7, <1>8, <1>9, <1>10, <1>11, <1>12, <1>13, <1>14, <1>15, <1>16, <1>17, <1>18
  DEF Next

LEMMA OneRunInit == Init => OneRunInv
<1> SUFFICES ASSUME Init PROVE OneRunInv OBVIOUS
<1>1. \A i \in Slots : ~Holds(i) BY DEF Init, Holds, IdleRun
<1> QED BY <1>1, InitType DEF OneRunInv, HeldRowsExist, OneRunPerRow

LEMMA OneRunStep == OneRunInv /\ [Next]_vars => OneRunInv'
<1> SUFFICES ASSUME OneRunInv, [Next]_vars PROVE OneRunInv' OBVIOUS
<1>0. TypeOK /\ TypeOK' BY StepType DEF OneRunInv
<1>1. \A i \in Slots : RowOf(runs[i]) \in Steps \X Attempts
  BY <1>0 DEF TypeOK, RunRecords, RowOf
<1>2. \A k \in Steps \X Attempts : rows[k].status # "absent" => rows'[k].status # "absent"
  BY <1>0, RowsKept
<1>3. CASE HoldersKept
  <2>1. HeldRowsExist'
    BY <1>1, <1>2, <1>3 DEF HoldersKept, HeldRowsExist, OneRunInv, Holds, RowOf
  <2>2. OneRunPerRow' BY <1>3 DEF HoldersKept, OneRunPerRow, OneRunInv, Holds, RowOf
  <2> QED BY <1>0, <2>1, <2>2 DEF OneRunInv
<1>4. ASSUME NEW i \in Slots, CreateRow(i), rows[RowOf(runs[i])].status = "absent",
             Goto(i, "start")
      PROVE  OneRunInv'
  <2>1. /\ \A j \in Slots \ {i} : Holds(j)' => Holds(j)
        /\ \A j \in Slots : RowOf(runs[j])' = RowOf(runs[j])
    BY <1>0, <1>4 DEF Goto, TypeOK, RunRecords, Holds, RowOf
  <2>2. rows'[RowOf(runs[i])].status # "absent"
    <3> DEFINE k == RowOf(runs[i])
               r == [NoRow EXCEPT !.status = "PENDING", !.worker = WorkerOf[i]]
    <3>1. k \in Steps \X Attempts BY <1>1
    <3>2. rows' = [rows EXCEPT ![k] = r] BY <1>4 DEF CreateRow
    <3>3. r.status = "PENDING" BY DEF NoRow
    <3> HIDE DEF k, r
    <3>4. rows'[k].status = "PENDING" BY <1>0, <3>1, <3>2, <3>3 DEF TypeOK
    <3> QED BY <3>4 DEF k
  <2>3. HeldRowsExist'
    <3> SUFFICES ASSUME NEW j \in Slots, Holds(j)' PROVE rows'[RowOf(runs'[j])].status # "absent"
      BY DEF HeldRowsExist
    <3>1. CASE j = i BY <2>1, <2>2, <3>1
    <3>2. CASE j # i BY <1>1, <1>2, <2>1, <3>2 DEF OneRunInv, HeldRowsExist
    <3> QED BY <3>1, <3>2
  <2>4. \A j \in Slots \ {i} : Holds(j)' => RowOf(runs[j])' # RowOf(runs[i])'
    BY <1>4, <2>1 DEF OneRunInv, HeldRowsExist
  <2>5. OneRunPerRow'
    <3> SUFFICES ASSUME NEW j \in Slots, NEW k \in Slots, Holds(j)', Holds(k)',
                        RowOf(runs[j])' = RowOf(runs[k])', j # k
                 PROVE  FALSE
      BY DEF OneRunPerRow
    <3>1. j # i /\ k # i BY <2>4
    <3> QED BY <2>1, <3>1 DEF OneRunInv, OneRunPerRow
  <2> QED BY <1>0, <2>3, <2>5 DEF OneRunInv
<1> QED BY <1>0, <1>3, <1>4, HoldersByCreation

\* The atomic claim: whatever jobs the scanner, BullMQ and the operators duplicate, and
\* however processes crash or pause, no two calls of executeExecution are ever at work
\* on the same StepExecution row.
THEOREM OneRunPerRowHolds == Spec => []OneRunPerRow
<1>1. OneRunInv => OneRunPerRow BY DEF OneRunInv
<1> QED BY <1>1, OneRunInit, OneRunStep, PTL DEF Spec

-----------------------------------------------------------------------------
(* The pointer to the current step. *)

\* currentStep changes in AdvanceCurrentStep only, and there only forwards.
LEMMA CurrentStepStep == TypeOK /\ [Next]_vars => [currentStep' >= currentStep]_vars
<1> SUFFICES ASSUME TypeOK, [Next]_vars PROVE currentStep' >= currentStep OBVIOUS
<1>0. currentStep \in Int /\ (currentStep' = currentStep => currentStep' >= currentStep)
  BY EngineAssumption DEF TypeOK, Steps
<1>1. CASE \E i \in Slots : AdvanceCurrentStep(i)
  <2>1. PICK i \in Slots : AdvanceCurrentStep(i) BY <1>1
  <2>2. runs[i].step \in Int BY EngineAssumption DEF TypeOK, RunRecords, Steps
  <2> QED BY <1>0, <2>1, <2>2 DEF AdvanceCurrentStep
<1>2. CASE \E i \in Slots : ExecuteExecution(i) /\ ~AdvanceCurrentStep(i)
  BY <1>0, <1>2 DEF ExecuteExecution, Claim, LookupSucceeded, CheckActive, CreateRow, StartRow,
     ExecuteStep, RecordSuccess, RecordFailure, Complete, Return, Throw, database
<1>3. CASE TriggerEnqueue \/ Expire BY <1>0, <1>3 DEF TriggerEnqueue, Expire, database
<1>4. CASE \E w \in Workers : TriggerCreate(w) \/ Crash(w) \/ Restart(w)
  BY <1>0, <1>4 DEF TriggerCreate, Crash, Restart, database
<1>5. CASE \E w \in Workers : RecoverStaleExecutions(w)
  BY <1>0, <1>5 DEF RecoverStaleExecutions, ScanFind, ScanMark, ScanFlag, ScanCheck,
     ScanEnqueue, database
<1>6. CASE \E i \in Slots : Heartbeat(i) \/ \E j \in JobIds : Fetch(i, j)
  BY <1>0, <1>6 DEF Heartbeat, Fetch, database
<1>7. CASE \E j \in JobIds : \/ HandleRetry(j) \/ HandleBury(j) \/ markAsFailed(j)
                            \/ \E w \in Workers : Stalled(j, w)
  BY <1>0, <1>7 DEF HandleRetry, HandleBury, markAsFailed, Stalled, database
<1>8. CASE \E l \in LetterIds : DlqWorker(l) BY <1>0, <1>8 DEF DlqWorker, database
<1>9. CASE \E o \in Operators : ReplayDlqJob(o)
  BY <1>0, <1>9 DEF ReplayDlqJob, ReplayGetJob, ReplayCheck, ReplayMark, ReplayRemove,
     ReplayRead, ReplayLog, ReplayEnqueue, database
<1>10. CASE \E k \in Steps \X Attempts : LeaseExpires(k) BY <1>0, <1>10 DEF LeaseExpires
<1>11. CASE UNCHANGED vars BY <1>0, <1>11 DEF vars
<1> QED
  BY <1>1, <1>2, <1>3, <1>4, <1>5, <1>6, <1>7, <1>8, <1>9, <1>10, <1>11 DEF Next

\* A slow run that a faster one has overtaken never moves the execution's pointer back:
\* the update of currentStep is conditional on currentStep < stepOrder.
THEOREM CurrentStepNeverGoesBackHolds == Spec => CurrentStepNeverGoesBack
  BY CurrentStepStep, TypeCorrect, PTL DEF Spec, CurrentStepNeverGoesBack
=============================================================================
