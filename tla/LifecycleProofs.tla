--------------------------- MODULE LifecycleProofs ---------------------------
(***************************************************************************)
(* WorkflowEngine implements ExecutionLifecycle, for all values of its     *)
(* constants.                                                              *)
(***************************************************************************)
EXTENDS WorkflowEngineProofs

\* Before its execution exists nothing can be at work on it: this keeps TriggerCreate
\* a creation.
Untriggered ==
  trigger.pc = "idle" =>
    /\ status = "none"
    /\ \A k \in Steps \X Attempts : rows[k].status = "absent"
    /\ \A j \in JobIds : jobs[j].state = "free"
    /\ \A l \in LetterIds : letters[l].state = "free"
    /\ \A i \in Slots : runs[i].pc = "idle"
    /\ \A w \in Workers : scans[w].pc = "idle"
    /\ \A o \in Operators : replays[o].pc = "idle"

LEMMA UntriggeredInit == Init => Untriggered
  BY DEF Init, Untriggered, NoRow, FreeJob, NoLetter, IdleRun, IdleScan, IdleReplay

\* While there is no execution only these steps are possible.
LEMMA UntriggeredSteps ==
  ASSUME TypeOK, Untriggered, trigger.pc = "idle", [Next]_vars
  PROVE  \/ \E w \in Workers : TriggerCreate(w) \/ Crash(w) \/ Restart(w)
         \/ UNCHANGED vars
<1>1. ~TriggerEnqueue /\ ~Expire BY DEF TriggerEnqueue, Expire
<1>2. \A w \in Workers : ~RecoverStaleExecutions(w)
  BY DEF Untriggered, RecoverStaleExecutions, ScanFind, StaleRows, ScanMark, ScanFlag,
     ScanCheck, ScanEnqueue
<1>3. \A i \in Slots : /\ ~ExecuteExecution(i) /\ ~Heartbeat(i)
                       /\ \A j \in JobIds : ~Fetch(i, j)
  BY DEF Untriggered, ExecuteExecution, Claim, LookupSucceeded, CheckActive,
     AdvanceCurrentStep, CreateRow, StartRow, ExecuteStep, RecordSuccess, RecordFailure,
     Complete, Return, Throw, Heartbeat, Beats, Fetch
<1>4. \A j \in JobIds : /\ ~HandleRetry(j) /\ ~HandleBury(j) /\ ~markAsFailed(j)
                        /\ \A w \in Workers : ~Stalled(j, w)
  BY DEF Untriggered, HandleRetry, HandleBury, markAsFailed, Stalled
<1>5. \A l \in LetterIds : ~DlqWorker(l) BY DEF Untriggered, DlqWorker
<1>6. \A o \in Operators : ~ReplayDlqJob(o)
  BY DEF Untriggered, ReplayDlqJob, ReplayGetJob, ReplayCheck, ReplayMark, ReplayRemove,
     ReplayRead, ReplayLog, ReplayEnqueue
<1>7. \A k \in Steps \X Attempts : ~LeaseExpires(k) BY DEF Untriggered, LeaseExpires
<1> QED BY <1>1, <1>2, <1>3, <1>4, <1>5, <1>6, <1>7 DEF Next

LEMMA TriggeredForGood ==
  ASSUME TypeOK, [Next]_vars, trigger'.pc = "idle"
  PROVE  trigger.pc = "idle"
<1> SUFFICES ASSUME trigger' # trigger PROVE trigger.pc = "idle" OBVIOUS
<1>1. TriggerEnqueue \/ \E w \in Workers : TriggerCreate(w) \/ Crash(w)
  BY DEF Next, vars, Expire, RecoverStaleExecutions, ScanFind, ScanMark, ScanFlag, ScanCheck,
     ScanEnqueue, OnlyScan, Restart, ExecuteExecution, Claim, LookupSucceeded, CheckActive,
     AdvanceCurrentStep, CreateRow, StartRow, ExecuteStep, RecordSuccess, RecordFailure,
     Complete, OnlyRun, Return, Throw, Heartbeat, Fetch, HandleRetry, HandleBury,
     markAsFailed, Stalled, DlqWorker, LeaseExpires, processes, ReplayDlqJob, ReplayGetJob,
     ReplayCheck, ReplayMark, ReplayRemove, ReplayRead, ReplayLog, ReplayEnqueue, OnlyReplay
<1> QED BY <1>1 DEF TriggerEnqueue, TriggerCreate, Crash, TypeOK

LEMMA UntriggeredStep == TypeOK /\ Untriggered /\ [Next]_vars => Untriggered'
<1> SUFFICES ASSUME TypeOK, Untriggered, [Next]_vars, trigger'.pc = "idle" PROVE Untriggered'
  BY DEF Untriggered
<1>0. trigger.pc = "idle" BY TriggeredForGood
<1>1. ~\E w \in Workers : TriggerCreate(w) BY DEF TriggerCreate
<1>2. CASE \E w \in Workers : Crash(w)
  BY <1>0, <1>2 DEF Crash, Untriggered, database, FreeJob, IdleRun, IdleScan, IdleReplay, TypeOK
<1>3. CASE \E w \in Workers : Restart(w) BY <1>0, <1>3 DEF Restart, Untriggered, database
<1>4. CASE UNCHANGED vars BY <1>0, <1>4 DEF vars, Untriggered
<1> QED BY <1>0, <1>1, <1>2, <1>3, <1>4, UntriggeredSteps

-----------------------------------------------------------------------------
(* Every step maps to a step of ExecutionLifecycle or to a stutter. *)

\* Adding a job moves no handler between burying and failing, unless it is its own job
\* that it forgets.
LEMMA AddJobGivesUpNothing ==
  ASSUME TypeOK, NEW job, NEW freed, AddJob(job, freed),
         job.state = "queued", freed \in JobIds => jobs[freed].state = "failed"
  PROVE  Giving' = Giving
<1>1. PICK n \in FreshJobIds(freed) :
        jobs' = [m \in JobIds |-> IF m = n THEN job ELSE IF m = freed THEN FreeJob ELSE jobs[m]]
  BY DEF AddJob
<1>2. n \in JobIds /\ jobs[n].state # "buried" BY <1>1 DEF FreshJobIds
<1>3. FreeJob.state = "free" BY DEF FreeJob
<1> QED BY <1>1, <1>2, <1>3 DEF Giving

LEMMA EnqueueGivesUpNothing ==
  ASSUME TypeOK, enqueueWorkflowExecution
  PROVE  Giving' = Giving
<1>1. NewJob(1, 0).state = "queued" BY DEF NewJob, FreeJob
<1>2. NoJob \notin JobIds BY EngineAssumption DEF NoJob
<1> QED BY <1>1, <1>2, AddJobGivesUpNothing DEF enqueueWorkflowExecution

\* A step that changes none of the four is a stutter.
LEMMA Stutters ==
  ASSUME status' = status, Buried' = Buried, Giving' = Giving, Replaying' = Replaying
  PROVE  [Lifecycle!Next]_(Lifecycle!vars)
  BY DEF Lifecycle!vars

LEMMA Works ==
  ASSUME status \in {"pending", "running", "retrying"}, status' \in {"running", "retrying"},
         Buried' = Buried, Giving' = Giving, Replaying' = Replaying
  PROVE  Lifecycle!Next
  BY DEF Lifecycle!Next, Lifecycle!Work, Lifecycle!Live, Lifecycle!Claimed

LEMMA TriggerMaps ==
  ASSUME TypeOK, Untriggered, TriggerEnqueue \/ \E w \in Workers : TriggerCreate(w)
  PROVE  [Lifecycle!Next]_(Lifecycle!vars)
<1>1. CASE TriggerEnqueue
  <2>1. Giving' = Giving BY <1>1, EnqueueGivesUpNothing DEF TriggerEnqueue
  <2> QED BY <1>1, <2>1, Stutters DEF TriggerEnqueue, database, Buried, Replaying
<1>2. CASE \E w \in Workers : TriggerCreate(w)
  <2>1. status = "none" /\ status' = "pending" BY <1>2 DEF TriggerCreate, Untriggered
  <2>2. Buried' = Buried /\ Giving' = Giving /\ Replaying' = Replaying
    BY <1>2 DEF TriggerCreate, Buried, Giving, Replaying
  <2> QED BY <2>1, <2>2 DEF Lifecycle!Next, Lifecycle!Create
<1> QED BY <1>1, <1>2

LEMMA ExecuteExecutionMaps ==
  ASSUME TypeOK, NEW i \in Slots, ExecuteExecution(i)
  PROVE  [Lifecycle!Next]_(Lifecycle!vars)
<1>1. CASE Claim(i)
  <2>1. Buried' = Buried /\ Giving' = Giving /\ Replaying' = Replaying
    BY <1>1 DEF Claim, OnlyRun, Buried, Giving, Replaying
  <2>2. CASE status \in Claimable
    <3>1. /\ status \in {"pending", "running", "retrying"}
          /\ status' \in {"running", "retrying"}
      BY <1>1, <2>2 DEF Claim, Claimable
    <3> QED BY <2>1, <3>1, Works
  <2>3. CASE status \notin Claimable BY <1>1, <2>1, <2>3, Stutters DEF Claim
  <2> QED BY <2>2, <2>3
<1>2. CASE Complete(i)
  <2>1. Buried' = Buried /\ Giving' = Giving /\ Replaying' = Replaying
    BY <1>2 DEF Complete, OnlyRun, Buried, Giving, Replaying
  <2>2. CASE status \in {"running", "retrying"}
    BY <1>2, <2>1, <2>2
    DEF Complete, Lifecycle!Next, Lifecycle!Complete, Lifecycle!Claimed
  <2>3. CASE status \notin {"running", "retrying"} BY <1>2, <2>1, <2>3, Stutters DEF Complete
  <2> QED BY <2>2, <2>3
<1>3. CASE Return(i) \/ Throw(i)
  <2>1. \/ jobs' = jobs
        \/ \E j \in JobIds, r \in JobRecords : /\ jobs[j].state = "active"
                                               /\ r.state \in {"free", "failed"}
                                               /\ jobs' = [jobs EXCEPT ![j] = r]
    <3>1. CASE HoldsLock(i) /\ Return(i)
      BY <3>1, FreshRecords DEF Return, HoldsLock, FreeJob
    <3>2. CASE HoldsLock(i) /\ Throw(i)
      <4> DEFINE j == runs[i].job
                 r == [jobs[j] EXCEPT !.state = "failed", !.owner = None,
                                      !.handler = WorkerOf[i], !.err = runs[i].err]
      <4>1. j \in JobIds /\ jobs[j].state = "active" BY <3>2 DEF HoldsLock
      <4>2. jobs' = [jobs EXCEPT ![j] = r] BY <3>2 DEF Throw
      <4>3. jobs[j] \in JobRecords /\ runs[i].err \in Errors /\ WorkerOf[i] \in Workers
        BY <4>1, EngineAssumption DEF TypeOK, RunRecords
      <4>4. r \in JobRecords /\ r.state = "failed" BY <4>3 DEF JobRecords
      <4> HIDE DEF r
      <4> QED BY <4>1, <4>2, <4>4
    <3>3. CASE ~HoldsLock(i) BY <1>3, <3>3 DEF Return, Throw
    <3> QED BY <1>3, <3>1, <3>2, <3>3
  <2>2. Giving' = Giving BY <2>1 DEF Giving, TypeOK
  <2> QED BY <1>3, <2>2, Stutters DEF Return, Throw, database, Buried, Replaying
<1>4. CASE LookupSucceeded(i) \/ CheckActive(i) \/ ExecuteStep(i)
  BY <1>4, Stutters
  DEF LookupSucceeded, CheckActive, ExecuteStep, database, OnlyRun, Buried, Giving, Replaying
<1>5. CASE \/ AdvanceCurrentStep(i) \/ CreateRow(i) \/ StartRow(i)
           \/ RecordSuccess(i) \/ RecordFailure(i)
  BY <1>5, Stutters
  DEF AdvanceCurrentStep, CreateRow, StartRow, RecordSuccess, RecordFailure, OnlyRun, Buried,
      Giving, Replaying
<1> QED BY <1>1, <1>2, <1>3, <1>4, <1>5 DEF ExecuteExecution

LEMMA HandlerMaps ==
  ASSUME TypeOK, NEW j \in JobIds, HandleRetry(j) \/ HandleBury(j) \/ markAsFailed(j)
  PROVE  [Lifecycle!Next]_(Lifecycle!vars)
<1>1. CASE HandleRetry(j)
  <2>1. PICK d \in Decisions(j) : AddJob(NewJob(d.attempt, d.deferrals), j)
    BY <1>1 DEF HandleRetry
  <2>2. NewJob(d.attempt, d.deferrals).state = "queued" BY DEF NewJob, FreeJob
  <2>3. Giving' = Giving BY <1>1, <2>1, <2>2, AddJobGivesUpNothing DEF HandleRetry
  <2> QED BY <1>1, <2>3, Stutters DEF HandleRetry, database, processes, Buried, Replaying
<1>2. CASE HandleBury(j)
  <2>1. PICK l \in FreshLetterIds :
          letters' = [letters EXCEPT ![l] = [NoLetter EXCEPT !.state = "waiting"]]
    BY <1>2 DEF HandleBury
  <2>2. l \in LetterIds /\ l \notin Buried BY <2>1 DEF FreshLetterIds, Buried
  <2>3. [NoLetter EXCEPT !.state = "waiting"].state # "free" BY DEF NoLetter
  <2>4. Buried' = Buried \cup {l} BY <2>1, <2>2, <2>3 DEF Buried, TypeOK
  <2>5. j \notin Giving BY <1>2 DEF HandleBury, Giving
  <2>6. Giving' = Giving \cup {j} BY <1>2 DEF HandleBury, Giving, TypeOK, JobRecords
  <2>7. status' = status /\ Replaying' = Replaying
    BY <1>2 DEF HandleBury, database, processes, Replaying
  <2> QED BY <2>2, <2>4, <2>5, <2>6, <2>7 DEF Lifecycle!Next, Lifecycle!Bury
<1>3. CASE markAsFailed(j)
  <2>1. j \in Giving BY <1>3 DEF markAsFailed, Giving
  <2>2. Giving' = Giving \ {j} BY <1>3 DEF markAsFailed, Giving, TypeOK, FreeJob
  <2>3. Buried' = Buried /\ Replaying' = Replaying
    BY <1>3 DEF markAsFailed, processes, Buried, Replaying
  <2>4. status' = IF status = "completed" THEN status ELSE "failed"
    BY <1>3 DEF markAsFailed
  <2> QED BY <2>1, <2>2, <2>3, <2>4 DEF Lifecycle!Next, Lifecycle!GiveUp
<1> QED BY <1>1, <1>2, <1>3

LEMMA ScanMaps ==
  ASSUME TypeOK, NEW w \in Workers, RecoverStaleExecutions(w)
  PROVE  [Lifecycle!Next]_(Lifecycle!vars)
<1>1. Buried' = Buried /\ Replaying' = Replaying
  BY DEF RecoverStaleExecutions, ScanFind, ScanMark, ScanFlag, ScanCheck, ScanEnqueue,
     OnlyScan, Buried, Replaying
<1>2. CASE ScanFind(w) \/ ScanCheck(w) \/ \E k \in Steps \X Attempts : ScanMark(w, k)
  BY <1>1, <1>2, Stutters DEF ScanFind, ScanCheck, ScanMark, database, Giving
<1>3. CASE ScanFlag(w)
  <2>1. Giving' = Giving BY <1>3 DEF ScanFlag, Giving
  <2>2. CASE status = "running"
    <3>1. status' = "retrying" BY <1>3, <2>2 DEF ScanFlag
    <3> QED BY <1>1, <2>1, <2>2, <3>1, Works
  <2>3. CASE status # "running" BY <1>1, <1>3, <2>1, <2>3, Stutters DEF ScanFlag
  <2> QED BY <2>2, <2>3
<1>4. CASE ScanEnqueue(w)
  BY <1>1, <1>4, EnqueueGivesUpNothing, Stutters DEF ScanEnqueue, database
<1> QED BY <1>2, <1>3, <1>4 DEF RecoverStaleExecutions

LEMMA ReplayMaps ==
  ASSUME TypeOK, NEW o \in Operators, ReplayDlqJob(o)
  PROVE  [Lifecycle!Next]_(Lifecycle!vars)
<1>0. replays \in [Operators -> ReplayRecords] /\ replays[o] \in ReplayRecords BY DEF TypeOK
<1>1. ASSUME status' = status, Buried' = Buried, Giving' = Giving, Replaying' \subseteq Replaying
      PROVE  Lifecycle!Next
  BY <1>1 DEF Lifecycle!Next, Lifecycle!Forget
<1>2. ASSUME ReplayEnds(o) PROVE Replaying' = Replaying \ {o}
  BY <1>0, <1>2 DEF ReplayEnds, Replaying, IdleReplay
<1>3. ASSUME NEW pc \in {"mark", "remove", "read", "log"}, ReplayTo(o, pc), o \in Replaying
      PROVE  Replaying' = Replaying
  BY <1>0, <1>3 DEF ReplayTo, Replaying, ReplayRecords
<1>4. ASSUME NEW l \in LetterIds, NEW w \in Workers, ReplayGetJob(o, l, w)
      PROVE  Lifecycle!Next
  <2>1. l \in Buried /\ o \notin Replaying BY <1>4 DEF ReplayGetJob, Buried, Replaying
  <2>2. [IdleReplay EXCEPT !.pc = "check", !.letter = l, !.worker = w,
                           !.replayed = letters[l].replayed].pc = "check"
    BY DEF IdleReplay
  <2>3. Replaying' = Replaying \cup {o} BY <1>0, <1>4, <2>2 DEF ReplayGetJob, Replaying
  <2>4. status' = status /\ Buried' = Buried /\ Giving' = Giving
    BY <1>4 DEF ReplayGetJob, database, Buried, Giving
  <2> QED BY <2>1, <2>3, <2>4 DEF Lifecycle!Next, Lifecycle!See
<1>5. CASE ReplayCheck(o)
  <2>1. status' = status /\ Buried' = Buried /\ Giving' = Giving /\ o \in Replaying
    BY <1>5 DEF ReplayCheck, database, Buried, Giving, Replaying
  <2>2. Replaying' \subseteq Replaying BY <1>2, <1>3, <1>5, <2>1 DEF ReplayCheck
  <2> QED BY <1>1, <2>1, <2>2
<1>6. CASE ReplayMark(o)
  <2>1. status' = status /\ Giving' = Giving /\ o \in Replaying
    BY <1>6 DEF ReplayMark, database, Giving, Replaying
  <2>2. Replaying' \subseteq Replaying BY <1>2, <1>3, <1>6, <2>1 DEF ReplayMark
  <2>3. \A l \in LetterIds : letters'[l].state = letters[l].state
    <3> DEFINE n == replays[o].letter
    <3>1. CASE letters' = letters BY <3>1
    <3>2. CASE letters' = [letters EXCEPT ![n].replayed = TRUE]
      <4>1. \A l \in LetterIds : letters[l] \in LetterRecords BY DEF TypeOK
      <4>2. letters' = [letters EXCEPT ![n] = [letters[n] EXCEPT !.replayed = TRUE]] BY <3>2
      <4>3. \A l \in LetterIds :
              [letters[l] EXCEPT !.replayed = TRUE].state = letters[l].state
        BY <4>1 DEF LetterRecords
      <4> QED BY <4>2, <4>3 DEF TypeOK
    <3> QED BY <1>6, <3>1, <3>2 DEF ReplayMark
  <2>4. Buried' = Buried BY <2>3 DEF Buried
  <2> QED BY <1>1, <2>1, <2>2, <2>4
<1>7. CASE ReplayRemove(o)
  <2> DEFINE l == replays[o].letter
  <2>1. status' = status /\ Giving' = Giving /\ o \in Replaying
    BY <1>7 DEF ReplayRemove, database, Giving, Replaying
  <2>2. CASE letters[l].state = "locked"
    BY <1>1, <1>2, <1>7, <2>1, <2>2 DEF ReplayRemove, Buried
  <2>3. CASE letters[l].state # "locked"
    <3>1. Replaying' = Replaying BY <1>3, <1>7, <2>1, <2>3 DEF ReplayRemove
    <3>2. letters' = [letters EXCEPT ![l] = NoLetter] BY <1>7, <2>3 DEF ReplayRemove
    <3>3. CASE l \in LetterIds
      <4>1. Buried' = Buried \ {l} BY <3>2, <3>3 DEF Buried, TypeOK, NoLetter
      <4> QED BY <2>1, <3>1, <3>3, <4>1 DEF Lifecycle!Next, Lifecycle!UseUp
    <3>4. CASE l \notin LetterIds
      <4>1. Buried' = Buried BY <3>2, <3>4 DEF Buried, TypeOK
      <4> QED BY <2>1, <3>1, <4>1, Stutters
    <3> QED BY <3>3, <3>4
  <2> QED BY <2>2, <2>3
<1>8. CASE ReplayRead(o)
  <2>1. status' = status /\ Buried' = Buried /\ Giving' = Giving
    BY <1>8 DEF ReplayRead, database, Buried, Giving
  <2>2. Replaying' = Replaying BY <1>0, <1>8 DEF ReplayRead, Replaying, ReplayRecords
  <2> QED BY <2>1, <2>2, Stutters
<1>9. CASE ReplayLog(o)
  <2>1. o \in Replaying /\ status' = "running" /\ Buried' = Buried /\ Giving' = Giving
    BY <1>9 DEF ReplayLog, Buried, Giving, Replaying
  <2>2. Replaying' = Replaying \ {o}
    BY <1>0, <1>9 DEF ReplayLog, ReplayTo, Replaying, ReplayRecords
  <2> QED BY <2>1, <2>2 DEF Lifecycle!Next, Lifecycle!Reopen
<1>10. CASE ReplayEnqueue(o)
  <2>1. status' = status /\ Buried' = Buried BY <1>10 DEF ReplayEnqueue, database, Buried
  <2>2. Giving' = Giving BY <1>10, EnqueueGivesUpNothing DEF ReplayEnqueue
  <2>3. Replaying' = Replaying BY <1>2, <1>10 DEF ReplayEnqueue, Replaying
  <2> QED BY <2>1, <2>2, <2>3, Stutters
<1> QED BY <1>4, <1>5, <1>6, <1>7, <1>8, <1>9, <1>10 DEF ReplayDlqJob

LEMMA StalledMaps ==
  ASSUME TypeOK, NEW j \in JobIds, NEW w \in Workers, Stalled(j, w)
  PROVE  [Lifecycle!Next]_(Lifecycle!vars)
<1>1. jobs[j].state = "active" /\ jobs[j] \in JobRecords BY DEF Stalled, TypeOK
<1>2. \A n \in JobIds \ {j} : jobs'[n] = jobs[n] BY DEF Stalled, TypeOK
<1>3. jobs'[j].state \in {"queued", "failed"}
  <2>1. CASE jobs[j].stalls < MaxStalls BY <1>1, <2>1 DEF Stalled, TypeOK, JobRecords
  <2>2. CASE ~(jobs[j].stalls < MaxStalls) BY <1>1, <2>2 DEF Stalled, TypeOK, JobRecords
  <2> QED BY <2>1, <2>2
<1>4. Giving' = Giving BY <1>1, <1>2, <1>3 DEF Giving
<1> QED BY <1>4, Stutters DEF Stalled, database, processes, Buried, Replaying

LEMMA CrashMaps ==
  ASSUME TypeOK, NEW w \in Workers, Crash(w)
  PROVE  Lifecycle!Next
<1>1. Giving' \subseteq Giving BY DEF Crash, Giving, TypeOK, FreeJob
<1>2. Replaying' \subseteq Replaying BY DEF Crash, Replaying, TypeOK, IdleReplay
<1>3. status' = status /\ Buried' = Buried BY DEF Crash, database, Buried
<1> QED BY <1>1, <1>2, <1>3 DEF Lifecycle!Next, Lifecycle!Forget

LEMMA StepMaps ==
  ASSUME TypeOK, Untriggered, [Next]_vars
  PROVE  [Lifecycle!Next]_(Lifecycle!vars)
<1>1. CASE TriggerEnqueue \/ \E w \in Workers : TriggerCreate(w) BY <1>1, TriggerMaps
<1>2. CASE Expire BY <1>2, Stutters DEF Expire, database, processes, Buried, Giving, Replaying
<1>3. CASE \E w \in Workers : RecoverStaleExecutions(w) BY <1>3, ScanMaps
<1>4. CASE \E w \in Workers : Crash(w) BY <1>4, CrashMaps
<1>5. CASE \E w \in Workers : Restart(w)
  BY <1>5, Stutters DEF Restart, database, Buried, Giving, Replaying
<1>6. CASE \E i \in Slots : ExecuteExecution(i) BY <1>6, ExecuteExecutionMaps
<1>7. CASE \E i \in Slots : Heartbeat(i)
  BY <1>7, Stutters DEF Heartbeat, OnlyRun, Buried, Giving, Replaying
<1>8. CASE \E i \in Slots, j \in JobIds : Fetch(i, j)
  <2>1. PICK i \in Slots, j \in JobIds : Fetch(i, j) BY <1>8
  <2>2. jobs[j].state = "queued" /\ jobs[j] \in JobRecords BY <2>1 DEF Fetch, TypeOK
  <2>3. \A n \in JobIds \ {j} : jobs'[n] = jobs[n] BY <2>1 DEF Fetch, TypeOK
  <2>4. jobs'[j].state = "active" BY <2>1, <2>2 DEF Fetch, TypeOK, JobRecords
  <2>5. Giving' = Giving BY <2>2, <2>3, <2>4 DEF Giving
  <2> QED BY <2>1, <2>5, Stutters DEF Fetch, database, Buried, Replaying
<1>9. CASE \E j \in JobIds : HandleRetry(j) \/ HandleBury(j) \/ markAsFailed(j)
  BY <1>9, HandlerMaps
<1>10. CASE \E j \in JobIds, w \in Workers : Stalled(j, w) BY <1>10, StalledMaps
<1>11. CASE \E l \in LetterIds : DlqWorker(l)
  <2>1. PICK l \in LetterIds : DlqWorker(l) BY <1>11
  <2>2. letters[l].state # "free" /\ letters[l] \in LetterRecords BY <2>1 DEF DlqWorker, TypeOK
  <2>3. \A n \in LetterIds \ {l} : letters'[n] = letters[n] BY <2>1 DEF DlqWorker, TypeOK
  <2>4. letters'[l].state \in {"locked", "kept"}
    BY <2>1, <2>2 DEF DlqWorker, TypeOK, LetterRecords
  <2>5. Buried' = Buried BY <2>2, <2>3, <2>4 DEF Buried
  <2> QED BY <2>1, <2>5, Stutters DEF DlqWorker, database, processes, Giving, Replaying
<1>12. CASE \E o \in Operators : ReplayDlqJob(o) BY <1>12, ReplayMaps
<1>13. CASE \E k \in Steps \X Attempts : LeaseExpires(k)
  BY <1>13, Stutters DEF LeaseExpires, processes, Buried, Giving, Replaying
<1>14. CASE UNCHANGED vars BY <1>14, Stutters DEF vars, Buried, Giving, Replaying
<1> QED
  BY <1>1, <1>2, <1>3, <1>4, <1>5, <1>6, <1>7, <1>8, <1>9, <1>10, <1>11, <1>12, <1>13, <1>14
  DEF Next

LEMMA InitMaps == Init => Lifecycle!Init
  BY DEF Init, Lifecycle!Init, Buried, Giving, Replaying, NoLetter, FreeJob, IdleReplay

\* The engine keeps the promises of ExecutionLifecycle: no duplicated job, late run,
\* scan or handler reopens a finished execution or fails one without a dead letter;
\* only the request of an operator who has seen a dead letter reopens it.
THEOREM ImplementsLifecycleHolds == Spec => ImplementsLifecycle
<1>1. Untriggered /\ TypeOK /\ [Next]_vars => [Lifecycle!Next]_(Lifecycle!vars) BY StepMaps
<1>2. Spec => []Untriggered
  BY UntriggeredInit, UntriggeredStep, TypeCorrect, PTL DEF Spec
<1> QED
  BY <1>1, <1>2, InitMaps, TypeCorrect, PTL DEF Spec, ImplementsLifecycle, Lifecycle!Spec
=============================================================================
