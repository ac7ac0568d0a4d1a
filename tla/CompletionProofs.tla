--------------------------- MODULE CompletionProofs ---------------------------
(***************************************************************************)
(* Three theorems about what an execution of WorkflowEngine comes to:      *)
(* completed only with every step succeeded, abandoned only by a crash,    *)
(* and, while nothing crashes or is paused, every step exactly once.       *)
(***************************************************************************)
EXTENDS WorkflowEngineProofs

-----------------------------------------------------------------------------
(* Completed only with every step succeeded. *)

\* All job slots are of one process, which is never paused for long.
OneProcessUnpaused ==
  /\ \A i, j \in Slots : WorkerOf[i] = WorkerOf[j]
  /\ MaxPauses = 0

Done == {s \in Steps : Succeeded(s)}
Before(n) == {s \in Steps : s < n}

\* A run has every step behind it succeeded; S is the set of those that have.
Ordered(run, S) == /\ Before(run.step) \subseteq S
                   /\ run.pc = "complete" => Steps \subseteq S

OrderOK ==
  /\ \A i \in Slots : Ordered(runs[i], Done)
  /\ Before(currentStep) \subseteq Done
  /\ CompletedMeansSucceeded

\* The row a run is at work on is as the run left it.
HeldOK ==
  \A i \in Slots :
    LET row == rows[RowOf(runs[i])]
    IN  /\ runs[i].pc = "start" => row.status = "PENDING"
        /\ runs[i].pc \in {"execute", "succeed", "fail"} =>
             row.status = "RUNNING" /\ row.fresh /\ row.worker = WorkerOf[i]

RunningIsOwn ==
  \A k \in Steps \X Attempts, i \in Slots :
    rows[k].status = "RUNNING" => rows[k].worker = WorkerOf[i]

\* The rows a scan has found were left by runs that are gone.
FoundOK ==
  \A w \in Workers : \A k \in scans[w].found :
    /\ rows[k].status \notin {"absent", "PENDING"}
    /\ \A i \in Slots : Holds(i) => RowOf(runs[i]) # k

CompletionInv == OneRunInv /\ OrderOK /\ HeldOK /\ RunningIsOwn /\ FoundOK

\* No run about to look for another process at its step would find one.
NoForeign ==
  \A i \in Slots : runs[i].pc = "active" =>
    {a \in ActiveAttempts(runs[i].step) : rows[<<runs[i].step, a>>].worker # WorkerOf[i]} = {}

\* What every step but those of executeExecution does to runs, pointer and status.
Elsewhere ==
  /\ \A i \in Slots : runs'[i] \in {runs[i], IdleRun}
  /\ currentStep' = currentStep
  /\ status' = "completed" => status = "completed"

LEMMA StepKinds ==
  ASSUME TypeOK, [Next]_vars
  PROVE  \/ Elsewhere
         \/ \E i \in Slots : ExecuteExecution(i)
         \/ \E i \in Slots, j \in JobIds : Fetch(i, j)
<1>1. CASE TriggerEnqueue \/ Expire
  BY <1>1 DEF TriggerEnqueue, Expire, database, processes, Elsewhere
<1>2. CASE \E w \in Workers : TriggerCreate(w) \/ Restart(w)
  BY <1>2 DEF TriggerCreate, Restart, database, Elsewhere
<1>3. CASE \E w \in Workers : RecoverStaleExecutions(w)
  BY <1>3 DEF RecoverStaleExecutions, ScanFind, ScanMark, ScanFlag, ScanCheck, ScanEnqueue,
     OnlyScan, database, Elsewhere
<1>4. CASE \E w \in Workers : Crash(w) BY <1>4 DEF Crash, database, Elsewhere
<1>5. CASE \E i \in Slots : Heartbeat(i) BY <1>5 DEF Heartbeat, Elsewhere
<1>6. CASE \E j \in JobIds : HandleRetry(j) \/ HandleBury(j) \/ markAsFailed(j)
  BY <1>6 DEF HandleRetry, HandleBury, markAsFailed, database, processes, Elsewhere
<1>7. CASE \E j \in JobIds, w \in Workers : Stalled(j, w)
  BY <1>7 DEF Stalled, database, processes, Elsewhere
<1>8. CASE \E l \in LetterIds : DlqWorker(l) BY <1>8 DEF DlqWorker, database, processes, Elsewhere
<1>9. CASE \E o \in Operators : ReplayDlqJob(o)
  BY <1>9 DEF ReplayDlqJob, ReplayGetJob, ReplayCheck, ReplayMark, ReplayRemove, ReplayRead,
     ReplayLog, ReplayEnqueue, OnlyReplay, database, Elsewhere
<1>10. CASE \E k \in Steps \X Attempts : LeaseExpires(k)
  BY <1>10 DEF LeaseExpires, processes, Elsewhere
<1>11. CASE UNCHANGED vars BY <1>11 DEF vars, Elsewhere
<1> QED BY <1>1, <1>2, <1>3, <1>4, <1>5, <1>6, <1>7, <1>8, <1>9, <1>10, <1>11 DEF Next

\* A run's step changes that run only.
LEMMA OtherRunsKept ==
  ASSUME TypeOK, NEW i \in Slots,
         ExecuteExecution(i) \/ \E j \in JobIds : Fetch(i, j),
         NEW n \in Slots, n # i
  PROVE  runs'[n] = runs[n]
  BY DEF TypeOK, ExecuteExecution, Fetch, Claim, LookupSucceeded, CheckActive,
     AdvanceCurrentStep, CreateRow, StartRow, ExecuteStep, RecordSuccess, RecordFailure,
     Complete, Return, Throw, Goto

\* Steps that have succeeded stay so.
LEMMA DoneGrows ==
  ASSUME TypeOK, [Next]_vars
  PROVE  Done \subseteq Done'
<1>1. \A k \in Steps \X Attempts : rows[k].status \in Finished => rows'[k] = rows[k]
  BY RowsKept
<1> QED BY <1>1 DEF Done, Succeeded, Finished

LEMMA OrderedPass ==
  ASSUME NEW run \in RunRecords, NEW S, Ordered(run, S), run.step \in S
  PROVE  Ordered(PassStep(run), S)
<1>0. run.step \in Steps /\ NumSteps \in Nat BY EngineAssumption DEF RunRecords
<1>1. CASE run.step = NumSteps
  <2>1. PassStep(run) = [run EXCEPT !.pc = "complete"] BY <1>1 DEF PassStep
  <2>2. PassStep(run).step = run.step BY <2>1 DEF RunRecords
  <2>3. Steps \subseteq S
    BY <1>0, <1>1 DEF Ordered, Before, Steps
  <2> QED BY <2>2, <2>3 DEF Ordered
<1>2. CASE run.step # NumSteps
  <2>1. PassStep(run) = [run EXCEPT !.pc = "lookup", !.step = run.step + 1]
    BY <1>2 DEF PassStep
  <2>2. PassStep(run).step = run.step + 1 /\ PassStep(run).pc = "lookup"
    BY <2>1 DEF RunRecords
  <2>3. Before(run.step + 1) \subseteq S BY <1>0 DEF Ordered, Before, Steps
  <2> QED BY <2>2, <2>3 DEF Ordered
<1> QED BY <1>1, <1>2

LEMMA OrderedMore ==
  ASSUME NEW run, NEW S, NEW T, Ordered(run, S), S \subseteq T
  PROVE  Ordered(run, T)
  BY DEF Ordered

\* Reusing or recording an output leaves the run where it is.
LEMMA OrderedInputs ==
  ASSUME NEW run \in RunRecords, NEW S, Ordered(run, S), run.step \in S
  PROVE  Ordered(PassStep([run EXCEPT !.inputs = run.inputs \cup {run.step}]), S)
<1> DEFINE more == [run EXCEPT !.inputs = run.inputs \cup {run.step}]
<1>1. more \in RunRecords /\ more.step = run.step /\ more.pc = run.pc BY DEF RunRecords
<1> HIDE DEF more
<1> QED BY <1>1, OrderedPass DEF Ordered, more

\* The loop over the steps never leaves one behind that has not succeeded.
LEMMA OrderStep ==
  ASSUME TypeOK, OrderOK, HeldOK, NoForeign, [Next]_vars
  PROVE  OrderOK'
<1>0. /\ TypeOK /\ TypeOK' /\ OrderOK /\ HeldOK
      /\ runs \in [Slots -> RunRecords] /\ rows \in [Steps \X Attempts -> RowRecords]
  BY StepType DEF TypeOK
<1>1. Done \subseteq Done' BY <1>0, DoneGrows
<1>2. \A i \in Slots : Ordered(runs[i], Done') BY <1>0, <1>1, OrderedMore DEF OrderOK
<1>3. /\ Before(currentStep) \subseteq Done'
      /\ status = "completed" => Steps \subseteq Done'
  BY <1>0, <1>1 DEF OrderOK, CompletedMeansSucceeded, Done
<1>4. ASSUME /\ \A i \in Slots : Ordered(runs'[i], Done')
             /\ Before(currentStep') \subseteq Done'
             /\ status' = "completed" => Steps \subseteq Done'
      PROVE  OrderOK'
  BY <1>4 DEF OrderOK, CompletedMeansSucceeded, Done
<1>5. CASE Elsewhere
  <2>1. Ordered(IdleRun, Done') BY EngineAssumption DEF Ordered, Before, IdleRun, Steps
  <2> QED BY <1>2, <1>3, <1>4, <1>5, <2>1 DEF Elsewhere
<1>6. ASSUME NEW i \in Slots, NEW j \in JobIds, Fetch(i, j) PROVE OrderOK'
  <2>1. runs'[i].step = currentStep /\ runs'[i].pc = "claim"
    BY <1>0, <1>6 DEF Fetch, IdleRun
  <2>2. Ordered(runs'[i], Done') BY <1>3, <2>1 DEF Ordered
  <2>3. \A n \in Slots \ {i} : runs'[n] = runs[n] BY <1>0, <1>6, OtherRunsKept
  <2>4. currentStep' = currentStep /\ status' = status BY <1>6 DEF Fetch, database
  <2> QED BY <1>2, <1>3, <1>4, <2>2, <2>3, <2>4
<1>7. ASSUME NEW i \in Slots, ExecuteExecution(i) PROVE OrderOK'
  <2> DEFINE run == runs[i]
  <2>0. /\ run \in RunRecords /\ run.step \in Steps /\ Ordered(run, Done')
        /\ RowOf(run) \in Steps \X Attempts /\ Before(run.step) \subseteq Done'
    BY <1>0, <1>2 DEF RunRecords, RowOf, Ordered
  <2>1. \A n \in Slots \ {i} : runs'[n] = runs[n] BY <1>0, <1>7, OtherRunsKept
  <2>2. ASSUME /\ Ordered(runs'[i], Done')
               /\ currentStep' = currentStep \/ currentStep' = run.step
               /\ status' = "completed" => status = "completed" \/ run.pc = "complete"
        PROVE  OrderOK'
    BY <1>2, <1>3, <1>4, <2>0, <2>1, <2>2 DEF Ordered
  <2>3. ASSUME NEW pc, Goto(i, pc), pc # "complete" PROVE Ordered(runs'[i], Done')
    <3>1. runs'[i].step = run.step /\ runs'[i].pc = pc BY <1>0, <2>3 DEF Goto, RunRecords
    <3> QED BY <2>0, <2>3, <3>1 DEF Ordered
  <2>4. CASE Claim(i) BY <2>2, <2>3, <2>4 DEF Claim
  <2>5. CASE LookupSucceeded(i)
    <3>1. status' = status /\ currentStep' = currentStep
      BY <2>5 DEF LookupSucceeded, database
    <3>2. CASE \E a \in Attempts : rows[<<run.step, a>>].status = "SUCCEEDED"
      <4>1. run.step \in Done' BY <1>1, <2>0, <3>2 DEF Done, Succeeded
      <4>2. runs'[i] = PassStep([run EXCEPT !.inputs = run.inputs \cup {run.step}])
        BY <1>0, <2>5, <3>2 DEF LookupSucceeded
      <4> QED BY <2>0, <2>2, <3>1, <4>1, <4>2, OrderedInputs
    <3>3. CASE ~\E a \in Attempts : rows[<<run.step, a>>].status = "SUCCEEDED"
      <4>1. runs'[i] = [run EXCEPT !.pc = "active"]
        BY <1>0, <2>5, <3>3 DEF LookupSucceeded
      <4>2. runs'[i].step = run.step /\ runs'[i].pc = "active" BY <2>0, <4>1 DEF RunRecords
      <4> QED BY <2>0, <2>2, <3>1, <4>2 DEF Ordered
    <3> QED BY <3>2, <3>3
  <2>6. CASE CheckActive(i)
    <3>1. {a \in ActiveAttempts(run.step) : rows[<<run.step, a>>].worker # WorkerOf[i]} = {}
      BY <2>6 DEF CheckActive, NoForeign
    <3>2. Goto(i, "advance") BY <2>6, <3>1 DEF CheckActive
    <3> QED BY <2>2, <2>3, <2>6, <3>2 DEF CheckActive, database
  <2>7. CASE AdvanceCurrentStep(i) BY <2>2, <2>3, <2>7 DEF AdvanceCurrentStep
  <2>8. CASE CreateRow(i)
    <3>1. runs'[i].step = run.step /\ runs'[i].pc \in {"start", "throw"}
      BY <1>0, <2>0, <2>8 DEF CreateRow, Goto, RunRecords
    <3> QED BY <2>0, <2>2, <2>8, <3>1 DEF CreateRow, Ordered
  <2>9. CASE StartRow(i)
    <3>1. rows[RowOf(run)].status = "PENDING" BY <1>0, <2>9 DEF HeldOK, StartRow
    <3> QED BY <2>2, <2>3, <2>9, <3>1 DEF StartRow
  <2>10. CASE ExecuteStep(i)
    <3>1. runs'[i].step = run.step /\ runs'[i].pc \in {"succeed", "fail"}
      BY <1>0, <2>0, <2>10 DEF ExecuteStep, Goto, RunRecords
    <3> QED BY <2>0, <2>2, <2>10, <3>1 DEF ExecuteStep, Ordered, database
  <2>11. CASE RecordSuccess(i)
    <3>1. rows[RowOf(run)].status = "RUNNING" /\ rows[RowOf(run)].worker = WorkerOf[i]
      BY <1>0, <2>11 DEF HeldOK, RecordSuccess
    <3>2. rows'[RowOf(run)] = [rows[RowOf(run)] EXCEPT !.status = "SUCCEEDED", !.fresh = FALSE]
      BY <1>0, <2>0, <2>11, <3>1 DEF RecordSuccess, FinishedRow
    <3>3. rows'[RowOf(run)].status = "SUCCEEDED" BY <1>0, <2>0, <3>2 DEF RowRecords
    <3>4. run.step \in Done' BY <2>0, <3>3 DEF Done, Succeeded, RowOf, RunRecords
    <3>5. runs'[i] = PassStep([run EXCEPT !.inputs = run.inputs \cup {run.step}])
      BY <1>0, <2>11 DEF RecordSuccess
    <3> QED BY <2>0, <2>2, <2>11, <3>4, <3>5, OrderedInputs DEF RecordSuccess
  <2>12. CASE RecordFailure(i) BY <2>2, <2>3, <2>12 DEF RecordFailure
  <2>13. CASE Complete(i) BY <2>2, <2>3, <2>13 DEF Complete
  <2>14. CASE Return(i) \/ Throw(i)
    <3>1. runs'[i] = IdleRun BY <1>0, <2>14 DEF Return, Throw
    <3>2. Ordered(IdleRun, Done') BY EngineAssumption DEF Ordered, Before, IdleRun, Steps
    <3> QED BY <2>2, <2>14, <3>1, <3>2 DEF Return, Throw, database
  <2> QED
    BY <1>7, <2>4, <2>5, <2>6, <2>7, <2>8, <2>9, <2>10, <2>11, <2>12, <2>13, <2>14
    DEF ExecuteExecution
<1> QED BY <1>0, <1>5, <1>6, <1>7, StepKinds

\* While a run is at work on a row, nobody else touches it but to renew its lease:
\* the others hold other rows, a scan has found only rows that were left, and without
\* a pause the lease of a live run does not lapse.
LEMMA HeldRowKept ==
  ASSUME OneRunInv, HeldOK, FoundOK, pauses' = pauses, [Next]_vars, NEW i \in Slots, Holds(i),
         ~(StartRow(i) \/ RecordSuccess(i) \/ RecordFailure(i))
  PROVE  LET k == RowOf(runs[i])
         IN  /\ rows'[k].status = rows[k].status /\ rows'[k].worker = rows[k].worker
             /\ rows[k].fresh => rows'[k].fresh
<1> DEFINE k == RowOf(runs[i])
<1>0. /\ TypeOK /\ HeldOK /\ FoundOK /\ OneRunPerRow /\ HeldRowsExist
      /\ rows \in [Steps \X Attempts -> RowRecords] /\ k \in Steps \X Attempts
      /\ rows[k] \in RowRecords /\ rows[k].status # "absent"
  BY DEF OneRunInv, TypeOK, RunRecords, RowOf, HeldRowsExist
<1>1. \A n \in Slots : RowOf(runs[n]) \in Steps \X Attempts
  BY <1>0 DEF TypeOK, RunRecords, RowOf
<1> HIDE DEF k
<1>2. ASSUME rows'[k] = rows[k]
      PROVE  /\ rows'[k].status = rows[k].status /\ rows'[k].worker = rows[k].worker
             /\ rows[k].fresh => rows'[k].fresh
  BY <1>2
<1>3. ASSUME NEW n \in Slots, CreateRow(n) PROVE rows'[k] = rows[k]
  BY <1>0, <1>1, <1>3 DEF CreateRow, RowOf
<1>4. ASSUME NEW n \in Slots, StartRow(n) \/ RecordSuccess(n) \/ RecordFailure(n)
      PROVE  rows'[k] = rows[k]
  <2>0. n # i BY <1>4
  <2>1. Holds(n) /\ n # i BY <1>4, <2>0 DEF StartRow, RecordSuccess, RecordFailure, Holds
  <2>2. RowOf(runs[n]) # k BY <1>0, <2>1 DEF OneRunPerRow, k
  <2> QED BY <1>0, <1>4, <2>2 DEF StartRow, RecordSuccess, RecordFailure
<1>5. ASSUME NEW n \in Slots, Heartbeat(n)
      PROVE  /\ rows'[k].status = rows[k].status /\ rows'[k].worker = rows[k].worker
             /\ rows[k].fresh => rows'[k].fresh
  BY <1>0, <1>1, <1>5 DEF Heartbeat, RowRecords
<1>6. ASSUME NEW w \in Workers, NEW n \in Steps \X Attempts, ScanMark(w, n)
      PROVE  rows'[k] = rows[k]
  <2>1. n # k BY <1>0, <1>6 DEF ScanMark, FoundOK, k
  <2> QED BY <1>0, <1>6, <2>1 DEF ScanMark
<1>7. ASSUME NEW n \in Steps \X Attempts, LeaseExpires(n)
      PROVE  rows'[k] = rows[k]
  <2>1. ~\E m \in Slots : Beats(m, n)
    <3>1. pauses' # pauses + 1 BY <1>0, EngineAssumption DEF TypeOK
    <3> QED BY <1>7, <3>1 DEF LeaseExpires, Lapses
  <2>2. n # k
    BY <1>0, <1>7, <2>1 DEF LeaseExpires, Beats, Holds, HeldOK, k
  <2> QED BY <1>0, <1>7, <2>2 DEF LeaseExpires
<1> QED
  BY <1>0, <1>2, <1>3, <1>4, <1>5, <1>6, <1>7, RowUpdates DEF RowUpdate, k

LEMMA HeldStep ==
  ASSUME OneRunInv, HeldOK, FoundOK, pauses' = pauses, [Next]_vars
  PROVE  HeldOK'
<1> DEFINE AsLeft(i) ==
      /\ runs'[i].pc = "start" => rows'[RowOf(runs'[i])].status = "PENDING"
      /\ runs'[i].pc \in {"execute", "succeed", "fail"} =>
           /\ rows'[RowOf(runs'[i])].status = "RUNNING" /\ rows'[RowOf(runs'[i])].fresh
           /\ rows'[RowOf(runs'[i])].worker = WorkerOf[i]
<1>0. /\ TypeOK /\ HeldOK
      /\ runs \in [Slots -> RunRecords] /\ rows \in [Steps \X Attempts -> RowRecords]
  BY DEF OneRunInv, TypeOK
<1> SUFFICES ASSUME NEW i \in Slots PROVE AsLeft(i)
  BY DEF HeldOK
<1> DEFINE k == RowOf(runs[i])
<1>1. k \in Steps \X Attempts /\ rows[k] \in RowRecords /\ runs[i] \in RunRecords
  BY <1>0 DEF RowOf, RunRecords
<1>2. ASSUME ~Holds(i)' PROVE AsLeft(i) BY <1>2 DEF Holds
<1>3. ASSUME runs'[i] = runs[i], ~(StartRow(i) \/ RecordSuccess(i) \/ RecordFailure(i))
      PROVE  AsLeft(i)
  <2>1. CASE ~Holds(i) BY <1>2, <1>3, <2>1 DEF Holds
  <2>2. CASE Holds(i) BY <1>0, <1>3, <2>2, HeldRowKept DEF HeldOK, Holds
  <2> QED BY <2>1, <2>2
<1>4. CASE runs'[i] = IdleRun BY <1>2, <1>4 DEF Holds, IdleRun
<1>5. CASE \E j \in JobIds : Fetch(i, j)
  <2>1. runs'[i].pc = "claim" BY <1>0, <1>5 DEF Fetch, IdleRun
  <2> QED BY <1>2, <2>1 DEF Holds
<1>6. CASE ExecuteExecution(i)
  <2>1. ASSUME NEW pc, Goto(i, pc), pc \notin {"start", "execute", "succeed", "fail"}
        PROVE  AsLeft(i)
    <3>1. runs'[i].pc = pc BY <1>0, <1>1, <2>1 DEF Goto, RunRecords
    <3> QED BY <1>2, <2>1, <3>1 DEF Holds
  <2>2. ASSUME NEW run \in RunRecords, runs'[i] = PassStep(run) PROVE AsLeft(i)
    <3>1. runs'[i].pc \in {"lookup", "complete"} BY <2>2 DEF PassStep, RunRecords
    <3> QED BY <1>2, <3>1 DEF Holds
  <2>3. [runs[i] EXCEPT !.inputs = runs[i].inputs \cup {runs[i].step}] \in RunRecords
    BY <1>1 DEF RunRecords
  <2>4. CASE Claim(i) BY <2>1, <2>4 DEF Claim
  <2>5. CASE LookupSucceeded(i)
    <3>1. CASE runs'[i] = [runs[i] EXCEPT !.pc = "active"]
      <4>1. runs'[i].pc = "active" BY <1>1, <3>1 DEF RunRecords
      <4> QED BY <1>2, <4>1 DEF Holds
    <3>2. CASE runs'[i] # [runs[i] EXCEPT !.pc = "active"]
      <4>1. runs'[i] = PassStep([runs[i] EXCEPT !.inputs = runs[i].inputs \cup {runs[i].step}])
        BY <1>0, <2>5, <3>2 DEF LookupSucceeded
      <4> QED BY <2>2, <2>3, <4>1
    <3> QED BY <3>1, <3>2
  <2>6. CASE CheckActive(i)
    <3>1. CASE Goto(i, "advance") BY <2>1, <3>1
    <3>2. CASE runs' = [runs EXCEPT ![i] = PassStep(runs[i])] BY <1>0, <1>1, <2>2, <3>2
    <3> QED BY <2>6, <3>1, <3>2 DEF CheckActive
  <2>7. CASE AdvanceCurrentStep(i) BY <2>1, <2>7 DEF AdvanceCurrentStep
  <2>8. CASE CreateRow(i)
    <3>1. CASE rows[k].status = "absent"
      <4>1. runs'[i].pc = "start" /\ RowOf(runs'[i]) = k
        BY <1>0, <1>1, <2>8, <3>1 DEF CreateRow, Goto, RunRecords, RowOf
      <4>2. rows'[k].status = "PENDING" BY <1>0, <1>1, <2>8, <3>1 DEF CreateRow, NoRow
      <4> QED BY <4>1, <4>2
    <3>2. CASE rows[k].status # "absent"
      <4>1. runs'[i].pc = "throw" BY <1>0, <1>1, <2>8, <3>2 DEF CreateRow, RunRecords
      <4> QED BY <1>2, <4>1 DEF Holds
    <3> QED BY <3>1, <3>2
  <2>9. CASE StartRow(i)
    <3>1. rows[k].status = "PENDING" BY <1>0, <2>9 DEF HeldOK, StartRow
    <3>2. runs'[i].pc = "execute" /\ RowOf(runs'[i]) = k
      BY <1>0, <1>1, <2>9, <3>1 DEF StartRow, Goto, RunRecords, RowOf
    <3>3. rows' = [rows EXCEPT ![k].status = "RUNNING", ![k].fresh = TRUE,
                               ![k].worker = WorkerOf[i]]
      BY <2>9, <3>1 DEF StartRow
    <3>4. rows'[k].status = "RUNNING" /\ rows'[k].fresh /\ rows'[k].worker = WorkerOf[i]
      BY <1>0, <1>1, <3>3 DEF RowRecords
    <3> QED BY <3>2, <3>4
  <2>10. CASE ExecuteStep(i)
    <3>1. runs'[i].pc \in {"succeed", "fail"} /\ RowOf(runs'[i]) = k
      BY <1>0, <1>1, <2>10 DEF ExecuteStep, Goto, RunRecords, RowOf
    <3>2. rows[k].status = "RUNNING" /\ rows[k].fresh /\ rows[k].worker = WorkerOf[i]
      BY <1>0, <2>10 DEF HeldOK, ExecuteStep
    <3>3. rows' = rows BY <2>10 DEF ExecuteStep, database
    <3> QED BY <3>1, <3>2, <3>3
  <2>11. CASE RecordSuccess(i)
    <3>1. runs'[i] = PassStep([runs[i] EXCEPT !.inputs = runs[i].inputs \cup {runs[i].step}])
      BY <1>0, <2>11 DEF RecordSuccess
    <3> QED BY <2>2, <2>3, <3>1
  <2>12. CASE RecordFailure(i) BY <2>1, <2>12 DEF RecordFailure
  <2>13. CASE Complete(i) BY <2>1, <2>13 DEF Complete
  <2>14. CASE Return(i) \/ Throw(i)
    <3>1. runs'[i] = IdleRun BY <1>0, <2>14 DEF Return, Throw
    <3> QED BY <1>4, <3>1
  <2> QED
    BY <1>6, <2>4, <2>5, <2>6, <2>7, <2>8, <2>9, <2>10, <2>11, <2>12, <2>13, <2>14
    DEF ExecuteExecution
<1>7. CASE ~ExecuteExecution(i) /\ runs'[i] = runs[i]
  BY <1>3, <1>7 DEF ExecuteExecution
<1> QED BY <1>0, <1>4, <1>5, <1>6, <1>7, StepKinds, OtherRunsKept DEF Elsewhere

\* Every row that runs is the process's own, which is why no run passes over a step.
LEMMA RunningStep ==
  ASSUME CompletionInv, OneProcessUnpaused, [Next]_vars
  PROVE  RunningIsOwn'
<1>0. /\ TypeOK /\ RunningIsOwn /\ rows \in [Steps \X Attempts -> RowRecords]
      /\ \A n \in Slots : RowOf(runs[n]) \in Steps \X Attempts
  BY DEF CompletionInv, OneRunInv, TypeOK, RunRecords, RowOf
<1> SUFFICES ASSUME NEW k \in Steps \X Attempts, NEW i \in Slots, rows'[k].status = "RUNNING"
             PROVE  rows'[k].worker = WorkerOf[i]
  BY DEF RunningIsOwn
<1>1. CASE rows'[k] = rows[k] BY <1>0, <1>1 DEF RunningIsOwn
<1>2. ASSUME NEW n \in Slots, CreateRow(n), rows'[k] # rows[k] PROVE FALSE
  BY <1>0, <1>2 DEF CreateRow, NoRow
<1>3. ASSUME NEW n \in Slots, StartRow(n), rows'[k] # rows[k]
      PROVE  rows'[k].worker = WorkerOf[i]
  <2>1. k = RowOf(runs[n]) BY <1>0, <1>3 DEF StartRow
  <2>2. rows' = [rows EXCEPT ![k].status = "RUNNING", ![k].fresh = TRUE,
                             ![k].worker = WorkerOf[n]]
    BY <1>3, <2>1 DEF StartRow
  <2>3. rows'[k].worker = WorkerOf[n] BY <1>0, <2>2 DEF RowRecords
  <2> QED BY <2>3 DEF OneProcessUnpaused
<1>4. ASSUME NEW n \in Slots, RecordSuccess(n) \/ RecordFailure(n), rows'[k] # rows[k]
      PROVE  FALSE
  <2>1. PICK end \in Finished : rows' = [rows EXCEPT ![RowOf(runs[n])] = FinishedRow(n, @, end)]
    BY <1>4 DEF RecordSuccess, RecordFailure, Finished
  <2>2. rows'[k] = FinishedRow(n, rows[k], end) BY <1>0, <1>4, <2>1
  <2>3. rows'[k] = [rows[k] EXCEPT !.status = end, !.fresh = FALSE]
    BY <1>4, <2>2 DEF FinishedRow
  <2> QED BY <1>0, <2>3 DEF RowRecords, Finished
<1>5. ASSUME NEW n \in Slots, Heartbeat(n) PROVE rows'[k].worker = WorkerOf[i]
  <2>1. rows'[k].status = rows[k].status /\ rows'[k].worker = rows[k].worker
    BY <1>0, <1>5 DEF Heartbeat, RowRecords
  <2> QED BY <1>0, <2>1 DEF RunningIsOwn
<1>6. ASSUME NEW w \in Workers, NEW n \in Steps \X Attempts, ScanMark(w, n),
             rows'[k] # rows[k]
      PROVE  FALSE
  <2>1. n = k /\ rows' = [rows EXCEPT ![n].status = "TIMED_OUT", ![n].fresh = FALSE]
    BY <1>0, <1>6 DEF ScanMark
  <2> QED BY <1>0, <2>1 DEF RowRecords
<1>7. ASSUME NEW n \in Steps \X Attempts, LeaseExpires(n)
      PROVE  rows'[k].worker = WorkerOf[i]
  <2>1. rows'[k].status = rows[k].status /\ rows'[k].worker = rows[k].worker
    BY <1>0, <1>7 DEF LeaseExpires, RowRecords
  <2> QED BY <1>0, <2>1 DEF RunningIsOwn
<1> QED BY <1>1, <1>2, <1>3, <1>4, <1>5, <1>6, <1>7, RowUpdates DEF RowUpdate

\* A row that has been started is not PENDING again.
LEMMA StartedStays ==
  ASSUME TypeOK, [Next]_vars, NEW k \in Steps \X Attempts,
         rows[k].status \notin {"absent", "PENDING"}
  PROVE  rows'[k].status \notin {"absent", "PENDING"}
<1>0. /\ rows \in [Steps \X Attempts -> RowRecords] /\ rows[k] \in RowRecords
      /\ \A n \in Slots : RowOf(runs[n]) \in Steps \X Attempts
  BY DEF TypeOK, RunRecords, RowOf
<1>1. ASSUME NEW n \in Slots, CreateRow(n) \/ StartRow(n)
      PROVE  rows'[k] = rows[k]
  BY <1>0, <1>1 DEF CreateRow, StartRow
<1>2. ASSUME NEW n \in Slots, RecordSuccess(n) \/ RecordFailure(n)
      PROVE  rows'[k].status \notin {"absent", "PENDING"}
  <2>1. PICK end \in Finished : rows' = [rows EXCEPT ![RowOf(runs[n])] = FinishedRow(n, @, end)]
    BY <1>2 DEF RecordSuccess, RecordFailure, Finished
  <2>2. rows'[k] = rows[k] \/ rows'[k] = [rows[k] EXCEPT !.status = end, !.fresh = FALSE]
    BY <1>0, <2>1 DEF FinishedRow
  <2> QED BY <1>0, <2>2 DEF RowRecords, Finished
<1>3. ASSUME NEW n \in Slots, Heartbeat(n) PROVE rows'[k].status = rows[k].status
  BY <1>0, <1>3 DEF Heartbeat, RowRecords
<1>4. ASSUME NEW w \in Workers, NEW n \in Steps \X Attempts, ScanMark(w, n)
      PROVE  rows'[k].status \in {rows[k].status, "TIMED_OUT"}
  BY <1>0, <1>4 DEF ScanMark, RowRecords
<1>5. ASSUME NEW n \in Steps \X Attempts, LeaseExpires(n)
      PROVE  rows'[k].status = rows[k].status
  BY <1>0, <1>5 DEF LeaseExpires, RowRecords
<1> QED BY <1>1, <1>2, <1>3, <1>4, <1>5, RowUpdates DEF RowUpdate

\* A scan comes to know rows only by finding them stale.
LEMMA ScansFind ==
  ASSUME TypeOK, [Next]_vars, NEW w \in Workers
  PROVE  \/ scans'[w].found \subseteq scans[w].found
         \/ ScanFind(w) /\ scans'[w].found = StaleRows
<1>0. scans \in [Workers -> ScanRecords] BY DEF TypeOK
<1>1. CASE UNCHANGED scans BY <1>1
<1>2. ASSUME NEW v \in Workers, RecoverStaleExecutions(v)
      PROVE  \/ scans'[w].found \subseteq scans[w].found
             \/ ScanFind(w) /\ scans'[w].found = StaleRows
  <2>1. CASE ScanFind(v) BY <1>0, <2>1 DEF ScanFind, IdleScan
  <2>2. ASSUME NEW k \in Steps \X Attempts, ScanMark(v, k)
        PROVE  scans'[w].found \subseteq scans[w].found
    <3>1. CASE w # v BY <1>0, <2>2, <3>1 DEF ScanMark
    <3>2. CASE w = v
      <4> DEFINE scan == [scans[v] EXCEPT !.found = scans[v].found \ {k}]
                 won == [scan EXCEPT !.recovered = TRUE]
      <4>1. scans[v] \in ScanRecords BY <1>0
      <4>2. scan.found = scans[v].found \ {k} /\ won.found = scan.found
        BY <4>1 DEF ScanRecords
      <4>3. scan \in ScanRecords /\ won \in ScanRecords BY <4>1 DEF ScanRecords
      <4>4. scans'[v] \in {[won EXCEPT !.pc = "flag"], ScanNext(won), ScanNext(scan)}
        BY <1>0, <2>2 DEF ScanMark
      <4> HIDE DEF scan, won
      <4>5. scans'[v].found \in {won.found, scan.found}
        BY <4>3, <4>4 DEF ScanNext, ScanRecords
      <4> QED BY <3>2, <4>2, <4>5
    <3> QED BY <3>1, <3>2
  <2>3. CASE ScanFlag(v) BY <1>0, <2>3 DEF ScanFlag, ScanNext, ScanRecords
  <2>4. CASE ScanCheck(v) BY <1>0, <2>4 DEF ScanCheck, IdleScan
  <2>5. CASE ScanEnqueue(v) BY <1>0, <2>5 DEF ScanEnqueue, IdleScan
  <2> QED BY <1>2, <2>1, <2>2, <2>3, <2>4, <2>5 DEF RecoverStaleExecutions
<1>3. CASE \E v \in Workers : Crash(v) BY <1>0, <1>3 DEF Crash, IdleScan
<1>4. CASE TriggerEnqueue \/ Expire BY <1>1, <1>4 DEF TriggerEnqueue, Expire, processes
<1>5. CASE \E v \in Workers : TriggerCreate(v) \/ Restart(v)
  BY <1>1, <1>5 DEF TriggerCreate, Restart
<1>6. CASE \E i \in Slots : ExecuteExecution(i) \/ Heartbeat(i) \/ \E j \in JobIds : Fetch(i, j)
  BY <1>1, <1>6 DEF ExecuteExecution, Heartbeat, Fetch, Claim, LookupSucceeded, CheckActive,
     AdvanceCurrentStep, CreateRow, StartRow, ExecuteStep, RecordSuccess, RecordFailure,
     Complete, Return, Throw, OnlyRun
<1>7. CASE \E j \in JobIds : \/ HandleRetry(j) \/ HandleBury(j) \/ markAsFailed(j)
                            \/ \E v \in Workers : Stalled(j, v)
  BY <1>1, <1>7 DEF HandleRetry, HandleBury, markAsFailed, Stalled, processes
<1>8. CASE \E l \in LetterIds : DlqWorker(l) BY <1>1, <1>8 DEF DlqWorker, processes
<1>9. CASE \E o \in Operators : ReplayDlqJob(o)
  BY <1>1, <1>9 DEF ReplayDlqJob, ReplayGetJob, ReplayCheck, ReplayMark, ReplayRemove,
     ReplayRead, ReplayLog, ReplayEnqueue, OnlyReplay
<1>10. CASE \E k \in Steps \X Attempts : LeaseExpires(k)
  BY <1>1, <1>10 DEF LeaseExpires, processes
<1>11. CASE UNCHANGED vars BY <1>1, <1>11 DEF vars
<1> QED BY <1>2, <1>3, <1>4, <1>5, <1>6, <1>7, <1>8, <1>9, <1>10, <1>11 DEF Next

\* Without pauses a row that has gone stale has no run left, and none takes it over.
LEMMA FoundStep ==
  ASSUME OneRunInv, HeldOK, FoundOK, [Next]_vars
  PROVE  FoundOK'
<1>0. /\ TypeOK /\ TypeOK' /\ HeldOK /\ FoundOK /\ HeldRowsExist
      /\ scans \in [Workers -> ScanRecords]
  BY StepType DEF OneRunInv, TypeOK
<1> SUFFICES ASSUME NEW w \in Workers, NEW k \in scans'[w].found
             PROVE  /\ rows'[k].status \notin {"absent", "PENDING"}
                    /\ \A i \in Slots : Holds(i)' => RowOf(runs'[i]) # k
  BY DEF FoundOK
<1>1. k \in Steps \X Attempts BY <1>0 DEF TypeOK, ScanRecords
<1>2. /\ rows[k].status \notin {"absent", "PENDING"}
      /\ \A i \in Slots : Holds(i) => RowOf(runs[i]) # k
  <2>1. CASE scans'[w].found \subseteq scans[w].found BY <1>0, <2>1 DEF FoundOK
  <2>2. CASE k \in StaleRows BY <1>0, <2>2 DEF StaleRows, HeldOK, Holds
  <2> QED BY <1>0, <2>1, <2>2, ScansFind
<1>3. rows'[k].status \notin {"absent", "PENDING"} BY <1>0, <1>1, <1>2, StartedStays
<1>4. CASE HoldersKept BY <1>2, <1>3, <1>4 DEF HoldersKept
<1>5. ASSUME NEW i \in Slots, CreateRow(i), rows[RowOf(runs[i])].status = "absent",
             Goto(i, "start")
      PROVE  \A n \in Slots : Holds(n)' => RowOf(runs'[n]) # k
  <2>1. \A n \in Slots : RowOf(runs'[n]) = RowOf(runs[n])
    BY <1>0, <1>5 DEF Goto, TypeOK, RunRecords, RowOf
  <2>2. \A n \in Slots \ {i} : Holds(n)' => Holds(n)
    BY <1>0, <1>5 DEF Goto, TypeOK, Holds
  <2> QED BY <1>2, <1>5, <2>1, <2>2
<1> QED BY <1>0, <1>3, <1>4, <1>5, HoldersByCreation

LEMMA CompletionInit == Init => CompletionInv
<1> SUFFICES ASSUME Init PROVE CompletionInv OBVIOUS
<1>1. OneRunInv BY OneRunInit
<1>2. OrderOK
  BY EngineAssumption
  DEF Init, OrderOK, Ordered, Before, CompletedMeansSucceeded, IdleRun, Steps
<1>3. HeldOK /\ RunningIsOwn /\ FoundOK
  BY DEF Init, HeldOK, RunningIsOwn, FoundOK, IdleRun, NoRow, IdleScan
<1> QED BY <1>1, <1>2, <1>3 DEF CompletionInv

LEMMA CompletionStep ==
  OneProcessUnpaused => (CompletionInv /\ [Next]_vars => CompletionInv')
<1> SUFFICES ASSUME OneProcessUnpaused, CompletionInv, [Next]_vars PROVE CompletionInv'
  OBVIOUS
<1>1. OneRunInv' BY OneRunStep DEF CompletionInv
<1>2. pauses' = pauses
  BY <1>1, EngineAssumption DEF OneProcessUnpaused, CompletionInv, OneRunInv, TypeOK
<1>3. NoForeign
  BY DEF NoForeign, CompletionInv, OneRunInv, TypeOK, RunRecords, ActiveAttempts, RunningIsOwn
<1>4. TypeOK BY DEF CompletionInv, OneRunInv
<1> QED BY <1>1, <1>2, <1>3, <1>4, OrderStep, HeldStep, RunningStep, FoundStep DEF CompletionInv

\* In one process that may crash at any point but is not paused for longer than its
\* leases, an execution is completed only when every step of its workflow has succeeded.
THEOREM CompletedMeansSucceededHolds ==
  ASSUME OneProcessUnpaused
  PROVE  Spec => []CompletedMeansSucceeded
<1>1. CompletionInv => CompletedMeansSucceeded BY DEF CompletionInv, OrderOK
<1>2. CompletionInv /\ [Next]_vars => CompletionInv' BY CompletionStep
<1> QED BY <1>1, <1>2, CompletionInit, PTL DEF Spec

-----------------------------------------------------------------------------
(* Abandoned only by a crash. *)

\* Before the trigger there is nothing to work on.
NothingYet ==
  /\ \A j \in JobIds : jobs[j].state = "free"
  /\ \A i \in Slots : runs[i].pc = "idle"
  /\ \A l \in LetterIds : letters[l].state = "free"
  /\ \A o \in Operators : replays[o].pc = "idle"
  /\ \A k \in Steps \X Attempts : rows[k].status = "absent"
  /\ \A w \in Workers : scans[w].pc = "idle"

\* An active job is carried by a run that refers to it.
JobsOwned ==
  \A j \in JobIds : jobs[j].state = "active" =>
    \E i \in Slots : jobs[j].owner = i /\ runs[i].job = j /\ runs[i].pc # "idle"

\* A run past its claim is not of an execution that is still to be claimed.
ClaimedOK ==
  \A i \in Slots : runs[i].pc \notin {"idle", "claim"} => status # "pending"

\* Job j is going to be run, is being run, or is being judged.
Carried(j) ==
  \/ jobs[j].state \in {"queued", "failed", "buried"}
  \/ jobs[j].state = "active" /\ \A i \in Slots : jobs[j].owner = i => runs[i].pc # "return"

\* Somebody is going to act on the execution.
Attended ==
  \/ trigger.pc = "created"
  \/ \E o \in Operators : replays[o].pc = "enqueue"
  \/ \E j \in JobIds : Carried(j)

TendedInv ==
  crashes = 0 =>
    /\ trigger.pc = "idle" => NothingYet
    /\ trigger.pc # "idle" => status # "none" /\ (status \in Terminal \/ Attended)
    /\ JobsOwned /\ ClaimedOK

LEMMA AddedIsCarried ==
  ASSUME TypeOK, NEW a, NEW d, NEW freed, AddJob(NewJob(a, d), freed)
  PROVE  /\ \E j \in JobIds : jobs'[j].state = "queued"
         /\ \A j \in JobIds : jobs'[j].state = "active" => jobs'[j] = jobs[j]
<1>1. NewJob(a, d).state = "queued" /\ FreeJob.state = "free" BY DEF NewJob, FreeJob
<1> QED BY <1>1 DEF AddJob, FreshJobIds

\* Before the trigger, only the trigger, crashes and restarts can happen.
LEMMA OnlyTrigger ==
  ASSUME TypeOK, NothingYet, trigger.pc = "idle", [Next]_vars
  PROVE  \/ \E w \in Workers : TriggerCreate(w) \/ Crash(w) \/ Restart(w)
         \/ UNCHANGED vars
<1>1. ~TriggerEnqueue /\ ~Expire BY DEF TriggerEnqueue, Expire
<1>2. ASSUME NEW w \in Workers PROVE ~RecoverStaleExecutions(w)
  BY DEF NothingYet, RecoverStaleExecutions, ScanFind, ScanMark, ScanFlag, ScanCheck,
     ScanEnqueue, StaleRows
<1>3. ASSUME NEW i \in Slots PROVE ~ExecuteExecution(i) /\ ~Heartbeat(i)
  BY DEF NothingYet, ExecuteExecution, Heartbeat, Claim, LookupSucceeded, CheckActive,
     AdvanceCurrentStep, CreateRow, StartRow, ExecuteStep, RecordSuccess, RecordFailure,
     Complete, Return, Throw, Beats
<1>4. ASSUME NEW j \in JobIds
      PROVE  /\ ~HandleRetry(j) /\ ~HandleBury(j) /\ ~markAsFailed(j)
             /\ \A w \in Workers : ~Stalled(j, w)
             /\ \A i \in Slots : ~Fetch(i, j)
  BY DEF NothingYet, HandleRetry, HandleBury, markAsFailed, Stalled, Fetch
<1>5. ASSUME NEW l \in LetterIds PROVE ~DlqWorker(l) BY DEF NothingYet, DlqWorker
<1>6. ASSUME NEW o \in Operators PROVE ~ReplayDlqJob(o)
  BY DEF NothingYet, ReplayDlqJob, ReplayGetJob, ReplayCheck, ReplayMark, ReplayRemove,
     ReplayRead, ReplayLog, ReplayEnqueue
<1>7. ASSUME NEW k \in Steps \X Attempts PROVE ~LeaseExpires(k)
  BY DEF NothingYet, LeaseExpires
<1> QED BY <1>1, <1>2, <1>3, <1>4, <1>5, <1>6, <1>7 DEF Next

\* What a step has to show once the trigger is made and nothing has crashed.
Kept ==
  /\ trigger'.pc # "idle" /\ status' # "none"
  /\ status' \in Terminal \/ Attended'
  /\ JobsOwned' /\ ClaimedOK'

Tended ==
  /\ TypeOK /\ trigger.pc # "idle" /\ status # "none"
  /\ status \in Terminal \/ Attended
  /\ JobsOwned /\ ClaimedOK

\* Steps that leave runs and jobs alone, and the status but for a finished one.
LEMMA QuietKept ==
  ASSUME Tended, UNCHANGED <<jobs, runs>>, trigger' = trigger,
         status' = status \/ (status \notin Terminal /\ status' \notin {"none", "pending"}),
         \A o \in Operators : replays[o].pc = "enqueue" => replays'[o].pc = "enqueue"
  PROVE  Kept
<1>1. JobsOwned' BY DEF Tended, JobsOwned
<1>2. ClaimedOK' BY DEF Tended, ClaimedOK
<1>3. Attended => Attended' BY DEF Attended, Carried
<1> QED BY <1>1, <1>2, <1>3 DEF Tended, Kept

\* A step of the run in slot i that leaves the jobs alone: it keeps its job, and comes
\* to its end only when the execution is finished.
LEMMA RunKept ==
  ASSUME Tended, NEW i \in Slots, jobs' = jobs, OnlyRun, runs[i].pc # "idle",
         \A n \in Slots : n # i => runs'[n] = runs[n],
         runs'[i].job = runs[i].job, runs'[i].pc # "idle",
         status' \notin {"none"}, status \in Terminal => status' \in Terminal,
         status' = status \/ status' # "pending",
         runs'[i].pc # "claim" => status' # "pending",
         runs'[i].pc = "return" => status' \in Terminal
  PROVE  Kept
<1>1. JobsOwned' BY DEF Tended, JobsOwned
<1>2. ClaimedOK' BY DEF Tended, ClaimedOK
<1>3. CASE runs'[i].pc = "return" BY <1>1, <1>2, <1>3 DEF Kept, Tended, OnlyRun
<1>4. CASE runs'[i].pc # "return"
  <2>1. \A j \in JobIds : Carried(j) => Carried(j)' BY <1>4 DEF Carried
  <2>2. Attended => Attended' BY <2>1 DEF Attended, OnlyRun
  <2> QED BY <1>1, <1>2, <2>2 DEF Kept, Tended, OnlyRun
<1> QED BY <1>3, <1>4

\* A step that adds a job attends to the execution by it.
LEMMA AddKept ==
  ASSUME Tended, NEW a, NEW d, NEW freed, AddJob(NewJob(a, d), freed),
         runs' = runs, status' = status, trigger'.pc # "idle"
  PROVE  Kept
<1>1. /\ \E j \in JobIds : jobs'[j].state = "queued"
      /\ \A j \in JobIds : jobs'[j].state = "active" => jobs'[j] = jobs[j]
  BY AddedIsCarried DEF Tended
<1>2. JobsOwned' BY <1>1 DEF Tended, JobsOwned
<1>3. Attended' BY <1>1 DEF Attended, Carried
<1> QED BY <1>2, <1>3 DEF Kept, Tended, ClaimedOK

LEMMA ExecutionKept ==
  ASSUME Tended, NEW i \in Slots, ExecuteExecution(i)
  PROVE  Kept
<1> DEFINE run == runs[i]
<1>0. /\ TypeOK /\ run \in RunRecords /\ runs \in [Slots -> RunRecords]
      /\ jobs \in [JobIds -> JobRecords]
      /\ \A n \in Slots : n # i => runs'[n] = runs[n]
  BY OtherRunsKept DEF Tended, TypeOK
<1>1. run.pc \notin {"idle", "claim"} => status \in {"running", "retrying", "completed", "failed"}
  BY <1>0 DEF Tended, ClaimedOK, TypeOK, Statuses
<1>2. ASSUME jobs' = jobs, OnlyRun, status' = status,
             run.pc \notin {"idle", "claim"},
             runs'[i].job = run.job, runs'[i].pc \notin {"idle", "return"}
      PROVE  Kept
  BY <1>0, <1>1, <1>2, RunKept DEF Tended
<1>3. ASSUME NEW pc, Goto(i, pc) PROVE runs'[i].job = run.job /\ runs'[i].pc = pc
  BY <1>0, <1>3 DEF Goto, RunRecords
<1>4. ASSUME NEW r \in RunRecords, runs'[i] = PassStep(r)
      PROVE  runs'[i].job = r.job /\ runs'[i].pc \in {"lookup", "complete"}
  BY <1>4 DEF PassStep, RunRecords
<1> DEFINE more == [run EXCEPT !.inputs = run.inputs \cup {run.step}]
<1>5. more \in RunRecords /\ more.job = run.job BY <1>0 DEF RunRecords
<1> HIDE DEF more
<1>6. CASE Claim(i)
  <2>1. jobs' = jobs /\ OnlyRun BY <1>6 DEF Claim, OnlyRun
  <2>2. CASE status \in Claimable
    <3>1. runs'[i].job = run.job /\ runs'[i].pc = "lookup" BY <1>3, <1>6, <2>2 DEF Claim
    <3>2. status' \in {"running", "retrying"} /\ run.pc = "claim" BY <1>6, <2>2 DEF Claim
    <3>3. status \notin Terminal BY <2>2 DEF Claimable, Terminal
    <3> QED BY <1>0, <2>1, <3>1, <3>2, <3>3, RunKept
  <2>3. CASE status \notin Claimable
    <3>1. runs'[i].job = run.job /\ runs'[i].pc = "return" BY <1>3, <1>6, <2>3 DEF Claim
    <3>2. status' = status /\ run.pc = "claim" BY <1>6, <2>3 DEF Claim
    <3>3. status \in Terminal
      BY <1>0, <2>3 DEF Claimable, Terminal, Tended, TypeOK, Statuses
    <3> QED BY <1>0, <2>1, <3>1, <3>2, <3>3, RunKept DEF Terminal
  <2> QED BY <2>2, <2>3
<1>7. CASE LookupSucceeded(i)
  <2>1. runs'[i].job = run.job /\ runs'[i].pc \in {"lookup", "complete", "active"}
    <3>1. CASE runs'[i] = [run EXCEPT !.pc = "active"] BY <1>0, <3>1 DEF RunRecords
    <3>2. CASE runs'[i] = PassStep(more) BY <1>4, <1>5, <3>2
    <3> QED BY <1>0, <1>7, <3>1, <3>2 DEF LookupSucceeded, more
  <2> QED BY <1>2, <1>7, <2>1 DEF LookupSucceeded, OnlyRun, database
<1>8. CASE CheckActive(i)
  <2>1. runs'[i].job = run.job /\ runs'[i].pc \in {"lookup", "complete", "advance"}
    <3>1. CASE Goto(i, "advance") BY <1>3, <3>1
    <3>2. CASE runs' = [runs EXCEPT ![i] = PassStep(run)] BY <1>0, <1>4, <3>2
    <3> QED BY <1>8, <3>1, <3>2 DEF CheckActive
  <2> QED BY <1>2, <1>8, <2>1 DEF CheckActive, OnlyRun, database
<1>9. CASE AdvanceCurrentStep(i)
  <2>1. runs'[i].job = run.job /\ runs'[i].pc = "create" BY <1>3, <1>9 DEF AdvanceCurrentStep
  <2> QED BY <1>2, <1>9, <2>1 DEF AdvanceCurrentStep, OnlyRun
<1>10. CASE CreateRow(i)
  <2>1. runs'[i].job = run.job /\ runs'[i].pc \in {"start", "throw"}
    BY <1>0, <1>10 DEF CreateRow, Goto, RunRecords
  <2> QED BY <1>2, <1>10, <2>1 DEF CreateRow, OnlyRun
<1>11. CASE StartRow(i)
  <2>1. runs'[i].job = run.job /\ runs'[i].pc \in {"execute", "lookup", "complete"}
    <3>1. CASE Goto(i, "execute") BY <1>3, <3>1
    <3>2. CASE runs' = [runs EXCEPT ![i] = PassStep(run)] BY <1>0, <1>4, <3>2
    <3> QED BY <1>11, <3>1, <3>2 DEF StartRow
  <2> QED BY <1>2, <1>11, <2>1 DEF StartRow, OnlyRun
<1>12. CASE ExecuteStep(i)
  <2>1. runs'[i].job = run.job /\ runs'[i].pc \in {"succeed", "fail"}
    BY <1>0, <1>12 DEF ExecuteStep, Goto, RunRecords
  <2> QED BY <1>2, <1>12, <2>1 DEF ExecuteStep, OnlyRun, database
<1>13. CASE RecordSuccess(i)
  <2>1. runs'[i] = PassStep(more) BY <1>0, <1>13 DEF RecordSuccess, more
  <2>2. runs'[i].job = run.job /\ runs'[i].pc \in {"lookup", "complete"} BY <1>4, <1>5, <2>1
  <2> QED BY <1>2, <1>13, <2>2 DEF RecordSuccess, OnlyRun
<1>14. CASE RecordFailure(i)
  <2>1. runs'[i].job = run.job /\ runs'[i].pc = "throw" BY <1>3, <1>14 DEF RecordFailure
  <2> QED BY <1>2, <1>14, <2>1 DEF RecordFailure, OnlyRun
<1>15. CASE Complete(i)
  <2>1. jobs' = jobs /\ OnlyRun /\ run.pc = "complete" BY <1>15 DEF Complete, OnlyRun
  <2>2. runs'[i].job = run.job /\ runs'[i].pc = "return" BY <1>3, <1>15 DEF Complete
  <2>3. status' \in Terminal /\ status' # "pending" /\ status' # "none"
    BY <1>1, <1>15 DEF Complete, Terminal
  <2> QED BY <1>0, <2>1, <2>2, <2>3, RunKept
<1>16. CASE Return(i) \/ Throw(i)
  <2>1. /\ runs' = [runs EXCEPT ![i] = IdleRun] /\ runs'[i].pc = "idle"
        /\ UNCHANGED <<status, trigger, replays>>
    BY <1>0, <1>16 DEF Return, Throw, IdleRun, database
  <2>2. ASSUME NEW j \in JobIds, jobs[j].state = "active", jobs[j].owner = i
        PROVE  HoldsLock(i) /\ j = run.job
    BY <2>2 DEF Tended, JobsOwned, HoldsLock
  <2>3. /\ ~HoldsLock(i) => jobs' = jobs
        /\ HoldsLock(i) => /\ \A j \in JobIds \ {run.job} : jobs'[j] = jobs[j]
                           /\ jobs'[run.job].state = IF run.pc = "return" THEN "free" ELSE "failed"
    <3>1. HoldsLock(i) => run.job \in JobIds BY DEF HoldsLock
    <3>2. CASE Return(i) BY <1>0, <3>1, <3>2 DEF Return, FreeJob
    <3>3. CASE Throw(i) BY <1>0, <3>1, <3>3 DEF Throw, JobRecords
    <3> QED BY <1>16, <3>2, <3>3
  <2>4. run.pc \in {"return", "throw"} BY <1>16 DEF Return, Throw
  <2>5. JobsOwned'
    <3> SUFFICES ASSUME NEW j \in JobIds, jobs'[j].state = "active"
                 PROVE  \E n \in Slots : /\ jobs'[j].owner = n /\ runs'[n].job = j
                                         /\ runs'[n].pc # "idle"
      BY DEF JobsOwned
    <3>1. jobs'[j] = jobs[j] BY <2>3
    <3>2. jobs[j].owner # i BY <2>2, <2>3, <2>4, <3>1
    <3> QED BY <1>0, <3>1, <3>2 DEF Tended, JobsOwned
  <2>6. ClaimedOK' BY <1>0, <2>1 DEF Tended, ClaimedOK
  <2>7. ASSUME NEW j \in JobIds, Carried(j) PROVE Carried(j)'
    <3>1. CASE jobs[j].state = "active" /\ jobs[j].owner = i
      <4>1. run.pc = "throw" BY <2>4, <2>7, <3>1 DEF Carried
      <4> QED BY <2>2, <2>3, <3>1, <4>1 DEF Carried
    <3>2. CASE jobs[j].state = "active" /\ jobs[j].owner # i
      <4>1. ~HoldsLock(i) \/ j # run.job BY <3>2 DEF HoldsLock
      <4>2. jobs'[j] = jobs[j] BY <2>3, <4>1
      <4> QED BY <1>0, <2>7, <3>2, <4>2 DEF Carried
    <3>3. CASE jobs[j].state # "active"
      <4>1. ~HoldsLock(i) \/ j # run.job BY <3>3 DEF HoldsLock
      <4>2. jobs'[j] = jobs[j] BY <2>3, <4>1
      <4> QED BY <2>7, <3>3, <4>2 DEF Carried
    <3> QED BY <3>1, <3>2, <3>3
  <2>8. Attended => Attended' BY <2>1, <2>7 DEF Attended
  <2> QED BY <2>1, <2>5, <2>6, <2>8 DEF Kept, Tended
<1> QED
  BY <1>6, <1>7, <1>8, <1>9, <1>10, <1>11, <1>12, <1>13, <1>14, <1>15, <1>16 DEF ExecuteExecution

LEMMA FetchKept ==
  ASSUME Tended, NEW i \in Slots, NEW j \in JobIds, Fetch(i, j)
  PROVE  Kept
<1>0. /\ runs \in [Slots -> RunRecords] /\ jobs \in [JobIds -> JobRecords]
      /\ jobs[j] \in JobRecords
      /\ \A n \in Slots : n # i => runs'[n] = runs[n]
  BY OtherRunsKept DEF Tended, TypeOK
<1>1. runs'[i].job = j /\ runs'[i].pc = "claim" BY <1>0 DEF Fetch, IdleRun
<1>2. /\ \A n \in JobIds \ {j} : jobs'[n] = jobs[n]
      /\ jobs'[j].state = "active" /\ jobs'[j].owner = i
  BY <1>0 DEF Fetch, JobRecords
<1>3. JobsOwned'
  <2> SUFFICES ASSUME NEW m \in JobIds, jobs'[m].state = "active"
               PROVE  \E n \in Slots : /\ jobs'[m].owner = n /\ runs'[n].job = m
                                       /\ runs'[n].pc # "idle"
    BY DEF JobsOwned
  <2>1. CASE m = j BY <1>1, <1>2, <2>1
  <2>2. CASE m # j BY <1>0, <1>2, <2>2 DEF Tended, JobsOwned, Fetch
  <2> QED BY <2>1, <2>2
<1>4. status' = status /\ trigger' = trigger BY DEF Fetch, database
<1>5. ClaimedOK' BY <1>0, <1>1, <1>4 DEF Tended, ClaimedOK
<1>6. Attended'
  <2>1. Carried(j)' BY <1>1, <1>2 DEF Carried
  <2> QED BY <2>1 DEF Attended
<1> QED BY <1>3, <1>4, <1>5, <1>6 DEF Kept, Tended

LEMMA HandlersKept ==
  ASSUME Tended, NEW j \in JobIds,
         \/ HandleRetry(j) \/ HandleBury(j) \/ markAsFailed(j)
         \/ \E w \in Workers : Stalled(j, w)
  PROVE  Kept
<1>0. jobs \in [JobIds -> JobRecords] /\ jobs[j] \in JobRecords /\ status \in Statuses
  BY DEF Tended, TypeOK
<1>1. CASE HandleRetry(j)
  <2>1. runs' = runs /\ status' = status /\ trigger' = trigger
    BY <1>1 DEF HandleRetry, processes, database
  <2> QED BY <1>1, <2>1, AddKept DEF HandleRetry, Tended
<1>2. ASSUME \A n \in JobIds \ {j} : jobs'[n] = jobs[n],
             jobs'[j].state \in {"queued", "failed", "buried"},
             UNCHANGED <<runs, status, trigger, replays>>
      PROVE  Kept
  <2>1. JobsOwned' BY <1>2 DEF Tended, JobsOwned
  <2>2. Attended' BY <1>2 DEF Attended, Carried
  <2> QED BY <1>2, <2>1, <2>2 DEF Kept, Tended, ClaimedOK
<1>3. CASE HandleBury(j)
  <2>1. /\ \A n \in JobIds \ {j} : jobs'[n] = jobs[n]
        /\ jobs'[j].state = "buried"
    BY <1>0, <1>3 DEF HandleBury, JobRecords
  <2> QED BY <1>2, <1>3, <2>1 DEF HandleBury, processes, database
<1>4. CASE \E w \in Workers : Stalled(j, w)
  <2>1. /\ \A n \in JobIds \ {j} : jobs'[n] = jobs[n]
        /\ jobs'[j].state \in {"queued", "failed"}
    <3>1. PICK w \in Workers : Stalled(j, w) BY <1>4
    <3>2. CASE jobs[j].stalls < MaxStalls
      <4>1. jobs' = [jobs EXCEPT ![j] = [@ EXCEPT !.state = "queued", !.owner = None,
                                                 !.stalls = jobs[j].stalls + 1]]
        BY <3>1, <3>2 DEF Stalled
      <4> QED BY <1>0, <4>1 DEF JobRecords
    <3>3. CASE ~(jobs[j].stalls < MaxStalls)
      <4>1. jobs' = [jobs EXCEPT ![j] = [@ EXCEPT !.state = "failed", !.owner = None,
                                                 !.handler = w, !.err = GenericError]]
        BY <3>1, <3>3 DEF Stalled
      <4> QED BY <1>0, <4>1 DEF JobRecords
    <3> QED BY <3>2, <3>3
  <2> QED BY <1>2, <1>4, <2>1 DEF Stalled, processes, database
<1>5. CASE markAsFailed(j)
  <2>1. /\ \A n \in JobIds \ {j} : jobs'[n] = jobs[n]
        /\ jobs'[j].state = "free"
    BY <1>0, <1>5 DEF markAsFailed, FreeJob
  <2>2. status' \in Terminal /\ UNCHANGED <<runs, trigger>>
    BY <1>5 DEF markAsFailed, Terminal, processes
  <2>3. JobsOwned' BY <2>1, <2>2 DEF Tended, JobsOwned
  <2>4. ClaimedOK' BY <2>2 DEF ClaimedOK, Terminal
  <2> QED BY <2>2, <2>3, <2>4 DEF Kept, Tended, Terminal
<1> QED BY <1>1, <1>3, <1>4, <1>5

LEMMA ScansKept ==
  ASSUME Tended, NEW w \in Workers, RecoverStaleExecutions(w)
  PROVE  Kept
<1>1. CASE ScanEnqueue(w)
  <2>1. runs' = runs /\ status' = status /\ trigger' = trigger
    BY <1>1 DEF ScanEnqueue, OnlyScan, database
  <2> QED BY <1>1, <2>1, AddKept DEF ScanEnqueue, enqueueWorkflowExecution, Tended
<1>2. CASE ~ScanEnqueue(w)
  <2>1. UNCHANGED <<jobs, runs, trigger, replays>>
    BY <1>2 DEF RecoverStaleExecutions, ScanFind, ScanMark, ScanFlag, ScanCheck, OnlyScan
  <2>2. status' = status \/ (status = "running" /\ status' = "retrying")
    BY <1>2 DEF RecoverStaleExecutions, ScanFind, ScanMark, ScanFlag, ScanCheck, database
  <2> QED BY <2>1, <2>2, QuietKept DEF Terminal
<1> QED BY <1>1, <1>2

LEMMA ReplaysKept ==
  ASSUME Tended, NEW o \in Operators, ReplayDlqJob(o)
  PROVE  Kept
<1>0. replays \in [Operators -> ReplayRecords] /\ replays[o] \in ReplayRecords
  BY DEF Tended, TypeOK
<1>1. CASE ReplayEnqueue(o)
  <2>1. runs' = runs /\ status' = status /\ trigger' = trigger
    BY <1>1 DEF ReplayEnqueue, OnlyReplay, database
  <2> QED BY <1>1, <2>1, AddKept DEF ReplayEnqueue, enqueueWorkflowExecution, Tended
<1>2. CASE ReplayLog(o)
  <2>1. UNCHANGED <<jobs, runs, trigger>> /\ status' = "running"
    BY <1>2 DEF ReplayLog, OnlyReplay
  <2>2. replays'[o].pc = "enqueue"
    BY <1>0, <1>2 DEF ReplayLog, ReplayTo, ReplayRecords
  <2>3. Attended' BY <2>2 DEF Attended
  <2> QED BY <2>1, <2>3 DEF Kept, Tended, JobsOwned, ClaimedOK
<1>3. CASE ~ReplayEnqueue(o) /\ ~ReplayLog(o)
  <2>1. UNCHANGED <<jobs, runs, trigger, status>>
    BY <1>3 DEF ReplayDlqJob, ReplayGetJob, ReplayCheck, ReplayMark, ReplayRemove, ReplayRead,
       OnlyReplay, database
  <2>2. replays[o].pc # "enqueue" /\ \A n \in Operators \ {o} : replays'[n] = replays[n]
    BY <1>0, <1>3 DEF ReplayDlqJob, ReplayGetJob, ReplayCheck, ReplayMark, ReplayRemove,
       ReplayRead, ReplayTo, ReplayEnds
  <2> QED BY <2>1, <2>2, QuietKept
<1> QED BY <1>1, <1>2, <1>3

LEMMA StepKept ==
  ASSUME Tended, [Next]_vars, ~\E w \in Workers : Crash(w)
  PROVE  Kept
<1>1. CASE TriggerEnqueue
  <2>1. runs' = runs /\ status' = status /\ trigger'.pc = "done"
    BY <1>1 DEF TriggerEnqueue, database, Tended, TypeOK
  <2> QED BY <1>1, <2>1, AddKept DEF TriggerEnqueue, enqueueWorkflowExecution
<1>2. CASE \E w \in Workers : TriggerCreate(w) BY <1>2 DEF TriggerCreate, Tended
<1>3. CASE Expire \/ (\E w \in Workers : Restart(w)) \/ UNCHANGED vars
  BY <1>3, QuietKept DEF Expire, Restart, processes, database, vars
<1>4. CASE \E i \in Slots : Heartbeat(i) BY <1>4, QuietKept DEF Heartbeat, OnlyRun
<1>5. CASE (\E l \in LetterIds : DlqWorker(l)) \/ \E k \in Steps \X Attempts : LeaseExpires(k)
  BY <1>5, QuietKept DEF DlqWorker, LeaseExpires, processes, database
<1>6. CASE \E i \in Slots : ExecuteExecution(i) BY <1>6, ExecutionKept
<1>7. CASE \E i \in Slots, j \in JobIds : Fetch(i, j) BY <1>7, FetchKept
<1>8. CASE \E j \in JobIds : \/ HandleRetry(j) \/ HandleBury(j) \/ markAsFailed(j)
                            \/ \E w \in Workers : Stalled(j, w)
  BY <1>8, HandlersKept
<1>9. CASE \E w \in Workers : RecoverStaleExecutions(w) BY <1>9, ScansKept
<1>10. CASE \E o \in Operators : ReplayDlqJob(o) BY <1>10, ReplaysKept
<1> QED BY <1>1, <1>2, <1>3, <1>4, <1>5, <1>6, <1>7, <1>8, <1>9, <1>10 DEF Next

LEMMA TendedInit == Init => TendedInv
  BY DEF Init, TendedInv, NothingYet, JobsOwned, ClaimedOK, FreeJob, IdleRun, IdleScan,
     IdleReplay, NoLetter, NoRow

LEMMA TendedStep == TypeOK /\ TendedInv /\ [Next]_vars => TendedInv'
<1> SUFFICES ASSUME TypeOK, TendedInv, [Next]_vars, crashes' = 0 PROVE TendedInv'
  BY DEF TendedInv
<1>1. ~\E w \in Workers : Crash(w) BY DEF Crash, TypeOK
<1>2. crashes = 0
  <2>1. crashes' = crashes
    BY <1>1
    DEF Next, vars, world, OnlyRun, OnlyScan, OnlyReplay, TriggerEnqueue, Expire, TriggerCreate,
       RecoverStaleExecutions, ScanFind, ScanMark, ScanFlag, ScanCheck, ScanEnqueue, Restart,
       ExecuteExecution, Claim, LookupSucceeded, CheckActive, AdvanceCurrentStep, CreateRow,
       StartRow, ExecuteStep, RecordSuccess, RecordFailure, Complete, Return, Throw, Heartbeat,
       Fetch, HandleRetry, HandleBury, markAsFailed, Stalled, DlqWorker, ReplayDlqJob,
       ReplayGetJob, ReplayCheck, ReplayMark, ReplayRemove, ReplayRead, ReplayLog,
       ReplayEnqueue, LeaseExpires
  <2> QED BY <2>1
<1>3. CASE trigger.pc # "idle"
  <2>1. Tended BY <1>2, <1>3 DEF TendedInv, Tended
  <2> QED BY <1>1, <2>1, StepKept DEF TendedInv, Kept
<1>4. CASE trigger.pc = "idle"
  <2>1. NothingYet BY <1>2, <1>4 DEF TendedInv
  <2>2. CASE \E w \in Workers : TriggerCreate(w)
    <3>1. trigger'.pc = "created" /\ status' = "pending" /\ UNCHANGED <<jobs, runs>>
      BY <2>2 DEF TriggerCreate
    <3> QED BY <2>1, <3>1 DEF TendedInv, NothingYet, Attended, JobsOwned, ClaimedOK
  <2>3. CASE (\E w \in Workers : Restart(w)) \/ UNCHANGED vars
    <3>1. UNCHANGED <<status, rows, jobs, letters, trigger, runs, scans, replays>>
      BY <2>3 DEF Restart, vars, database
    <3>2. NothingYet' BY <2>1, <3>1 DEF NothingYet
    <3>3. JobsOwned' /\ ClaimedOK' BY <3>2 DEF NothingYet, JobsOwned, ClaimedOK
    <3> QED BY <1>4, <3>1, <3>2, <3>3 DEF TendedInv
  <2> QED BY <1>1, <1>4, <2>1, <2>2, <2>3, OnlyTrigger
<1> QED BY <1>3, <1>4

\* Whatever retries, deferrals, stalls, scans, pauses and replays do, an execution is
\* never left unfinished with nobody to act on it, unless a process crashes.
THEOREM OrphanOnlyByCrashHolds == Spec => []OrphanOnlyByCrash
<1>1. TendedInv => OrphanOnlyByCrash
  <2> SUFFICES ASSUME TendedInv, Idle, crashes = 0 PROVE status \in Terminal
    BY DEF OrphanOnlyByCrash
  <2>1. trigger.pc = "done" BY DEF Idle
  <2>2. ~Attended BY DEF Idle, Attended, Carried
  <2> QED BY <2>1, <2>2 DEF TendedInv
<1> QED BY <1>1, TendedInit, TendedStep, TypeCorrect, PTL DEF Spec

-----------------------------------------------------------------------------
(* Exactly once, as long as nothing crashes or is paused. *)

\* What can make the execution go on: its job, its dead letter, or a replay that has
\* taken the letter and not yet added the job.
Live(j) == jobs[j].state \in {"queued", "active", "failed"}
Dead(l) == letters[l].state # "free"
Moving(o) == replays[o].pc \in {"read", "log", "enqueue"}

\* There is only one of them, and none before the trigger has added the first job.
OneBearer ==
  /\ \A j, k \in JobIds : Live(j) /\ Live(k) => j = k
  /\ \A l, m \in LetterIds : Dead(l) /\ Dead(m) => l = m
  /\ \A j \in JobIds, l \in LetterIds : ~(Live(j) /\ Dead(l))
  /\ \A o \in Operators : Moving(o) => /\ \A j \in JobIds : ~Live(j)
                                       /\ \A l \in LetterIds : ~Dead(l)
  /\ trigger.pc # "done" => /\ \A j \in JobIds : ~Live(j)
                            /\ \A l \in LetterIds : ~Dead(l)
                            /\ \A o \in Operators : ~Moving(o)

\* A replay about to remove a letter removes one that is there.
ReplaysOK ==
  \A o \in Operators : /\ replays[o].pc # "idle" => replays[o].letter \in LetterIds
                       /\ replays[o].pc = "remove" => Dead(replays[o].letter)

RunsHold == \A i \in Slots : runs[i].pc # "idle" => HoldsLock(i)
NoScans == \A w \in Workers : scans[w] = IdleScan
RunningBeaten ==
  \A k \in Steps \X Attempts : rows[k].status = "RUNNING" => \E i \in Slots : Beats(i, k)

\* A run at a step has found that it has not succeeded yet.
NotYetDone ==
  \A i \in Slots :
    runs[i].pc \in {"active", "advance", "create", "start", "execute", "succeed", "fail"} =>
      ~Succeeded(runs[i].step)

CalmOK ==
  /\ OneBearer /\ ReplaysOK /\ RunsHold /\ NoScans
  /\ HeldOK /\ RunningBeaten /\ OrderOK /\ NotYetDone

\* What a calm step starts from.
AtRest == Calm /\ CalmOK /\ OneRunInv /\ JobsOwned

LEMMA CalmBefore ==
  ASSUME TypeOK, [Next]_vars, Calm'
  PROVE  Calm /\ pauses' = pauses /\ ~\E w \in Workers : Crash(w)
<1>0. crashes \in Nat /\ pauses \in Nat BY EngineAssumption DEF TypeOK
<1>1. ~\E w \in Workers : Crash(w) BY <1>0 DEF Crash, Calm
<1>2. crashes' = crashes
  BY <1>1
  DEF Next, vars, world, OnlyRun, OnlyScan, OnlyReplay, TriggerEnqueue, Expire, TriggerCreate,
     RecoverStaleExecutions, ScanFind, ScanMark, ScanFlag, ScanCheck, ScanEnqueue, Restart,
     ExecuteExecution, Claim, LookupSucceeded, CheckActive, AdvanceCurrentStep, CreateRow,
     StartRow, ExecuteStep, RecordSuccess, RecordFailure, Complete, Return, Throw, Heartbeat,
     Fetch, HandleRetry, HandleBury, markAsFailed, Stalled, DlqWorker, ReplayDlqJob,
     ReplayGetJob, ReplayCheck, ReplayMark, ReplayRemove, ReplayRead, ReplayLog,
     ReplayEnqueue, LeaseExpires
<1>3. pauses' = pauses \/ pauses' = pauses + 1
  BY <1>1
  DEF Next, vars, world, OnlyRun, OnlyScan, OnlyReplay, TriggerEnqueue, Expire, TriggerCreate,
     RecoverStaleExecutions, ScanFind, ScanMark, ScanFlag, ScanCheck, ScanEnqueue, Restart,
     ExecuteExecution, Claim, LookupSucceeded, CheckActive, AdvanceCurrentStep, CreateRow,
     StartRow, ExecuteStep, RecordSuccess, RecordFailure, Complete, Return, Throw, Heartbeat,
     Fetch, HandleRetry, HandleBury, markAsFailed, Stalled, DlqWorker, ReplayDlqJob,
     ReplayGetJob, ReplayCheck, ReplayMark, ReplayRemove, ReplayRead, ReplayLog,
     ReplayEnqueue, LeaseExpires, Lapses
<1>4. pauses' = pauses BY <1>0, <1>3 DEF Calm
<1> QED BY <1>1, <1>2, <1>4 DEF Calm

\* At most one run is busy: there is one job, and one lock of it.
LEMMA OneRunner ==
  ASSUME OneBearer, RunsHold, NEW i \in Slots, NEW n \in Slots,
         runs[i].pc # "idle", runs[n].pc # "idle"
  PROVE  i = n
<1>1. HoldsLock(i) /\ HoldsLock(n) BY DEF RunsHold
<1>2. Live(runs[i].job) /\ Live(runs[n].job) BY <1>1 DEF HoldsLock, Live
<1>3. runs[i].job = runs[n].job BY <1>1, <1>2 DEF OneBearer, HoldsLock
<1> QED BY <1>1, <1>3 DEF HoldsLock

\* Nothing is stale, nothing stalls, and no lease lapses.
LEMMA NothingLapses ==
  ASSUME AtRest, pauses' = pauses
  PROVE  /\ StaleRows = {} /\ \A w \in Workers : ~RecoverStaleExecutions(w)
         /\ \A j \in JobIds, w \in Workers : ~Stalled(j, w)
         /\ \A k \in Steps \X Attempts : ~LeaseExpires(k)
<1>0. pauses' # pauses + 1 BY EngineAssumption DEF AtRest, OneRunInv, TypeOK
<1>1. ASSUME NEW k \in Steps \X Attempts, rows[k].status = "RUNNING"
      PROVE  rows[k].fresh /\ \E i \in Slots : Beats(i, k)
  <2>1. PICK i \in Slots : Beats(i, k) BY <1>1 DEF AtRest, CalmOK, RunningBeaten
  <2>2. rows[k].fresh BY <2>1 DEF AtRest, CalmOK, HeldOK, Beats
  <2> QED BY <2>1, <2>2
<1>2. StaleRows = {} BY <1>1 DEF StaleRows
<1>3. ASSUME NEW w \in Workers PROVE ~RecoverStaleExecutions(w)
  <2>1. scans[w].pc = "idle" BY DEF AtRest, CalmOK, NoScans, IdleScan
  <2> QED
    BY <1>2, <2>1
    DEF RecoverStaleExecutions, ScanFind, ScanMark, ScanFlag, ScanCheck, ScanEnqueue
<1>4. ASSUME NEW j \in JobIds, NEW w \in Workers PROVE ~Stalled(j, w)
  <2>1. jobs[j].state = "active" => \E i \in Slots : runs[i].job = j /\ HoldsLock(i)
    BY DEF AtRest, JobsOwned, HoldsLock
  <2> QED BY <1>0, <2>1 DEF Stalled, Lapses
<1>5. ASSUME NEW k \in Steps \X Attempts PROVE ~LeaseExpires(k)
  BY <1>0, <1>1 DEF LeaseExpires, Lapses
<1> QED BY <1>2, <1>3, <1>4, <1>5

\* What is left of the steps.
LEMMA CalmSteps ==
  ASSUME AtRest, [Next]_vars, Calm'
  PROVE  \/ TriggerEnqueue \/ (\E w \in Workers : TriggerCreate(w))
         \/ Expire \/ (\E w \in Workers : Restart(w)) \/ UNCHANGED vars
         \/ \E i \in Slots : ExecuteExecution(i) \/ Heartbeat(i) \/ \E j \in JobIds : Fetch(i, j)
         \/ \E j \in JobIds : HandleRetry(j) \/ HandleBury(j) \/ markAsFailed(j)
         \/ \E l \in LetterIds : DlqWorker(l)
         \/ \E o \in Operators : ReplayDlqJob(o)
<1>1. TypeOK BY DEF AtRest, OneRunInv
<1>2. pauses' = pauses /\ ~\E w \in Workers : Crash(w) BY <1>1, CalmBefore
<1> QED BY <1>2, NothingLapses DEF Next

Bearing == OneBearer /\ ReplaysOK /\ RunsHold

\* A job is added in place of what bore the execution before.
LEMMA AddBears ==
  ASSUME TypeOK, RunsHold, NEW a, NEW d, NEW freed, AddJob(NewJob(a, d), freed), runs' = runs,
         freed \in JobIds => jobs[freed].state = "failed",
         \A j \in JobIds : Live(j) => j = freed,
         \A l \in LetterIds : ~Dead(l)', \A o \in Operators : ~Moving(o)', trigger'.pc = "done"
  PROVE  OneBearer' /\ RunsHold'
<1>0. NewJob(a, d).state = "queued" /\ FreeJob.state = "free" BY DEF NewJob, FreeJob
<1>1. PICK n \in FreshJobIds(freed) :
        jobs' = [m \in JobIds |-> IF m = n THEN NewJob(a, d)
                                 ELSE IF m = freed THEN FreeJob ELSE jobs[m]]
  BY DEF AddJob
<1>2. n \in JobIds /\ \A i \in Slots : runs[i].job # n BY DEF FreshJobIds
<1>3. \A m \in JobIds \ {n} : ~Live(m)'
  <2> SUFFICES ASSUME NEW m \in JobIds \ {n} PROVE ~Live(m)' OBVIOUS
  <2>1. CASE m = freed BY <1>0, <1>1, <2>1 DEF Live
  <2>2. CASE m # freed
    <3>1. jobs'[m] = jobs[m] BY <1>1, <2>2
    <3> QED BY <2>2, <3>1 DEF Live
  <2> QED BY <2>1, <2>2
<1>4. OneBearer' BY <1>2, <1>3 DEF OneBearer
<1>5. ASSUME NEW i \in Slots, HoldsLock(i) PROVE HoldsLock(i)'
  <2>1. runs[i].job \in JobIds /\ runs[i].job # n /\ runs[i].job # freed
    BY <1>2, <1>5 DEF HoldsLock
  <2>2. jobs'[runs[i].job] = jobs[runs[i].job] BY <1>1, <2>1
  <2> QED BY <1>5, <2>2 DEF HoldsLock
<1> QED BY <1>4, <1>5 DEF RunsHold

\* Nothing that bears the execution has changed.
LEMMA SameBearer ==
  ASSUME OneBearer,
         \A j \in JobIds : Live(j)' => Live(j), \A l \in LetterIds : Dead(l)' => Dead(l),
         \A o \in Operators : Moving(o)' => Moving(o),
         trigger'.pc # "done" => trigger.pc # "done"
  PROVE  OneBearer'
BY DEF OneBearer

\* A step of a run that goes on keeps its job.
LEMMA RunGoesOn ==
  ASSUME TypeOK, NEW i \in Slots, ExecuteExecution(i), ~(Return(i) \/ Throw(i))
  PROVE  OnlyRun /\ runs[i].pc # "idle" /\ runs'[i].job = runs[i].job
<1> DEFINE run == runs[i]
<1>0. run \in RunRecords /\ runs \in [Slots -> RunRecords] BY DEF TypeOK
<1>1. OnlyRun /\ run.pc # "idle"
  BY DEF ExecuteExecution, Claim, LookupSucceeded, CheckActive, AdvanceCurrentStep, CreateRow,
     StartRow, ExecuteStep, RecordSuccess, RecordFailure, Complete
<1>2. ASSUME NEW pc, Goto(i, pc) PROVE runs'[i].job = run.job
  BY <1>0, <1>2 DEF Goto, RunRecords
<1>3. ASSUME NEW r \in RunRecords, runs'[i] = PassStep(r) PROVE runs'[i].job = r.job
  BY <1>3 DEF PassStep, RunRecords
<1> DEFINE more == [run EXCEPT !.inputs = run.inputs \cup {run.step}]
<1>4. more \in RunRecords /\ more.job = run.job BY <1>0 DEF RunRecords
<1> HIDE DEF more
<1>5. ASSUME runs'[i].job = run.job
      PROVE  OnlyRun /\ runs[i].pc # "idle" /\ runs'[i].job = runs[i].job
  BY <1>1, <1>5
<1>6. CASE Claim(i) BY <1>2, <1>5, <1>6 DEF Claim
<1>7. CASE LookupSucceeded(i)
  <2>1. runs'[i].job = run.job
    <3>1. CASE runs'[i] = [run EXCEPT !.pc = "active"] BY <1>0, <3>1 DEF RunRecords
    <3>2. CASE runs'[i] = PassStep(more) BY <1>3, <1>4, <3>2
    <3> QED BY <1>0, <1>7, <3>1, <3>2 DEF LookupSucceeded, more
  <2> QED BY <1>5, <2>1
<1>8. CASE CheckActive(i)
  <2>1. runs'[i].job = run.job
    <3>1. CASE Goto(i, "advance") BY <1>2, <3>1
    <3>2. CASE runs' = [runs EXCEPT ![i] = PassStep(run)] BY <1>0, <1>3, <3>2
    <3> QED BY <1>8, <3>1, <3>2 DEF CheckActive
  <2> QED BY <1>5, <2>1
<1>9. CASE AdvanceCurrentStep(i) BY <1>2, <1>5, <1>9 DEF AdvanceCurrentStep
<1>10. CASE CreateRow(i)
  <2>1. runs'[i].job = run.job BY <1>0, <1>10 DEF CreateRow, Goto, RunRecords
  <2> QED BY <1>5, <2>1
<1>11. CASE StartRow(i)
  <2>1. runs'[i].job = run.job
    <3>1. CASE Goto(i, "execute") BY <1>2, <3>1
    <3>2. CASE runs' = [runs EXCEPT ![i] = PassStep(run)] BY <1>0, <1>3, <3>2
    <3> QED BY <1>11, <3>1, <3>2 DEF StartRow
  <2> QED BY <1>5, <2>1
<1>12. CASE ExecuteStep(i)
  <2>1. runs'[i].job = run.job BY <1>0, <1>12 DEF ExecuteStep, Goto, RunRecords
  <2> QED BY <1>5, <2>1
<1>13. CASE RecordSuccess(i)
  <2>1. runs'[i] = PassStep(more) BY <1>0, <1>13 DEF RecordSuccess, more
  <2>2. runs'[i].job = run.job BY <1>3, <1>4, <2>1
  <2> QED BY <1>5, <2>2
<1>14. CASE RecordFailure(i) BY <1>2, <1>5, <1>14 DEF RecordFailure
<1>15. CASE Complete(i) BY <1>2, <1>5, <1>15 DEF Complete
<1> QED
  BY <1>6, <1>7, <1>8, <1>9, <1>10, <1>11, <1>12, <1>13, <1>14, <1>15 DEF ExecuteExecution

\* Nothing moves but what does not bear the execution.
LEMMA QuietBearing ==
  ASSUME Bearing, UNCHANGED <<jobs, letters, runs, replays>>,
         trigger'.pc # "done" => trigger.pc # "done"
  PROVE  Bearing'
<1>1. OneBearer' BY SameBearer DEF Bearing, Live, Dead, Moving
<1> QED BY <1>1 DEF Bearing, ReplaysOK, RunsHold, HoldsLock, Dead

LEMMA RunsBearing ==
  ASSUME TypeOK, Bearing, NEW i \in Slots, ExecuteExecution(i)
  PROVE  Bearing'
<1>0. /\ runs \in [Slots -> RunRecords] /\ jobs \in [JobIds -> JobRecords]
      /\ \A n \in Slots : n # i => runs'[n] = runs[n]
  BY OtherRunsKept DEF TypeOK
<1>1. CASE ~(Return(i) \/ Throw(i))
  <2>1. OnlyRun /\ runs[i].pc # "idle" /\ runs'[i].job = runs[i].job BY <1>1, RunGoesOn
  <2>2. UNCHANGED <<jobs, letters, trigger, replays>> BY <2>1 DEF OnlyRun
  <2>3. OneBearer' BY <2>2, SameBearer DEF Bearing, Live, Dead, Moving
  <2>4. ReplaysOK' BY <2>2 DEF Bearing, ReplaysOK, Dead
  <2>5. \A n \in Slots : runs'[n].job = runs[n].job /\ (runs'[n].pc # "idle" => runs[n].pc # "idle")
    BY <1>0, <2>1
  <2>6. RunsHold' BY <2>2, <2>5 DEF Bearing, RunsHold, HoldsLock
  <2> QED BY <2>3, <2>4, <2>6 DEF Bearing
<1>2. CASE Return(i) \/ Throw(i)
  <2>1. runs[i].pc # "idle" /\ runs'[i].pc = "idle" /\ UNCHANGED <<letters, trigger, replays>>
    BY <1>0, <1>2 DEF Return, Throw, IdleRun
  <2>2. HoldsLock(i) BY <2>1 DEF Bearing, RunsHold
  <2>3. Live(runs[i].job) BY <2>2 DEF HoldsLock, Live
  <2>4. \A j \in JobIds : j # runs[i].job => jobs'[j] = jobs[j]
    BY <1>0, <1>2, <2>2 DEF HoldsLock, Return, Throw
  <2>5. \A j \in JobIds : Live(j)' => Live(j) BY <2>3, <2>4 DEF Live
  <2>6. OneBearer' BY <2>1, <2>5, SameBearer DEF Bearing, Dead, Moving
  <2>7. ReplaysOK' BY <2>1 DEF Bearing, ReplaysOK, Dead
  <2>8. \A n \in Slots : runs'[n].pc = "idle" BY <1>0, <2>1, OneRunner DEF Bearing
  <2> QED BY <2>6, <2>7, <2>8 DEF Bearing, RunsHold
<1> QED BY <1>1, <1>2

LEMMA FetchBearing ==
  ASSUME TypeOK, Bearing, NEW i \in Slots, NEW j \in JobIds, Fetch(i, j)
  PROVE  Bearing'
<1>0. /\ runs \in [Slots -> RunRecords] /\ jobs \in [JobIds -> JobRecords]
      /\ \A n \in Slots : n # i => runs'[n] = runs[n]
  BY OtherRunsKept DEF TypeOK
<1>1. UNCHANGED <<letters, trigger, replays>> /\ jobs[j].state = "queued" BY DEF Fetch
<1>2. /\ \A n \in JobIds : n # j => jobs'[n] = jobs[n]
      /\ jobs'[j].state = "active" /\ jobs'[j].owner = i
  BY <1>0 DEF Fetch, JobRecords
<1>3. runs'[i].job = j BY <1>0 DEF Fetch, IdleRun
<1>4. \A n \in JobIds : Live(n)' => Live(n) BY <1>1, <1>2 DEF Live
<1>5. OneBearer' BY <1>1, <1>4, SameBearer DEF Bearing, Dead, Moving
<1>6. ReplaysOK' BY <1>1 DEF Bearing, ReplaysOK, Dead
<1>7. ASSUME NEW n \in Slots, runs'[n].pc # "idle" PROVE HoldsLock(n)'
  <2>1. CASE n = i BY <1>2, <1>3, <2>1 DEF HoldsLock
  <2>2. CASE n # i
    <3>1. HoldsLock(n) /\ runs'[n] = runs[n] BY <1>0, <1>7, <2>2 DEF Bearing, RunsHold
    <3>2. runs[n].job # j BY <1>1, <3>1 DEF HoldsLock
    <3> QED BY <1>2, <3>1, <3>2 DEF HoldsLock
  <2> QED BY <2>1, <2>2
<1> QED BY <1>5, <1>6, <1>7 DEF Bearing, RunsHold

LEMMA HandlersBearing ==
  ASSUME TypeOK, Bearing, NEW j \in JobIds, HandleRetry(j) \/ HandleBury(j) \/ markAsFailed(j)
  PROVE  Bearing'
<1>0. jobs \in [JobIds -> JobRecords] /\ letters \in [LetterIds -> LetterRecords]
  BY DEF TypeOK
<1>1. UNCHANGED <<trigger, runs, replays>>
  BY DEF HandleRetry, HandleBury, markAsFailed, processes
<1>2. CASE HandleRetry(j)
  <2>1. Live(j) /\ jobs[j].state = "failed" BY <1>2 DEF HandleRetry, Live
  <2>2. /\ \A n \in JobIds : Live(n) => n = j
        /\ \A l \in LetterIds : ~Dead(l)
        /\ \A o \in Operators : ~Moving(o)
        /\ trigger.pc = "done"
    BY <2>1 DEF Bearing, OneBearer
  <2>3. letters' = letters BY <1>2 DEF HandleRetry
  <2>4. PICK d \in Decisions(j) : AddJob(NewJob(d.attempt, d.deferrals), j)
    BY <1>2 DEF HandleRetry
  <2>5. \A l \in LetterIds : ~Dead(l)' BY <2>2, <2>3 DEF Dead
  <2>6. \A o \in Operators : ~Moving(o)' BY <1>1, <2>2 DEF Moving
  <2>7. OneBearer' /\ RunsHold' BY <1>1, <2>1, <2>2, <2>4, <2>5, <2>6, AddBears DEF Bearing
  <2>8. ReplaysOK' BY <1>1, <2>3 DEF Bearing, ReplaysOK, Dead
  <2> QED BY <2>7, <2>8 DEF Bearing
<1>3. ASSUME jobs[j].state # "active", \A n \in JobIds : n # j => jobs'[n] = jobs[n]
      PROVE  RunsHold'
  BY <1>1, <1>3 DEF Bearing, RunsHold, HoldsLock
<1>4. CASE HandleBury(j)
  <2>1. Live(j) /\ jobs[j].state = "failed" BY <1>4 DEF HandleBury, Live
  <2>2. /\ \A n \in JobIds : Live(n) => n = j
        /\ \A l \in LetterIds : ~Dead(l)
        /\ \A o \in Operators : ~Moving(o)
        /\ trigger.pc = "done"
    BY <2>1 DEF Bearing, OneBearer
  <2>3. /\ \A n \in JobIds : n # j => jobs'[n] = jobs[n]
        /\ jobs'[j].state = "buried"
    BY <1>0, <1>4 DEF HandleBury, JobRecords
  <2>4. PICK l \in LetterIds : \A m \in LetterIds : m # l => letters'[m] = letters[m]
    BY <1>0, <1>4 DEF HandleBury, FreshLetterIds
  <2>5. /\ \A n \in JobIds : ~Live(n)'
        /\ \A m \in LetterIds : Dead(m)' => m = l
        /\ \A o \in Operators : ~Moving(o)'
    BY <1>1, <2>2, <2>3, <2>4 DEF Live, Dead, Moving
  <2>6. OneBearer' BY <1>1, <2>2, <2>5 DEF OneBearer
  <2>7. ReplaysOK' BY <1>1, <2>2 DEF Bearing, ReplaysOK
  <2> QED BY <1>3, <2>1, <2>3, <2>6, <2>7 DEF Bearing
<1>5. CASE markAsFailed(j)
  <2>1. jobs[j].state = "buried" /\ letters' = letters BY <1>5 DEF markAsFailed
  <2>2. /\ \A n \in JobIds : n # j => jobs'[n] = jobs[n]
        /\ jobs'[j].state = "free"
    BY <1>0, <1>5 DEF markAsFailed, FreeJob
  <2>3. \A n \in JobIds : Live(n)' => Live(n) BY <2>2 DEF Live
  <2>4. OneBearer' BY <1>1, <2>1, <2>3, SameBearer DEF Bearing, Dead, Moving
  <2>5. ReplaysOK' BY <1>1, <2>1 DEF Bearing, ReplaysOK, Dead
  <2> QED BY <1>3, <2>1, <2>2, <2>4, <2>5 DEF Bearing
<1> QED BY <1>2, <1>4, <1>5

LEMMA ReplaysBearing ==
  ASSUME TypeOK, Bearing, NEW o \in Operators, \A p \in Operators : p = o, ReplayDlqJob(o)
  PROVE  Bearing'
<1> DEFINE r == replays[o]
<1>0. /\ replays \in [Operators -> ReplayRecords] /\ r \in ReplayRecords
      /\ letters \in [LetterIds -> LetterRecords]
      /\ r.pc # "idle" => r.letter \in LetterIds
      /\ r.pc = "remove" => Dead(r.letter)
  BY DEF TypeOK, Bearing, ReplaysOK
<1>1. runs' = runs /\ trigger' = trigger
  BY DEF ReplayDlqJob, ReplayGetJob, ReplayCheck, ReplayMark, ReplayRemove, ReplayRead,
     ReplayLog, ReplayEnqueue, OnlyReplay
<1>2. ASSUME NEW pc, ReplayTo(o, pc)
      PROVE  replays'[o].pc = pc /\ replays'[o].letter = r.letter
  BY <1>0, <1>2 DEF ReplayTo, ReplayRecords
<1>3. ASSUME ReplayEnds(o) PROVE replays'[o].pc = "idle"
  BY <1>0, <1>3 DEF ReplayEnds, IdleReplay
<1>4. ASSUME jobs' = jobs, \A l \in LetterIds : Dead(l)' <=> Dead(l),
             Moving(o)' => Moving(o),
             replays'[o].pc # "idle" => replays'[o].letter \in LetterIds,
             replays'[o].pc = "remove" => Dead(replays'[o].letter)
      PROVE  Bearing'
  <2>1. OneBearer' BY <1>1, <1>4, SameBearer DEF Bearing, Live
  <2>2. RunsHold' BY <1>1, <1>4 DEF Bearing, RunsHold, HoldsLock
  <2>3. ReplaysOK' BY <1>4 DEF ReplaysOK, Dead
  <2> QED BY <2>1, <2>2, <2>3 DEF Bearing
<1>5. ASSUME letters' = letters PROVE \A l \in LetterIds : Dead(l)' <=> Dead(l)
  BY <1>5 DEF Dead
<1>6. ASSUME NEW l \in LetterIds, NEW w \in Workers, ReplayGetJob(o, l, w) PROVE Bearing'
  <2>1. replays'[o].pc = "check" /\ replays'[o].letter = l
    BY <1>0, <1>6 DEF ReplayGetJob, IdleReplay
  <2>2. jobs' = jobs /\ letters' = letters BY <1>6 DEF ReplayGetJob
  <2> QED BY <1>4, <1>5, <2>1, <2>2 DEF Moving
<1>7. CASE ReplayCheck(o)
  <2>1. jobs' = jobs /\ letters' = letters /\ r.pc = "check" BY <1>7 DEF ReplayCheck
  <2>2. ReplayEnds(o) \/ ReplayTo(o, "mark") BY <1>7 DEF ReplayCheck
  <2>3. /\ replays'[o].pc \in {"idle", "mark"}
        /\ replays'[o].pc # "idle" => replays'[o].letter = r.letter
    BY <1>2, <1>3, <2>2
  <2> QED BY <1>0, <1>4, <1>5, <2>1, <2>3 DEF Moving
<1>8. CASE ReplayMark(o)
  <2>1. jobs' = jobs /\ r.pc = "mark" BY <1>8 DEF ReplayMark
  <2>2. CASE letters[r.letter].state = "free"
    <3>1. replays'[o].pc = "idle" /\ letters' = letters BY <1>3, <1>8, <2>2 DEF ReplayMark
    <3> QED BY <1>4, <1>5, <2>1, <3>1 DEF Moving
  <2>3. CASE letters[r.letter].state # "free"
    <3>1. replays'[o].pc = "remove" /\ replays'[o].letter = r.letter
      BY <1>2, <1>8, <2>3 DEF ReplayMark
    <3>2. letters' = [letters EXCEPT ![r.letter].replayed = TRUE] BY <1>8, <2>3 DEF ReplayMark
    <3>3. \A l \in LetterIds : Dead(l)' <=> Dead(l)
      BY <1>0, <3>2 DEF Dead, LetterRecords
    <3> QED BY <1>0, <1>4, <2>1, <2>3, <3>1, <3>3 DEF Moving, Dead
  <2> QED BY <2>2, <2>3
<1>9. CASE ReplayRemove(o)
  <2>1. jobs' = jobs /\ r.pc = "remove" /\ r.letter \in LetterIds /\ Dead(r.letter)
    BY <1>0, <1>9 DEF ReplayRemove
  <2>2. CASE letters[r.letter].state = "locked"
    <3>1. replays'[o].pc = "idle" /\ letters' = letters BY <1>3, <1>9, <2>2 DEF ReplayRemove
    <3> QED BY <1>4, <1>5, <2>1, <3>1 DEF Moving
  <2>3. CASE letters[r.letter].state # "locked"
    <3>1. replays'[o].pc = "read" /\ replays'[o].letter = r.letter
      BY <1>2, <1>9, <2>3 DEF ReplayRemove
    <3>2. letters' = [letters EXCEPT ![r.letter] = NoLetter] BY <1>9, <2>3 DEF ReplayRemove
    <3>3. \A l \in LetterIds : ~Dead(l)'
      <4>1. \A l \in LetterIds : Dead(l) => l = r.letter BY <2>1 DEF Bearing, OneBearer
      <4> QED BY <1>0, <3>2, <4>1 DEF Dead, NoLetter
    <3>4. (\A j \in JobIds : ~Live(j)) /\ trigger.pc = "done" BY <2>1 DEF Bearing, OneBearer
    <3>5. \A j \in JobIds : ~Live(j)' BY <2>1, <3>4 DEF Live
    <3>6. OneBearer' BY <1>1, <3>3, <3>4, <3>5 DEF OneBearer
    <3>7. ReplaysOK' BY <2>1, <3>1 DEF ReplaysOK
    <3>8. RunsHold' BY <1>1, <2>1 DEF Bearing, RunsHold, HoldsLock
    <3> QED BY <3>6, <3>7, <3>8 DEF Bearing
  <2> QED BY <2>2, <2>3
<1>10. CASE ReplayRead(o) \/ ReplayLog(o)
  <2>1. jobs' = jobs /\ letters' = letters /\ r.pc \in {"read", "log"}
    BY <1>10 DEF ReplayRead, ReplayLog
  <2>2. replays'[o].pc \in {"log", "enqueue"} /\ replays'[o].letter = r.letter
    <3>1. CASE ReplayRead(o) BY <1>0, <3>1 DEF ReplayRead, ReplayRecords
    <3>2. CASE ReplayLog(o) BY <1>2, <3>2 DEF ReplayLog
    <3> QED BY <1>10, <3>1, <3>2
  <2> QED BY <1>0, <1>4, <1>5, <2>1, <2>2 DEF Moving
<1>11. CASE ReplayEnqueue(o)
  <2>1. Moving(o) /\ letters' = letters BY <1>11 DEF ReplayEnqueue, Moving
  <2>2. /\ \A n \in JobIds : ~Live(n)
        /\ \A l \in LetterIds : ~Dead(l)
        /\ trigger.pc = "done"
    BY <2>1 DEF Bearing, OneBearer
  <2>3. AddJob(NewJob(1, 0), NoJob) BY <1>11 DEF ReplayEnqueue, enqueueWorkflowExecution
  <2>4. NoJob \notin JobIds BY EngineAssumption DEF NoJob
  <2>5. \A l \in LetterIds : ~Dead(l)' BY <2>1, <2>2 DEF Dead
  <2>6. replays'[o].pc = "idle" BY <1>3, <1>11 DEF ReplayEnqueue
  <2>7. \A p \in Operators : ~Moving(p)' BY <2>6 DEF Moving
  <2>8. OneBearer' /\ RunsHold' BY <1>1, <2>2, <2>3, <2>4, <2>5, <2>7, AddBears DEF Bearing
  <2>9. ReplaysOK' BY <2>6 DEF ReplaysOK
  <2> QED BY <2>8, <2>9 DEF Bearing
<1> QED BY <1>6, <1>7, <1>8, <1>9, <1>10, <1>11 DEF ReplayDlqJob

\* A calm step leaves one bearer, and the busy run its lock.
LEMMA BearerStep ==
  ASSUME AtRest, [Next]_vars, Calm'
  PROVE  Bearing'
<1>0. TypeOK /\ Bearing /\ \A o, p \in Operators : o = p
  BY DEF AtRest, OneRunInv, CalmOK, Bearing, Calm
<1>1. CASE TriggerEnqueue
  <2>1. /\ UNCHANGED <<letters, runs, replays>> /\ trigger.pc = "created"
        /\ trigger'.pc = "done" /\ AddJob(NewJob(1, 0), NoJob)
    BY <1>0, <1>1 DEF TriggerEnqueue, enqueueWorkflowExecution, TypeOK
  <2>2. /\ \A n \in JobIds : ~Live(n)
        /\ \A l \in LetterIds : ~Dead(l)
        /\ \A o \in Operators : ~Moving(o)
    BY <1>0, <2>1 DEF Bearing, OneBearer
  <2>3. NoJob \notin JobIds BY EngineAssumption DEF NoJob
  <2>4. /\ \A l \in LetterIds : ~Dead(l)'
        /\ \A o \in Operators : ~Moving(o)'
    BY <2>1, <2>2 DEF Dead, Moving
  <2>5. OneBearer' /\ RunsHold' BY <1>0, <2>1, <2>2, <2>3, <2>4, AddBears DEF Bearing
  <2> QED BY <1>0, <2>1, <2>5 DEF Bearing, ReplaysOK, Dead
<1>2. CASE \E w \in Workers : TriggerCreate(w)
  BY <1>0, <1>2, QuietBearing DEF TriggerCreate
<1>3. CASE Expire \/ (\E w \in Workers : Restart(w)) \/ UNCHANGED vars
  BY <1>0, <1>3, QuietBearing DEF Expire, Restart, processes, vars
<1>4. ASSUME NEW i \in Slots, Heartbeat(i) PROVE Bearing'
  BY <1>0, <1>4, QuietBearing DEF Heartbeat, OnlyRun
<1>5. ASSUME NEW i \in Slots, ExecuteExecution(i) PROVE Bearing' BY <1>0, <1>5, RunsBearing
<1>6. ASSUME NEW i \in Slots, NEW j \in JobIds, Fetch(i, j) PROVE Bearing'
  BY <1>0, <1>6, FetchBearing
<1>7. ASSUME NEW j \in JobIds, HandleRetry(j) \/ HandleBury(j) \/ markAsFailed(j) PROVE Bearing'
  BY <1>0, <1>7, HandlersBearing
<1>8. ASSUME NEW l \in LetterIds, DlqWorker(l) PROVE Bearing'
  <2>1. UNCHANGED <<jobs, trigger, runs, replays>> BY <1>8 DEF DlqWorker, processes
  <2>2. \A m \in LetterIds : Dead(m)' <=> Dead(m)
    BY <1>0, <1>8 DEF DlqWorker, Dead, TypeOK, LetterRecords
  <2>3. OneBearer' BY <1>0, <2>1, <2>2, SameBearer DEF Bearing, Live, Moving
  <2>4. ReplaysOK' BY <1>0, <2>1, <2>2 DEF Bearing, ReplaysOK, Dead
  <2> QED BY <1>0, <2>1, <2>3, <2>4 DEF Bearing, RunsHold, HoldsLock
<1>9. ASSUME NEW o \in Operators, ReplayDlqJob(o) PROVE Bearing'
  BY <1>0, <1>9, ReplaysBearing
<1> QED BY <1>1, <1>2, <1>3, <1>4, <1>5, <1>6, <1>7, <1>8, <1>9, CalmSteps

\* Every row that runs is that of the busy run, so no other process is found at a step.
LEMMA CalmNoForeign ==
  ASSUME AtRest
  PROVE  NoForeign
<1> SUFFICES ASSUME NEW i \in Slots, runs[i].pc = "active", NEW a \in ActiveAttempts(runs[i].step)
             PROVE  FALSE
  BY DEF NoForeign
<1>0. OneBearer /\ RunsHold /\ RunningBeaten BY DEF AtRest, CalmOK
<1>1. <<runs[i].step, a>> \in Steps \X Attempts /\ rows[<<runs[i].step, a>>].status = "RUNNING"
  BY DEF ActiveAttempts, AtRest, OneRunInv, TypeOK, RunRecords
<1>2. PICK n \in Slots : Beats(n, <<runs[i].step, a>>) BY <1>0, <1>1 DEF RunningBeaten
<1>3. n = i BY <1>0, <1>2, OneRunner DEF Beats
<1> QED BY <1>2, <1>3 DEF Beats

\* The rest of what a calm step keeps about the rows.
RowsSettled == RunningBeaten /\ NotYetDone

\* A step that leaves the runs, and every row's status, alone.
LEMMA SettledQuietly ==
  ASSUME TypeOK, RowsSettled, runs' = runs,
         \A k \in Steps \X Attempts : rows'[k].status = rows[k].status
  PROVE  RowsSettled'
<1>1. RunningBeaten'
  <2>1. \A i \in Slots, k \in Steps \X Attempts : Beats(i, k)' <=> Beats(i, k) BY DEF Beats, RowOf
  <2> QED BY <2>1 DEF RowsSettled, RunningBeaten
<1>2. NotYetDone'
  <2>1. \A i \in Slots : runs[i].step \in Steps BY DEF TypeOK, RunRecords
  <2> QED BY <2>1 DEF RowsSettled, NotYetDone, Succeeded
<1> QED BY <1>1, <1>2 DEF RowsSettled

\* Where a run at a step is past its lookup.
AtStep == {"active", "advance", "create", "start", "execute", "succeed", "fail"}

LEMMA RunsSettled ==
  ASSUME AtRest, NEW i \in Slots, ExecuteExecution(i)
  PROVE  RowsSettled'
<1> DEFINE run == runs[i]
           k == RowOf(run)
           Unbeaten == \E m \in Steps \X Attempts : rows'[m].status = "RUNNING" /\ ~Beats(i, m)'
           Redone == runs'[i].pc \in AtStep /\ Succeeded(runs[i].step)'
<1>0. /\ TypeOK /\ OneBearer /\ RunsHold /\ RunningBeaten /\ HeldOK /\ NotYetDone
      /\ runs \in [Slots -> RunRecords] /\ rows \in [Steps \X Attempts -> RowRecords]
      /\ run \in RunRecords /\ run.step \in Steps /\ k \in Steps \X Attempts
      /\ rows[k] \in RowRecords
  BY DEF AtRest, CalmOK, OneRunInv, TypeOK, RunRecords, RowOf
<1>1. run.pc # "idle"
  BY DEF ExecuteExecution, Claim, LookupSucceeded, CheckActive, AdvanceCurrentStep, CreateRow,
     StartRow, ExecuteStep, RecordSuccess, RecordFailure, Complete, Return, Throw
<1>2. \A n \in Slots : n # i => runs'[n].pc = "idle" /\ runs[n].pc = "idle"
  BY <1>0, <1>1, OneRunner, OtherRunsKept
<1>3. ASSUME ~Unbeaten, ~Redone PROVE RowsSettled'
  <2>1. RunningBeaten' BY <1>3 DEF RunningBeaten
  <2>2. ASSUME NEW n \in Slots, runs'[n].pc \in AtStep PROVE ~Succeeded(runs[n].step)'
    <3>1. n = i BY <1>2, <2>2 DEF AtStep
    <3> QED BY <1>3, <2>2, <3>1
  <2>3. NotYetDone' BY <2>2 DEF NotYetDone, AtStep
  <2> QED BY <2>1, <2>3 DEF RowsSettled
<1>4. \A m \in Steps \X Attempts : rows[m].status = "RUNNING" => Beats(i, m)
  BY <1>0, <1>2 DEF RunningBeaten, Beats
<1>5. run.pc \in AtStep => ~Succeeded(run.step) BY <1>0 DEF NotYetDone, AtStep
<1>6. ASSUME rows' = rows, run.pc \notin {"execute", "succeed", "fail"} PROVE ~Unbeaten
  BY <1>4, <1>6 DEF Beats
<1>7. ASSUME runs'[i].pc \notin AtStep PROVE ~Redone BY <1>7
<1>8. ASSUME run.pc \in AtStep, runs'[i].step = run.step,
             \A m \in Steps \X Attempts :
               rows'[m].status = "SUCCEEDED" => rows[m].status = "SUCCEEDED"
      PROVE  ~Redone
  BY <1>0, <1>5, <1>8 DEF Succeeded
<1>9. ASSUME NEW pc, Goto(i, pc)
      PROVE  runs'[i].pc = pc /\ runs'[i].step = run.step /\ RowOf(runs'[i]) = k
  BY <1>0, <1>9 DEF Goto, RunRecords, RowOf
<1>10. ASSUME NEW r \in RunRecords, runs'[i] = PassStep(r) PROVE runs'[i].pc \notin AtStep
  <2>1. runs'[i].pc \in {"lookup", "complete"} BY <1>10 DEF PassStep, RunRecords
  <2> QED BY <2>1 DEF AtStep
<1> DEFINE more == [run EXCEPT !.inputs = run.inputs \cup {run.step}]
<1>11. more \in RunRecords BY <1>0 DEF RunRecords
<1> HIDE DEF Unbeaten, Redone, more
<1>12. CASE Claim(i)
  <2>1. rows' = rows /\ run.pc = "claim" /\ (Goto(i, "lookup") \/ Goto(i, "return"))
    BY <1>12 DEF Claim
  <2>2. runs'[i].pc \notin AtStep BY <1>9, <2>1 DEF AtStep
  <2> QED BY <1>3, <1>6, <1>7, <2>1, <2>2
<1>13. CASE LookupSucceeded(i)
  <2>1. rows' = rows /\ run.pc = "lookup" BY <1>13 DEF LookupSucceeded, database
  <2>2. ~Unbeaten BY <1>6, <2>1
  <2>3. CASE Succeeded(run.step)
    <3>1. runs'[i] = PassStep(more) BY <1>0, <1>13, <2>3 DEF LookupSucceeded, Succeeded, more
    <3> QED BY <1>3, <1>7, <1>10, <1>11, <2>2, <3>1
  <2>4. CASE ~Succeeded(run.step)
    <3>1. runs'[i] = [run EXCEPT !.pc = "active"]
      BY <1>0, <1>13, <2>4 DEF LookupSucceeded, Succeeded
    <3>2. runs'[i].step = run.step BY <1>0, <3>1 DEF RunRecords
    <3>3. ~Redone BY <2>1, <2>4, <3>2 DEF Redone, Succeeded
    <3> QED BY <1>3, <2>2, <3>3
  <2> QED BY <2>3, <2>4
<1>14. CASE CheckActive(i)
  <2>1. rows' = rows /\ run.pc = "active" BY <1>14 DEF CheckActive, database
  <2>2. ~Unbeaten BY <1>6, <2>1
  <2>3. CASE Goto(i, "advance")
    <3>1. runs'[i].step = run.step BY <1>9, <2>3
    <3> QED BY <1>3, <1>8, <2>1, <2>2, <3>1 DEF AtStep
  <2>4. CASE runs' = [runs EXCEPT ![i] = PassStep(run)]
    BY <1>0, <1>3, <1>7, <1>10, <2>2, <2>4
  <2> QED BY <1>14, <2>3, <2>4 DEF CheckActive
<1>15. CASE AdvanceCurrentStep(i)
  <2>1. rows' = rows /\ run.pc = "advance" /\ Goto(i, "create") BY <1>15 DEF AdvanceCurrentStep
  <2>2. runs'[i].step = run.step BY <1>9, <2>1
  <2> QED BY <1>3, <1>6, <1>8, <2>1, <2>2 DEF AtStep
<1>16. CASE CreateRow(i)
  <2>1. run.pc = "create" BY <1>16 DEF CreateRow
  <2>2. runs'[i].step = run.step BY <1>0, <1>16 DEF CreateRow, Goto, RunRecords
  <2>3. \A m \in Steps \X Attempts : rows'[m] = rows[m] \/ rows'[m].status = "PENDING"
    BY <1>0, <1>16 DEF CreateRow, NoRow
  <2>4. ~Unbeaten BY <1>4, <2>1, <2>3 DEF Unbeaten, Beats
  <2>5. ~Redone BY <1>8, <2>1, <2>2, <2>3 DEF AtStep
  <2> QED BY <1>3, <2>4, <2>5
<1>17. CASE StartRow(i)
  <2>1. run.pc = "start" /\ rows[k].status = "PENDING" BY <1>0, <1>17 DEF HeldOK, StartRow
  <2>2. runs'[i].pc = "execute" /\ runs'[i].step = run.step /\ RowOf(runs'[i]) = k
    BY <1>9, <1>17, <2>1 DEF StartRow
  <2>3. rows' = [rows EXCEPT ![k].status = "RUNNING", ![k].fresh = TRUE, ![k].worker = WorkerOf[i]]
    BY <1>17, <2>1 DEF StartRow
  <2>4. /\ \A m \in Steps \X Attempts : m # k => rows'[m] = rows[m]
        /\ rows'[k].status = "RUNNING"
    BY <1>0, <2>3 DEF RowRecords
  <2>5. \A m \in Steps \X Attempts : m = k => Beats(i, m)' BY <2>2 DEF Beats
  <2>6. \A m \in Steps \X Attempts : rows[m].status # "RUNNING" BY <1>4, <2>1 DEF Beats
  <2>7. ~Unbeaten BY <2>4, <2>5, <2>6 DEF Unbeaten
  <2>8. ~Redone BY <1>8, <2>1, <2>2, <2>4 DEF AtStep
  <2> QED BY <1>3, <2>7, <2>8
<1>18. CASE ExecuteStep(i)
  <2>1. rows' = rows /\ run.pc = "execute" BY <1>18 DEF ExecuteStep, database
  <2>2. runs'[i].pc \in {"succeed", "fail"} /\ runs'[i].step = run.step /\ RowOf(runs'[i]) = k
    BY <1>0, <1>18 DEF ExecuteStep, Goto, RunRecords, RowOf
  <2>3. ~Unbeaten BY <1>4, <2>1, <2>2 DEF Unbeaten, Beats
  <2> QED BY <1>3, <1>8, <2>1, <2>2, <2>3 DEF AtStep
<1>19. CASE RecordSuccess(i) \/ RecordFailure(i)
  <2>1. rows[k].status = "RUNNING" /\ rows[k].worker = WorkerOf[i]
    BY <1>0, <1>19 DEF HeldOK, RecordSuccess, RecordFailure
  <2>2. PICK end \in Finished : rows' = [rows EXCEPT ![k] = FinishedRow(i, @, end)]
    BY <1>19 DEF RecordSuccess, RecordFailure, Finished
  <2>3. rows'[k] = [rows[k] EXCEPT !.status = end, !.fresh = FALSE]
    BY <1>0, <2>1, <2>2 DEF FinishedRow
  <2>4. /\ \A m \in Steps \X Attempts : m # k => rows'[m] = rows[m]
        /\ rows'[k].status # "RUNNING"
    BY <1>0, <2>2, <2>3 DEF RowRecords, Finished
  <2>5. ~Unbeaten BY <1>4, <2>4 DEF Unbeaten, Beats
  <2>6. runs'[i].pc \notin AtStep
    <3>1. CASE RecordSuccess(i)
      <4>1. runs'[i] = PassStep(more) BY <1>0, <3>1 DEF RecordSuccess, more
      <4> QED BY <1>10, <1>11, <4>1
    <3>2. CASE RecordFailure(i)
      <4>1. runs'[i].pc = "throw" BY <1>9, <3>2 DEF RecordFailure
      <4> QED BY <4>1 DEF AtStep
    <3> QED BY <1>19, <3>1, <3>2
  <2> QED BY <1>3, <1>7, <2>5, <2>6
<1>20. CASE Complete(i) \/ Return(i) \/ Throw(i)
  <2>1. rows' = rows /\ run.pc \in {"complete", "return", "throw"}
    BY <1>20 DEF Complete, Return, Throw, database
  <2>2. runs'[i].pc \in {"return", "idle"}
    BY <1>0, <1>9, <1>20 DEF Complete, Return, Throw, IdleRun
  <2> QED BY <1>3, <1>6, <1>7, <2>1, <2>2 DEF AtStep
<1> QED
  BY <1>12, <1>13, <1>14, <1>15, <1>16, <1>17, <1>18, <1>19, <1>20 DEF ExecuteExecution

LEMMA SettledStep ==
  ASSUME AtRest, [Next]_vars, Calm'
  PROVE  RowsSettled'
<1>0. TypeOK /\ RowsSettled /\ runs \in [Slots -> RunRecords]
  BY DEF AtRest, OneRunInv, TypeOK, CalmOK, RowsSettled
<1>1. CASE TriggerEnqueue \/ Expire \/ UNCHANGED vars
  BY <1>0, <1>1, SettledQuietly DEF TriggerEnqueue, Expire, database, processes, vars
<1>2. CASE \E w \in Workers : TriggerCreate(w) \/ Restart(w)
  BY <1>0, <1>2, SettledQuietly DEF TriggerCreate, Restart, database
<1>3. ASSUME NEW i \in Slots, ExecuteExecution(i) PROVE RowsSettled' BY <1>3, RunsSettled
<1>4. ASSUME NEW i \in Slots, Heartbeat(i) PROVE RowsSettled'
  <2>1. runs' = runs BY <1>4 DEF Heartbeat
  <2>2. \A k \in Steps \X Attempts : rows'[k].status = rows[k].status
    BY <1>4 DEF Heartbeat, AtRest, OneRunInv, TypeOK, RowRecords
  <2> QED BY <1>0, <2>1, <2>2, SettledQuietly
<1>5. ASSUME NEW i \in Slots, NEW j \in JobIds, Fetch(i, j) PROVE RowsSettled'
  <2>1. rows' = rows /\ runs[i].pc = "idle" /\ runs'[i].pc = "claim"
    BY <1>0, <1>5 DEF Fetch, database, IdleRun
  <2>2. \A n \in Slots : n # i => runs'[n] = runs[n] BY <1>0, <1>5, OtherRunsKept
  <2>3. \A n \in Slots, k \in Steps \X Attempts : Beats(n, k) => Beats(n, k)'
    BY <2>1, <2>2 DEF Beats, RowOf
  <2>4. RunningBeaten' BY <1>0, <2>1, <2>3 DEF RowsSettled, RunningBeaten
  <2>5. NotYetDone' BY <1>0, <2>1, <2>2 DEF RowsSettled, NotYetDone, Succeeded
  <2> QED BY <2>4, <2>5 DEF RowsSettled
<1>6. CASE \E j \in JobIds : HandleRetry(j) \/ HandleBury(j) \/ markAsFailed(j)
  BY <1>0, <1>6, SettledQuietly DEF HandleRetry, HandleBury, markAsFailed, database, processes
<1>7. CASE \E l \in LetterIds : DlqWorker(l)
  BY <1>0, <1>7, SettledQuietly DEF DlqWorker, database, processes
<1>8. CASE \E o \in Operators : ReplayDlqJob(o)
  <2>1. rows' = rows /\ runs' = runs
    BY <1>8 DEF ReplayDlqJob, ReplayGetJob, ReplayCheck, ReplayMark, ReplayRemove, ReplayRead,
       ReplayLog, ReplayEnqueue, OnlyReplay, database
  <2> QED BY <1>0, <2>1, SettledQuietly
<1> QED BY <1>1, <1>2, <1>3, <1>4, <1>5, <1>6, <1>7, <1>8, CalmSteps

LEMMA NoScansStep ==
  ASSUME AtRest, [Next]_vars, Calm'
  PROVE  NoScans'
<1>1. scans' = scans
  BY CalmSteps
  DEF TriggerEnqueue, TriggerCreate, Expire, Restart, vars, ExecuteExecution, Heartbeat, Fetch,
     Claim, LookupSucceeded, CheckActive, AdvanceCurrentStep, CreateRow, StartRow, ExecuteStep,
     RecordSuccess, RecordFailure, Complete, Return, Throw, OnlyRun, HandleRetry, HandleBury,
     markAsFailed, DlqWorker, ReplayDlqJob, ReplayGetJob, ReplayCheck, ReplayMark, ReplayRemove,
     ReplayRead, ReplayLog, ReplayEnqueue, OnlyReplay, processes
<1> QED BY <1>1 DEF AtRest, CalmOK, NoScans

CalmInv == OneRunInv /\ TendedInv /\ (Calm => CalmOK)

LEMMA CalmInit == Init => CalmInv
<1> SUFFICES ASSUME Init PROVE CalmInv OBVIOUS
<1>1. OneRunInv /\ TendedInv /\ CompletionInv BY OneRunInit, TendedInit, CompletionInit
<1>2. OneBearer /\ ReplaysOK
  BY DEF Init, OneBearer, ReplaysOK, Live, Dead, Moving, FreeJob, NoLetter, IdleReplay
<1>3. RunsHold /\ NoScans /\ RunningBeaten /\ NotYetDone
  BY DEF Init, RunsHold, NoScans, RunningBeaten, NotYetDone, IdleRun, NoRow
<1> QED BY <1>1, <1>2, <1>3 DEF CalmInv, CalmOK, CompletionInv

LEMMA CalmStep == CalmInv /\ [Next]_vars => CalmInv'
<1> SUFFICES ASSUME CalmInv, [Next]_vars PROVE CalmInv' OBVIOUS
<1>0. TypeOK BY DEF CalmInv, OneRunInv
<1>1. OneRunInv' /\ TendedInv' BY <1>0, OneRunStep, TendedStep DEF CalmInv
<1>2. ASSUME Calm' PROVE CalmOK'
  <2>1. Calm /\ pauses' = pauses BY <1>0, <1>2, CalmBefore
  <2>2. JobsOwned BY <2>1 DEF CalmInv, Calm, TendedInv
  <2>3. AtRest BY <2>1, <2>2 DEF CalmInv, AtRest
  <2>4. FoundOK BY <2>3 DEF AtRest, CalmOK, NoScans, FoundOK, IdleScan
  <2>5. HeldOK /\ OrderOK /\ OneRunInv BY <2>3 DEF AtRest, CalmOK
  <2>6. HeldOK' BY <2>1, <2>4, <2>5, HeldStep
  <2>7. OrderOK' BY <1>0, <2>3, <2>5, CalmNoForeign, OrderStep
  <2>8. Bearing' /\ RowsSettled' /\ NoScans'
    BY <1>2, <2>3, BearerStep, SettledStep, NoScansStep
  <2> QED BY <2>6, <2>7, <2>8 DEF CalmOK, Bearing, RowsSettled
<1> QED BY <1>1, <1>2 DEF CalmInv

\* As long as no process crashes or is paused beyond its leases and replays come one at
\* a time, no step is executed by two runs at once, none again after it has succeeded,
\* and an execution is completed only with all of them: any number of processes and
\* slots, and whatever retries, deferrals, dead letters and replays come between.
THEOREM ExactlyOnceInCalmHolds == Spec => []ExactlyOnceInCalm
<1>1. CalmInv => ExactlyOnceInCalm
  <2> SUFFICES ASSUME CalmInv, Calm PROVE ExactlyOnceInCalm!2 BY DEF ExactlyOnceInCalm
  <2>1. CalmOK BY DEF CalmInv
  <2>2. NoDuplicateExecution BY <2>1, OneRunner DEF CalmOK, NoDuplicateExecution
  <2>3. CompletedMeansSucceeded BY <2>1 DEF CalmOK, OrderOK
  <2> QED BY <2>1, <2>2, <2>3 DEF CalmOK, NotYetDone
<1>2. CalmInv /\ [Next]_vars => CalmInv' BY CalmStep
<1> QED BY <1>1, <1>2, CalmInit, PTL DEF Spec
=============================================================================
