------------------------ MODULE AssessmentQueueProofs ------------------------
(***************************************************************************)
(* Theorems about AssessmentQueue for any number of tasks, targets, phases *)
(* and workers.                                                            *)
(***************************************************************************)
EXTENDS AssessmentQueue, TLAPS

USE NPhasesAssumption, PhaseOfAssumption, NoWorkerAssumption, BoundsAssumption

-----------------------------------------------------------------------------
(* What the operators of FlowRows return.                                   *)

\* An execution starts without a checkpoint of any target.
LEMMA NothingType == Nothing \in [Targets -> AssetResult]
BY DEF Nothing, AssetResult, NoAssetResult, Subs

\* The empty task.result is a result.
LEMMA NoResultType == NoResult \in Result
BY NothingType DEF NoResult, Result, ExecutionState, Subs

\* A reset row is a row.
LEMMA BlankRowType == BlankRow \in Row
BY NoResultType DEF BlankRow, Row, TaskStatus, Lease

\* start_task keeps a row a row.
LEMMA StartedRowType ==
  ASSUME NEW row \in Row
  PROVE  StartedRow(row) \in Row
BY DEF StartedRow, Row, TaskStatus

\* queue_assessment_task writes a row with a fresh execution envelope.
LEMMA QueuedRowType ==
  ASSUME NEW row \in Row, NEW s \in Subs
  PROVE  QueuedRow(row, s) \in Row
<1>1. [state |-> "queued", sub |-> s, attempts |-> 0, assets |-> Nothing] \in Result
  BY NothingType DEF Result, ExecutionState
<1>2. StartedRow(row) \in Row
  BY StartedRowType
<1>. QED
  BY <1>1, <1>2 DEF QueuedRow, Row, Lease

\* stop_task keeps a row a row.
LEMMA StoppedRowType ==
  ASSUME NEW row \in Row
  PROVE  StoppedRow(row) \in Row
<1>1. row.result \in Result /\ [row.result EXCEPT !.state = "cancelled"] \in Result
  BY DEF Row, Result, ExecutionState
<1>. QED
  BY <1>1 DEF StoppedRow, Row, TaskStatus, Lease

\* Resetting any set of tasks yields a table of rows.
LEMMA BlankedTasksType ==
  ASSUME NEW tasks \in [Tasks -> Row], NEW blanked
  PROVE  BlankedTasks(tasks, blanked) \in [Tasks -> Row]
BY BlankRowType DEF BlankedTasks

\* start, reopen, reset and activation of a phase yield phase states.
LEMMA PhasesType ==
  ASSUME NEW phases \in [Phases -> PhaseStatus], NEW p \in Int
  PROVE  /\ StartedPhase(phases, p) \in [Phases -> PhaseStatus]
         /\ ReopenedPhase(phases, p) \in [Phases -> PhaseStatus]
         /\ PendingFrom(phases, p) \in [Phases -> PhaseStatus]
         /\ NextActivated(phases, p) \in [Phases -> PhaseStatus]
BY DEF StartedPhase, ReopenedPhase, PendingFrom, NextActivated, PhaseStatus, Phases

\* The migration yields phase states.
LEMMA RepairedPhasesType ==
  ASSUME NEW tasks, NEW phases \in [Phases -> PhaseStatus]
  PROVE  RepairedPhases(tasks, phases) \in [Phases -> PhaseStatus]
BY DEF RepairedPhases, RecomputedPhase, PhaseStatus

\* reset_task yields tasks and phases.
LEMMA ResetType ==
  ASSUME NEW tasks \in [Tasks -> Row], NEW phases \in [Phases -> PhaseStatus], NEW t \in Tasks
  PROVE  /\ ResetTasks(tasks, t) \in [Tasks -> Row]
         /\ ResetPhases(phases, t) \in [Phases -> PhaseStatus]
<1>1. PhaseOf[t] \in Int /\ PhaseOf[t] + 1 \in Int
  BY DEF Phases
<1>2. PendingFrom(phases, PhaseOf[t] + 1) \in [Phases -> PhaseStatus]
  BY <1>1, PhasesType
<1>. QED
  BY <1>1, <1>2, BlankedTasksType, PhasesType DEF ResetTasks, ResetPhases

\* Recounting and reconciling a phase yield a phase state.
LEMMA RecountType ==
  ASSUME NEW tasks, NEW phases, NEW p, NEW loaded \in PhaseStatus
  PROVE  /\ RecountedPhase(tasks, p, loaded) \in PhaseStatus
         /\ ReconciledPhase(tasks, phases, p, loaded) \in PhaseStatus
BY DEF RecountedPhase, ReconciledPhase, PhaseStatus

-----------------------------------------------------------------------------
(* What the operators of AssessmentQueue return.                            *)

\* A run that has returned is a run state.
LEMMA FreeRunType == FreeRun \in RunState
BY NoResultType DEF FreeRun, RunState, RunPc, PhaseStatus

\* No request in progress is a request state.
LEMMA IdleDirectType == IdleDirect \in DirectState
BY DEF IdleDirect, DirectState, PhaseStatus, Subs

\* The exception branch of /execute keeps a row a row.
LEMMA FailedByHandlerType ==
  ASSUME NEW row \in Row
  PROVE  FailedByHandler(row) \in Row
BY NoResultType DEF FailedByHandler, Row, TaskStatus

\* The result of a synchronous execution is a result.
LEMMA DirectResultType ==
  ASSUME NEW s \in Subs
  PROVE  DirectResult(s) \in Result
<1>1. [g \in Targets |-> [verdict |-> "ok", sub |-> s]] \in [Targets -> AssetResult]
  BY DEF AssetResult
<1>. QED
  BY <1>1, NoResultType DEF DirectResult, Result

\* A claim counts one more attempt, within the limit when the row was not exhausted.
LEMMA ClaimedRowType ==
  ASSUME NEW row \in Row, NEW read \in Row, NEW w \in Workers, ~Exhausted(read)
  PROVE  ClaimedRow(row, read, w) \in Row
<1>1. read.result \in Result /\ read.result.attempts \in 0..MaxAttempts
  BY DEF Row, Result
<1>2. read.result.attempts + 1 \in 0..MaxAttempts
  BY <1>1 DEF Exhausted
<1>3. [read.result EXCEPT !.state = "running", !.attempts = @ + 1] \in Result
  BY <1>1, <1>2 DEF Result, ExecutionState
<1>. QED
  BY <1>3 DEF ClaimedRow, Row, Lease

\* Giving up on a row keeps it a row.
LEMMA ExhaustedRowType ==
  ASSUME NEW row \in Row, NEW read \in Row
  PROVE  ExhaustedRow(row, read) \in Row
<1>0. read.result \in Result
  BY DEF Row
<1>1. [read.result EXCEPT !.state = "failed"] \in Result
  BY <1>0 DEF Result, ExecutionState
<1>2. Flushed(row.owner, read.owner, NoWorker) \in Workers \cup {NoWorker}
  BY DEF Flushed, Row
<1>3. Flushed(row.lease, read.lease, "none") \in Lease
  BY DEF Flushed, Row, Lease
<1>. QED
  BY <1>1, <1>2, <1>3 DEF ExhaustedRow, Row, TaskStatus

\* Releasing the lease keeps a row a row.
LEMMA ReleasedType ==
  ASSUME NEW row \in Row, NEW r
  PROVE  Released(row, r) \in Row
BY DEF Released, Row, Lease

\* Moving a run on keeps run states and batches typed.
LEMMA RunType ==
  ASSUME TypeOK, NEW r \in Jobs
  PROVE  /\ Host(r) \in Workers
         /\ TaskOf(r) \in Tasks
         /\ PhaseIdOf(r) \in Phases
         /\ run[r] \in RunState
         /\ run[r].work \in Result
         /\ task[TaskOf(r)] \in Row
         /\ phase[PhaseIdOf(r)] \in PhaseStatus
<1>1. Host(r) \in Workers /\ TaskOf(r) \in Tasks
  BY DEF Jobs, TaskOf, Host
<1>2. PhaseIdOf(r) \in Phases
  BY <1>1 DEF PhaseIdOf, Phases
<1>3. run[r] \in RunState
  BY DEF TypeOK
<1>. QED
  BY <1>1, <1>2, <1>3 DEF TypeOK, RunState

\* What a session loads is a run state.
LEMMA LoadedType ==
  ASSUME TypeOK, NEW r \in Jobs, NEW next \in RunPc
  PROVE  Loaded(r, next) \in RunState
<1>1. run[r] \in RunState /\ phase[PhaseIdOf(r)] \in PhaseStatus
  BY RunType
<1>2. task[TaskOf(r)].result \in Result
  BY RunType DEF Row
<1>. QED
  BY <1>1, <1>2 DEF Loaded, RunState

\* The result a run settles its task with is a result.
LEMMA FinalResultType ==
  ASSUME TypeOK, NEW r \in Jobs
  PROVE  FinalResult(r) \in Result
<1>1. run[r].work \in Result
  BY RunType
<1>. QED
  BY <1>1 DEF FinalResult, Result, ExecutionState

-----------------------------------------------------------------------------
(* Type correctness: Init, then one lemma per group of actions.             *)

\* The initial state is type correct.
LEMMA TypeInit == Init => TypeOK
BY BlankRowType, FreeRunType, IdleDirectType DEF Init, TypeOK, PhaseStatus, Subs

\* Queueing an execution is type correct.
LEMMA SubmitType ==
  ASSUME TypeOK, NEW tasks \in [Tasks -> Row], NEW phases \in [Phases -> PhaseStatus],
         NEW t \in Tasks, Submit(tasks, phases, t), UNCHANGED <<workers, direct>>
  PROVE  TypeOK'
<1>1. subs[t] \in Subs /\ subs[t] + 1 \in Subs
  BY DEF Submit, TypeOK, Subs
<1>2. QueuedRow(tasks[t], subs[t] + 1) \in Row
  BY <1>1, QueuedRowType
<1>3. task' \in [Tasks -> Row]
  BY <1>2 DEF Submit
<1>4. phase' \in [Phases -> PhaseStatus]
  <2>1. PhaseOf[t] \in Int
    BY DEF Phases
  <2>. QED
    BY <2>1, PhasesType DEF Submit
<1>5. subs' \in [Tasks -> Subs] /\ launches' \in [Tasks -> Nat]
  BY <1>1 DEF Submit, TypeOK
<1>. QED
  BY <1>3, <1>4, <1>5 DEF TypeOK, workers

\* So is every request on a task,
LEMMA TaskRequestType ==
  ASSUME TypeOK, NEW t \in Tasks, TaskRequest(t)
  PROVE  TypeOK'
<1>1. CASE StartTask(t)
  BY <1>1, SubmitType DEF StartTask, TypeOK
<1>2. CASE RerunTask(t)
  <2> DEFINE redo == task[t].status # "todo"
             tasks == IF redo THEN ResetTasks(task, t) ELSE task
             phases == IF redo THEN ResetPhases(phase, t) ELSE phase
  <2>1. tasks \in [Tasks -> Row] /\ phases \in [Phases -> PhaseStatus]
    BY ResetType DEF TypeOK
  <2>2. CASE Submit(tasks, phases, t)
    <3>. HIDE DEF tasks, phases
    <3>. QED
      BY <2>1, <2>2, <1>2, SubmitType DEF RerunTask
  <2>3. CASE task' = tasks /\ phase' = phases /\ UNCHANGED ghosts
    BY <2>1, <2>3, <1>2 DEF RerunTask, TypeOK, workers, ghosts
  <2>. QED
    BY <1>2, <2>2, <2>3 DEF RerunTask
<1>3. CASE StopTask(t)
  <2>1. StoppedRow(task[t]) \in Row
    BY StoppedRowType DEF TypeOK
  <2>. QED
    BY <1>3, <2>1 DEF StopTask, TypeOK, workers, ghosts
<1>4. CASE ResetTask(t)
  BY <1>4, ResetType DEF ResetTask, TypeOK, workers, ghosts
<1>5. CASE SkipTask(t)
  <2> DEFINE tasks == [task EXCEPT ![t].status = "cancelled"]
             new == RecountedPhase(tasks, PhaseOf[t], phase[PhaseOf[t]])
             phases == [phase EXCEPT ![PhaseOf[t]] = new]
  <2>0. task[t] \in Row
    BY DEF TypeOK
  <2>1. tasks \in [Tasks -> Row]
    BY <2>0 DEF TypeOK, Row, TaskStatus
  <2>2. PhaseOf[t] \in Phases /\ PhaseOf[t] \in Int
    BY DEF Phases
  <2>3. new \in PhaseStatus
    BY <2>2, RecountType DEF TypeOK
  <2>4. phases \in [Phases -> PhaseStatus]
    BY <2>2, <2>3 DEF TypeOK
  <2>. HIDE DEF tasks, new
  <2>5. NextActivated(phases, PhaseOf[t]) \in [Phases -> PhaseStatus]
    BY <2>2, <2>4, PhasesType
  <2>6. /\ task' = tasks
        /\ phase' = IF new = "completed" THEN NextActivated(phases, PhaseOf[t]) ELSE phases
        /\ UNCHANGED <<workers, direct, ghosts>>
    BY <1>5 DEF SkipTask, tasks, new
  <2>. QED
    BY <2>1, <2>4, <2>5, <2>6 DEF TypeOK, workers, ghosts
<1>. QED
  BY <1>1, <1>2, <1>3, <1>4, <1>5 DEF TaskRequest

\* every request on a phase,
LEMMA PhaseRequestType ==
  ASSUME TypeOK, NEW p \in Phases, PhaseRequest(p)
  PROVE  TypeOK'
<1>1. p \in Int
  BY DEF Phases
<1>2. CASE ActivatePhase(p)
  BY <1>2 DEF ActivatePhase, TypeOK, workers, ghosts, PhaseStatus
<1>3. CASE CompletePhase(p)
  <2>1. [phase EXCEPT ![p] = "completed"] \in [Phases -> PhaseStatus]
    BY DEF TypeOK, PhaseStatus
  <2>. QED
    BY <1>1, <1>3, <2>1, PhasesType DEF CompletePhase, TypeOK, workers, ghosts
<1>4. CASE ReopenPhase(p)
  BY <1>4 DEF ReopenPhase, TypeOK, workers, ghosts, PhaseStatus
<1>5. CASE ResetPhase(p)
  BY <1>1, <1>5, PhasesType, BlankedTasksType DEF ResetPhase, TypeOK, workers, ghosts
<1>. QED
  BY <1>2, <1>3, <1>4, <1>5 DEF PhaseRequest

\* every step of a synchronous execution,
LEMMA DirectStepType ==
  ASSUME TypeOK, NEW t \in Tasks, DirectStep(t)
  PROVE  TypeOK'
<1>0. /\ task[t] \in Row /\ direct[t] \in DirectState
      /\ PhaseOf[t] \in Phases /\ PhaseOf[t] \in Int
      /\ FailedByHandler(task[t]) \in Row
  BY FailedByHandlerType DEF TypeOK, Phases
<1>1. CASE DirectBegin(t)
  <2> DEFINE redo == task[t].status # "todo"
             tasks == IF redo THEN BlankedTasks(task, {t}) ELSE task
             phases == IF redo THEN ReopenedPhase(phase, PhaseOf[t]) ELSE phase
             started == StartedPhase(phases, PhaseOf[t])
             begun == [IdleDirect EXCEPT !.pc = "working", !.phase = started[PhaseOf[t]],
                                         !.sub = subs[t] + 1]
  <2>1. tasks \in [Tasks -> Row] /\ phases \in [Phases -> PhaseStatus]
    BY <1>0, BlankedTasksType, PhasesType DEF TypeOK
  <2>. HIDE DEF tasks, phases
  <2>2. started \in [Phases -> PhaseStatus] /\ StartedRow(tasks[t]) \in Row
    BY <1>0, <2>1, PhasesType, StartedRowType
  <2>. HIDE DEF started
  <2>3. subs[t] + 1 \in Subs
    BY <1>1 DEF DirectBegin, TypeOK, Subs
  <2>4. begun \in DirectState
    BY <1>0, <2>2, <2>3, IdleDirectType DEF DirectState
  <2>. HIDE DEF begun
  <2>5. /\ task' = [tasks EXCEPT ![t] = StartedRow(@)] /\ phase' = started
        /\ subs' = [subs EXCEPT ![t] = @ + 1] /\ launches' = [launches EXCEPT ![t] = 0]
        /\ direct' = [direct EXCEPT ![t] = begun] /\ UNCHANGED workers
    BY <1>1 DEF DirectBegin, tasks, phases, started, begun
  <2>. QED
    BY <2>1, <2>2, <2>3, <2>4, <2>5 DEF TypeOK, workers
<1>2. CASE DirectRefused(t)
  <2> DEFINE redo == task[t].status \notin {"todo", "in_progress"}
             tasks == IF redo THEN BlankedTasks(task, {t}) ELSE task
             phases == IF redo THEN ReopenedPhase(phase, PhaseOf[t]) ELSE phase
  <2>1. tasks \in [Tasks -> Row] /\ phases \in [Phases -> PhaseStatus]
    BY <1>0, BlankedTasksType, PhasesType DEF TypeOK
  <2>. HIDE DEF tasks, phases
  <2>2. FailedByHandler(tasks[t]) \in Row
    BY <2>1, FailedByHandlerType
  <2>3. /\ task' = [tasks EXCEPT ![t] = FailedByHandler(@)] /\ phase' = phases
        /\ UNCHANGED <<workers, direct, ghosts>>
    BY <1>2 DEF DirectRefused, tasks, phases
  <2>. QED
    BY <2>1, <2>2, <2>3 DEF TypeOK, workers, ghosts
<1>3. CASE DirectPassed(t)
  <2>1. CompletedPhase(t, direct[t].phase) \in PhaseStatus
    BY <1>0, RecountType DEF CompletedPhase, DirectState
  <2>2. [direct[t] EXCEPT !.pc = "commit", !.next = CompletedPhase(t, direct[t].phase)]
          \in DirectState
    BY <1>0, <2>1 DEF DirectState
  <2>. QED
    BY <1>0, <1>3, <2>2, IdleDirectType DEF DirectPassed, TypeOK, workers, ghosts
<1>4. CASE DirectCommits(t)
  <2>1. /\ direct[t].sub \in Subs /\ direct[t].next \in PhaseStatus
        /\ [direct[t] EXCEPT !.pc = "activate"] \in DirectState
    BY <1>0 DEF DirectState
  <2>2. [task[t] EXCEPT !.status = "completed", !.result = DirectResult(direct[t].sub)] \in Row
    BY <1>0, <2>1, DirectResultType DEF Row, TaskStatus
  <2>3. Flushed(phase[PhaseOf[t]], direct[t].phase, direct[t].next) \in PhaseStatus
    BY <1>0, <2>1 DEF Flushed, TypeOK
  <2>4. task' \in [Tasks -> Row] /\ phase' \in [Phases -> PhaseStatus]
    BY <1>4, <2>2, <2>3 DEF DirectCommits, TypeOK
  <2>5. direct' \in [Tasks -> DirectState]
    BY <1>4, <2>1, IdleDirectType DEF DirectCommits, TypeOK
  <2>. QED
    BY <1>4, <2>4, <2>5 DEF DirectCommits, TypeOK, workers, ghosts
<1>5. CASE DirectFailed(t)
  BY <1>0, <1>5, IdleDirectType DEF DirectFailed, TypeOK, workers, ghosts
<1>6. CASE DirectActivate(t)
  BY <1>0, <1>6, IdleDirectType, PhasesType DEF DirectActivate, TypeOK, workers, ghosts
<1>7. CASE DirectCrash(t)
  BY <1>7, IdleDirectType DEF DirectCrash, TypeOK, rows, workers, ghosts
<1>. QED
  BY <1>1, <1>2, <1>3, <1>4, <1>5, <1>6, <1>7 DEF DirectStep

\* the migration,
LEMMA MigrateType ==
  ASSUME TypeOK, Migrate
  PROVE  TypeOK'
BY RepairedPhasesType DEF Migrate, TypeOK, workers, ghosts

\* both halves of a poll,
LEMMA PollType ==
  ASSUME TypeOK, NEW w \in Workers, PollRead(w) \/ PollCommit(w) \/ WorkerCrash(w)
  PROVE  TypeOK'
<1>1. CASE PollRead(w)
  BY <1>1, BlankRowType DEF PollRead, TypeOK, rows, ghosts
<1>2. CASE PollCommit(w)
  <2>1. \A t \in Claims(w) : ClaimedRow(task[t], seen[w][t], w) \in Row
    BY ClaimedRowType DEF Claims, TypeOK
  <2>2. \A t \in GivenUp(w) : ExhaustedRow(task[t], seen[w][t]) \in Row
    BY ExhaustedRowType DEF GivenUp, TypeOK
  <2>3. task' \in [Tasks -> Row]
    BY <1>2, <2>1, <2>2 DEF PollCommit, TypeOK
  <2>4. run' \in [Jobs -> RunState]
    <3>1. [FreeRun EXCEPT !.pc = "begin"] \in RunState
      BY FreeRunType DEF RunState, RunPc
    <3>. QED
      BY <1>2, <3>1 DEF PollCommit, TypeOK
  <2>5. Launched(w) \subseteq Jobs
    <3>1. \A t \in Claims(w) : t \in Tasks /\ FreeSlots(w, t) # {}
      BY <1>2 DEF PollCommit, Claims, TypeOK
    <3>2. \A t \in Claims(w) : NextSlot(w, t) \in Slots
      BY <3>1 DEF NextSlot, FreeSlots
    <3>. QED
      BY <3>1, <3>2 DEF Launched, Jobs
  <2>6. launches' \in [Tasks -> Nat]
    BY <1>2 DEF PollCommit, TypeOK
  <2>7. seen' \in [Workers -> [Tasks -> Row]]
    BY <1>2, BlankRowType DEF PollCommit, TypeOK
  <2>. QED
    BY <1>2, <2>3, <2>4, <2>5, <2>6, <2>7 DEF PollCommit, TypeOK
<1>3. CASE WorkerCrash(w)
  BY <1>3, FreeRunType, BlankRowType DEF WorkerCrash, TypeOK, rows, ghosts
<1>. QED
  BY <1>1, <1>2, <1>3

\* The three ways in which an action leaves a run.
LEMMA RunGoesType ==
  ASSUME TypeOK, NEW r \in Jobs, NEW state \in RunState,
         RunGoes(r, state) \/ RunReturns(r) \/ RunRaises(r)
  PROVE  (polled \in [Workers -> SUBSET Tasks] /\ seen \in [Workers -> [Tasks -> Row]]
            /\ batch \in [Workers -> SUBSET Jobs] /\ run \in [Jobs -> RunState])'
<1>1. CASE RunGoes(r, state)
  BY <1>1 DEF RunGoes, TypeOK
<1>2. CASE RunReturns(r)
  BY <1>2, RunType, FreeRunType DEF RunReturns, TypeOK
<1>3. CASE RunRaises(r)
  BY <1>3, RunType, FreeRunType DEF RunRaises, TypeOK
<1>. QED
  BY <1>1, <1>2, <1>3

\* One step of a run writes a row and a phase status, and goes on or ends.
LEMMA RunWritesType ==
  ASSUME TypeOK, NEW r \in Jobs, NEW state \in RunState,
         NEW row \in Row, NEW status \in PhaseStatus,
         task' = [task EXCEPT ![TaskOf(r)] = row] \/ task' = task,
         \/ phase' = [phase EXCEPT ![PhaseIdOf(r)] = status]
         \/ phase' = NextActivated(phase, PhaseIdOf(r))
         \/ phase' = phase,
         RunGoes(r, state) \/ RunReturns(r) \/ RunRaises(r),
         UNCHANGED <<direct, ghosts>>
  PROVE  TypeOK'
<1>1. TaskOf(r) \in Tasks /\ PhaseIdOf(r) \in Phases /\ PhaseIdOf(r) \in Int
  BY RunType DEF Phases
<1>2. task' \in [Tasks -> Row]
  BY <1>1 DEF TypeOK
<1>3. phase' \in [Phases -> PhaseStatus]
  BY <1>1, PhasesType DEF TypeOK
<1>. QED
  BY <1>2, <1>3, RunGoesType DEF TypeOK, ghosts

\* the answer of a target,
LEMMA TargetDoneType ==
  ASSUME TypeOK, NEW r \in Jobs, NEW g \in Targets, NEW verdict \in {"ok", "bad"},
         TargetDone(r, g, verdict)
  PROVE  TypeOK'
<1> DEFINE result == [verdict |-> verdict, sub |-> run[r].work.sub]
           work == [run[r].work EXCEPT !.state = "running", !.assets[g] = result]
           state == [run[r] EXCEPT
                       !.work = work,
                       !.pc = IF Pending(work) = {} THEN "refresh" ELSE "scan",
                       !.renewing = IF Pending(work) = {} THEN FALSE ELSE @]
           row == [task[TaskOf(r)] EXCEPT !.result = work]
<1>1. run[r] \in RunState /\ run[r].work \in Result /\ task[TaskOf(r)] \in Row
  BY RunType
<1>2. result \in AssetResult
  BY <1>1 DEF AssetResult, Result
<1>. HIDE DEF result
<1>3. work \in Result
  BY <1>1, <1>2 DEF Result, ExecutionState
<1>4. \/ task' = [task EXCEPT ![TaskOf(r)] = row] /\ RunGoes(r, state)
      \/ task' = task /\ RunReturns(r)
  BY DEF TargetDone, result
<1>5. phase' = phase /\ UNCHANGED <<direct, ghosts>>
  BY DEF TargetDone
<1>. HIDE DEF work
<1>6. state \in RunState /\ row \in Row
  BY <1>1, <1>3 DEF RunState, RunPc, Row
<1>. HIDE DEF state, row
<1>7. phase[PhaseIdOf(r)] \in PhaseStatus
  BY RunType
<1>. QED
  BY <1>4, <1>5, <1>6, <1>7, RunWritesType

\* every other step of a run,
LEMMA RunStepType ==
  ASSUME TypeOK, NEW r \in Jobs, RunStep(r)
  PROVE  TypeOK'
<1>0. /\ run[r] \in RunState /\ task[TaskOf(r)] \in Row
      /\ phase[PhaseIdOf(r)] \in PhaseStatus /\ PhaseIdOf(r) = PhaseOf[TaskOf(r)]
      /\ run[r].phase \in PhaseStatus /\ run[r].next \in PhaseStatus
      /\ run[r].work \in Result
  BY RunType DEF PhaseIdOf, RunState
<1>1. CASE RunBegin(r)
  <2>1. \A next \in RunPc : Loaded(r, next) \in RunState
    BY LoadedType
  <2>2. "refresh" \in RunPc /\ "scan" \in RunPc /\ "reject" \in RunPc
    BY DEF RunPc
  <2>3. PICK state \in RunState : RunReturns(r) \/ RunGoes(r, state)
    BY <1>1, <2>1, <2>2, FreeRunType DEF RunBegin
  <2>. QED
    BY <1>0, <1>1, <2>3, RunWritesType DEF RunBegin, rows
<1>2. CASE RunReject(r)
  <2>1. [run[r].work EXCEPT !.state = "failed"] \in Result
    BY <1>0 DEF Result, ExecutionState
  <2>2. [Released(task[TaskOf(r)], r) EXCEPT
           !.status = "failed", !.result = [run[r].work EXCEPT !.state = "failed"]] \in Row
    BY <1>0, <2>1, ReleasedType DEF Row, TaskStatus
  <2>3. [run[r] EXCEPT !.pc = "reconcile"] \in RunState
    BY <1>0 DEF RunState, RunPc
  <2>. QED
    BY <1>0, <1>2, <2>2, <2>3, RunWritesType DEF RunReject
<1>3. ASSUME NEW g \in Targets, NEW verdict \in {"ok", "bad"}, TargetDone(r, g, verdict)
      PROVE  TypeOK'
  BY <1>3, TargetDoneType
<1>4. CASE RunRefresh(r)
  <2>1. Loaded(r, "finish") \in RunState
    BY LoadedType DEF RunPc
  <2>2. [Loaded(r, "finish") EXCEPT !.work = run[r].work, !.phase = run[r].phase] \in RunState
    BY <1>0, <2>1 DEF RunState
  <2>. QED
    BY <1>0, <1>4, <2>2, RunWritesType DEF RunRefresh, rows
<1>5. CASE RunCompletes(r)
  <2>1. CompletedPhase(TaskOf(r), run[r].phase) \in PhaseStatus
    BY <1>0, RecountType DEF CompletedPhase
  <2>2. [run[r] EXCEPT !.pc = "commit", !.next = CompletedPhase(TaskOf(r), run[r].phase)]
          \in RunState
    BY <1>0, <2>1 DEF RunState, RunPc
  <2>. QED
    BY <1>0, <1>5, <2>2, RunWritesType DEF RunCompletes, rows
<1>6. CASE RunCommits(r)
  <2>1. [Released(task[TaskOf(r)], r) EXCEPT
           !.status = "completed", !.result = FinalResult(r)] \in Row
    BY <1>0, ReleasedType, FinalResultType DEF Row, TaskStatus
  <2>2. Flushed(phase[PhaseIdOf(r)], run[r].phase, run[r].next) \in PhaseStatus
    BY <1>0 DEF Flushed
  <2>3. [run[r] EXCEPT !.pc = "activate"] \in RunState
    BY <1>0 DEF RunState, RunPc
  <2>. QED
    BY <1>0, <1>6, <2>1, <2>2, <2>3, RunWritesType DEF RunCommits
<1>7. CASE RunStoppedLate(r)
  BY <1>0, <1>7, FreeRunType, RunWritesType DEF RunStoppedLate, rows
<1>8. CASE RunFails(r)
  <2>1. [task[TaskOf(r)] EXCEPT !.status = "failed", !.result = FinalResult(r),
                                !.owner = NoWorker, !.lease = "none"] \in Row
    BY <1>0, FinalResultType DEF Row, TaskStatus, Lease
  <2>2. Released(task[TaskOf(r)], r) \in Row
    BY <1>0, ReleasedType
  <2>3. [run[r] EXCEPT !.pc = "reconcile"] \in RunState
    BY <1>0 DEF RunState, RunPc
  <2>4. PICK row \in Row : task' = [task EXCEPT ![TaskOf(r)] = row]
    BY <1>8, <2>1, <2>2 DEF RunFails
  <2>. QED
    BY <1>0, <1>8, <2>3, <2>4, RunWritesType DEF RunFails
<1>9. CASE RunReconciles(r)
  <2> DEFINE new == ReconciledPhase([task EXCEPT ![TaskOf(r)].status = "failed"], phase,
                                    PhaseIdOf(r), run[r].phase)
  <2>1. new \in PhaseStatus
    BY <1>0, RecountType
  <2>2. phase' = [phase EXCEPT ![PhaseIdOf(r)] = Flushed(@, run[r].phase, new)]
    BY <1>9 DEF RunReconciles
  <2>3. RunGoes(r, [run[r] EXCEPT !.pc = "activate"]) \/ RunReturns(r)
    BY <1>9 DEF RunReconciles
  <2>. HIDE DEF new
  <2>4. Flushed(phase[PhaseIdOf(r)], run[r].phase, new) \in PhaseStatus
    BY <1>0, <2>1 DEF Flushed
  <2>5. [run[r] EXCEPT !.pc = "activate"] \in RunState
    BY <1>0 DEF RunState, RunPc
  <2>. QED
    BY <1>0, <1>9, <2>2, <2>3, <2>4, <2>5, RunWritesType DEF RunReconciles
<1>10. CASE RunActivates(r)
  BY <1>0, <1>10, FreeRunType, RunWritesType DEF RunActivates
<1>. QED
  BY <1>1, <1>2, <1>3, <1>4, <1>5, <1>6, <1>7, <1>8, <1>9, <1>10 DEF RunStep

\* the monitor,
LEMMA MonitorStepType ==
  ASSUME TypeOK, NEW r \in Jobs, MonitorStep(r)
  PROVE  TypeOK'
<1>0. run[r] \in RunState /\ task[TaskOf(r)] \in Row /\ phase[PhaseIdOf(r)] \in PhaseStatus
  BY RunType
<1>1. CASE MonitorRead(r)
  <2>1. [run[r] EXCEPT !.renewing = TRUE] \in RunState
    BY <1>0 DEF RunState
  <2>. QED
    BY <1>0, <1>1, <2>1, RunWritesType DEF MonitorRead, rows
<1>2. CASE MonitorRenew(r)
  <2>1. [run[r] EXCEPT !.renewing = FALSE] \in RunState
    BY <1>0 DEF RunState
  <2>2. [task[TaskOf(r)] EXCEPT !.lease = "live"] \in Row
    BY <1>0 DEF Row, Lease
  <2>. QED
    BY <1>0, <1>2, <2>1, <2>2, RunWritesType DEF MonitorRenew
<1>. QED
  BY <1>1, <1>2 DEF MonitorStep

\* and the passing of time.
LEMMA LeaseExpiresType ==
  ASSUME TypeOK, NEW t \in Tasks, LeaseExpires(t)
  PROVE  TypeOK'
<1>1. task[t] \in Row
  BY DEF TypeOK
<1>2. [task[t] EXCEPT !.lease = "expired"] \in Row
  BY <1>1 DEF Row, Lease
<1>. QED
  BY <1>2 DEF LeaseExpires, TypeOK, workers, ghosts

\* Every step keeps the state type correct.
LEMMA TypeStep == TypeOK /\ [Next]_vars => TypeOK'
<1> SUFFICES ASSUME TypeOK, [Next]_vars
             PROVE  TypeOK'
  OBVIOUS
<1>1. CASE UNCHANGED vars
  BY <1>1 DEF vars, TypeOK
<1>2. ASSUME NEW t \in Tasks, TaskRequest(t) \/ DirectStep(t) \/ LeaseExpires(t)
      PROVE  TypeOK'
  BY <1>2, TaskRequestType, DirectStepType, LeaseExpiresType
<1>3. ASSUME NEW p \in Phases, PhaseRequest(p)
      PROVE  TypeOK'
  BY <1>3, PhaseRequestType
<1>4. CASE Migrate
  BY <1>4, MigrateType
<1>5. ASSUME NEW w \in Workers, PollRead(w) \/ PollCommit(w) \/ WorkerCrash(w)
      PROVE  TypeOK'
  BY <1>5, PollType
<1>6. ASSUME NEW r \in Jobs, RunStep(r) \/ MonitorStep(r)
      PROVE  TypeOK'
  BY <1>6, RunStepType, MonitorStepType
<1>. QED
  BY <1>1, <1>2, <1>3, <1>4, <1>5, <1>6 DEF Next, WorkerNext

\* Every reachable state is type correct: no request, poll, run or crash leaves
\* a row, a copy of a row or a run in a shape the code does not know, and the
\* attempt counter of a row never exceeds TASK_MAX_RECOVERY_ATTEMPTS.
THEOREM TypeCorrect == Spec => []TypeOK
<1>1. Init => TypeOK
  BY TypeInit
<1>2. TypeOK /\ [Next]_vars => TypeOK'
  BY TypeStep
<1>. QED
  BY <1>1, <1>2, PTL DEF Spec

-----------------------------------------------------------------------------
(* A stop is final and a completed task is covered.  The invariant adds     *)
(* CommitsHold: without it a stop that slips between the decision of        *)
(* complete_task and its commit would complete a stopped row.  It is kept   *)
(* because every other writer of a row waits for the row lock.              *)

RowSafe(row) ==
  /\ row.cancel => row.status = "failed"
  /\ row.status = "completed" => AllPassed(row.result)

RowsSafe == CommitsHold /\ \A t \in Tasks : RowSafe(task[t])

Safety == TypeOK /\ RowsSafe

\* A step that writes unlocked rows only, and leaves them safe.
WritesSafely ==
  \A t \in Tasks : task'[t] = task[t] \/ (~Locked(t) /\ RowSafe(task'[t]))

\* A step in which no complete_task begins to commit.
BeginsNoCommit ==
  /\ \A r \in Jobs : run'[r].pc = "commit" => run'[r] = run[r]
  /\ \A t \in Tasks : direct'[t].pc = "commit" => direct[t].pc = "commit"

\* A step that writes safely and begins no commit keeps the invariant.
LEMMA SafeStep ==
  ASSUME Safety, WritesSafely, BeginsNoCommit
  PROVE  RowsSafe'
<1>1. \A t \in Tasks : RowSafe(task'[t])
  BY DEF Safety, RowsSafe, WritesSafely
<1>2. ASSUME NEW r \in Jobs, run'[r].pc = "commit"
      PROVE  Taken(task'[TaskOf(r)]) /\ AllPassed(run'[r].work)
  <2>1. run'[r] = run[r]
    BY <1>2 DEF BeginsNoCommit
  <2>2. Taken(task[TaskOf(r)]) /\ AllPassed(run[r].work)
    BY <1>2, <2>1 DEF Safety, RowsSafe, CommitsHold
  <2>3. TaskOf(r) \in Tasks /\ Locked(TaskOf(r))
    BY <1>2, <2>1 DEF Locked, Jobs, TaskOf
  <2>. QED
    BY <2>1, <2>2, <2>3 DEF WritesSafely
<1>3. ASSUME NEW t \in Tasks, direct'[t].pc = "commit"
      PROVE  Taken(task'[t])
  <2>1. direct[t].pc = "commit"
    BY <1>3 DEF BeginsNoCommit
  <2>2. Taken(task[t]) /\ Locked(t)
    BY <2>1 DEF Safety, RowsSafe, CommitsHold, Locked
  <2>. QED
    BY <2>2 DEF WritesSafely
<1>. QED
  BY <1>1, <1>2, <1>3 DEF RowsSafe, CommitsHold

\* A reset row is safe.
LEMMA BlankRowSafe == RowSafe(BlankRow)
BY DEF BlankRow, RowSafe

\* A started and a queued row are safe: the stop request is cleared with the status.
LEMMA StartedRowsSafe ==
  ASSUME NEW row \in Row, NEW s \in Subs
  PROVE  RowSafe(StartedRow(row)) /\ RowSafe(QueuedRow(row, s))
<1>1. StartedRow(row).status = "in_progress" /\ ~StartedRow(row).cancel
  BY DEF StartedRow, Row
<1>2. QueuedRow(row, s).status = "in_progress" /\ ~QueuedRow(row, s).cancel
  BY DEF QueuedRow, StartedRow, Row
<1>. QED
  BY <1>1, <1>2 DEF RowSafe

\* A stopped row, a row failed by a handler and a row given up are safe.
LEMMA FailedRowsSafe ==
  ASSUME NEW row \in Row, NEW read \in Row
  PROVE  /\ RowSafe(StoppedRow(row))
         /\ RowSafe(FailedByHandler(row))
         /\ RowSafe(ExhaustedRow(row, read))
<1>1. StoppedRow(row).status = "failed"
  BY DEF StoppedRow, Row
<1>2. FailedByHandler(row).status = "failed"
  BY DEF FailedByHandler, Row
<1>3. ExhaustedRow(row, read).status = "failed"
  BY DEF ExhaustedRow, Row
<1>. QED
  BY <1>1, <1>2, <1>3 DEF RowSafe

\* Resets touch the rows they lock and blank them.
LEMMA BlankedTasksSafe ==
  ASSUME NEW tasks \in [Tasks -> Row], NEW blanked
  PROVE  \A t \in Tasks :
           \/ BlankedTasks(tasks, blanked)[t] = tasks[t]
           \/ t \in blanked /\ RowSafe(BlankedTasks(tasks, blanked)[t])
BY BlankRowSafe DEF BlankedTasks

\* Queueing an execution writes safely.
LEMMA SubmitSafe ==
  ASSUME Safety, NEW tasks \in [Tasks -> Row], NEW phases, NEW t \in Tasks,
         Submit(tasks, phases, t), Unlocked({t}),
         \A u \in Tasks : tasks[u] = task[u] \/ (~Locked(u) /\ RowSafe(tasks[u]))
  PROVE  WritesSafely
<1>1. subs[t] + 1 \in Subs
  BY DEF Submit, Safety, TypeOK, Subs
<1>2. RowSafe(QueuedRow(tasks[t], subs[t] + 1))
  BY <1>1, StartedRowsSafe
<1>3. task' = [tasks EXCEPT ![t] = QueuedRow(@, subs[t] + 1)]
  BY DEF Submit
<1>. QED
  BY <1>2, <1>3 DEF WritesSafely, Unlocked

\* Requests on tasks write safely: a locked row is not written.
LEMMA TaskRequestSafe ==
  ASSUME Safety, NEW t \in Tasks, TaskRequest(t)
  PROVE  WritesSafely /\ BeginsNoCommit
<1>0. task \in [Tasks -> Row] /\ task[t] \in Row
  BY DEF Safety, TypeOK
<1>1. CASE StartTask(t)
  BY <1>0, <1>1, SubmitSafe DEF StartTask, BeginsNoCommit, workers
<1>2. CASE RerunTask(t)
  <2> DEFINE redo == task[t].status # "todo"
             tasks == IF redo THEN ResetTasks(task, t) ELSE task
             phases == IF redo THEN ResetPhases(phase, t) ELSE phase
             locks == {t} \cup IF redo THEN TasksFrom(PhaseOf[t] + 1) ELSE {}
  <2>1. Unlocked(locks)
    BY <1>2 DEF RerunTask
  <2>2. tasks \in [Tasks -> Row]
    BY <1>0, BlankedTasksType DEF ResetTasks
  <2>3. \A u \in Tasks : tasks[u] = task[u] \/ (~Locked(u) /\ RowSafe(tasks[u]))
    BY <1>0, <2>1, BlankedTasksSafe DEF ResetTasks, Unlocked
  <2>4. Submit(tasks, phases, t) \/ task' = tasks
    BY <1>2 DEF RerunTask
  <2>5. Unlocked({t})
    BY <2>1 DEF Unlocked
  <2>. HIDE DEF tasks, phases
  <2>6. WritesSafely
    BY <2>2, <2>3, <2>4, <2>5, SubmitSafe DEF WritesSafely
  <2>. QED
    BY <1>2, <2>6 DEF RerunTask, BeginsNoCommit, workers
<1>3. CASE StopTask(t)
  <2>1. RowSafe(StoppedRow(task[t]))
    BY <1>0, FailedRowsSafe
  <2>. QED
    BY <1>0, <1>3, <2>1 DEF StopTask, WritesSafely, BeginsNoCommit, Unlocked, workers
<1>4. CASE ResetTask(t)
  <2>1. WritesSafely
    BY <1>0, <1>4, BlankedTasksSafe DEF ResetTask, ResetTasks, WritesSafely, Unlocked
  <2>. QED
    BY <1>4, <2>1 DEF ResetTask, BeginsNoCommit, workers
<1>5. CASE SkipTask(t)
  <2>1. task' = [task EXCEPT ![t].status = "cancelled"] /\ ~Locked(t)
    BY <1>5 DEF SkipTask, Unlocked
  <2>2. ~task[t].cancel
    BY <1>5 DEF SkipTask, Safety, RowsSafe, RowSafe
  <2>3. RowSafe(task'[t])
    BY <1>0, <2>1, <2>2 DEF RowSafe, Row
  <2>. QED
    BY <1>0, <1>5, <2>1, <2>3 DEF SkipTask, WritesSafely, BeginsNoCommit, workers
<1>. QED
  BY <1>1, <1>2, <1>3, <1>4, <1>5 DEF TaskRequest

\* Requests on phases write safely.
LEMMA PhaseRequestSafe ==
  ASSUME Safety, NEW p \in Phases, PhaseRequest(p) \/ Migrate
  PROVE  WritesSafely /\ BeginsNoCommit
<1>0. task \in [Tasks -> Row]
  BY DEF Safety, TypeOK
<1>1. CASE UNCHANGED <<task, workers, direct>>
  BY <1>1 DEF WritesSafely, BeginsNoCommit, workers
<1>2. CASE ResetPhase(p)
  <2>1. WritesSafely
    BY <1>0, <1>2, BlankedTasksSafe DEF ResetPhase, WritesSafely, Unlocked
  <2>. QED
    BY <1>2, <2>1 DEF ResetPhase, BeginsNoCommit, workers
<1>. QED
  BY <1>1, <1>2 DEF PhaseRequest, ActivatePhase, CompletePhase, ReopenPhase, Migrate

\* A poll writes safely: it claims and gives up rows that are in progress or failed anyway.
LEMMA PollSafe ==
  ASSUME Safety, NEW w \in Workers, PollRead(w) \/ PollCommit(w) \/ WorkerCrash(w)
  PROVE  WritesSafely /\ BeginsNoCommit
<1>0. FreeRun.pc # "commit" /\ [FreeRun EXCEPT !.pc = "begin"].pc # "commit"
  BY DEF FreeRun
<1>1. CASE PollRead(w)
  BY <1>1 DEF PollRead, WritesSafely, BeginsNoCommit, rows
<1>2. CASE PollCommit(w)
  <2>1. ASSUME NEW t \in Claims(w)
        PROVE  t \in Tasks /\ ~Locked(t) /\ RowSafe(ClaimedRow(task[t], seen[w][t], w))
    <3>1. /\ t \in Tasks /\ task[t] \in Row /\ ~Locked(t)
          /\ task[t].status = "in_progress" /\ ~task[t].cancel
      BY <1>2, <2>1 DEF PollCommit, Claims, Claimable, Unlocked, Safety, TypeOK
    <3>. QED
      BY <3>1 DEF ClaimedRow, Row, RowSafe
  <2>2. ASSUME NEW t \in GivenUp(w)
        PROVE  t \in Tasks /\ ~Locked(t) /\ RowSafe(ExhaustedRow(task[t], seen[w][t]))
    <3>1. t \in Tasks /\ task[t] \in Row /\ seen[w][t] \in Row /\ ~Locked(t)
      BY <1>2, <2>2 DEF PollCommit, GivenUp, Unlocked, Safety, TypeOK
    <3>. QED
      BY <3>1, FailedRowsSafe
  <2>3. WritesSafely
    BY <1>2, <2>1, <2>2 DEF PollCommit, WritesSafely
  <2>4. BeginsNoCommit
    BY <1>0, <1>2 DEF PollCommit, BeginsNoCommit
  <2>. QED
    BY <2>3, <2>4
<1>3. CASE WorkerCrash(w)
  BY <1>0, <1>3 DEF WorkerCrash, WritesSafely, BeginsNoCommit, rows
<1>. QED
  BY <1>1, <1>2, <1>3

\* A request or a run that takes a row in progress into the transaction of
\* complete_task.
LEMMA DirectStepSafe ==
  ASSUME Safety, NEW t \in Tasks, DirectStep(t)
  PROVE  RowsSafe'
<1>0. /\ task \in [Tasks -> Row] /\ task[t] \in Row
      /\ direct[t] \in DirectState /\ direct \in [Tasks -> DirectState]
      /\ IdleDirect.pc # "commit" /\ RowSafe(FailedByHandler(task[t]))
  BY FailedRowsSafe DEF Safety, TypeOK, IdleDirect
<1>1. CASE DirectBegin(t)
  <2> DEFINE redo == task[t].status # "todo"
             tasks == IF redo THEN BlankedTasks(task, {t}) ELSE task
  <2>1. tasks \in [Tasks -> Row]
    BY <1>0, BlankedTasksType
  <2>2. RowSafe(StartedRow(tasks[t]))
    BY <2>1, StartedRowsSafe DEF Subs
  <2>3. \A u \in Tasks : u # t => tasks[u] = task[u]
    BY <1>0 DEF BlankedTasks
  <2>4. task' = [tasks EXCEPT ![t] = StartedRow(@)] /\ ~Locked(t)
    BY <1>1 DEF DirectBegin, Unlocked
  <2>. HIDE DEF tasks
  <2>5. WritesSafely
    BY <2>1, <2>2, <2>3, <2>4 DEF WritesSafely
  <2>6. BeginsNoCommit
    BY <1>0, <1>1 DEF DirectBegin, BeginsNoCommit, workers, IdleDirect
  <2>. QED
    BY <2>5, <2>6, SafeStep
<1>2. CASE DirectRefused(t)
  <2> DEFINE redo == task[t].status \notin {"todo", "in_progress"}
             tasks == IF redo THEN BlankedTasks(task, {t}) ELSE task
  <2>1. tasks \in [Tasks -> Row]
    BY <1>0, BlankedTasksType
  <2>2. RowSafe(FailedByHandler(tasks[t]))
    BY <2>1, FailedRowsSafe
  <2>3. \A u \in Tasks : u # t => tasks[u] = task[u]
    BY <1>0 DEF BlankedTasks
  <2>4. task' = [tasks EXCEPT ![t] = FailedByHandler(@)] /\ ~Locked(t)
    BY <1>2 DEF DirectRefused, Unlocked
  <2>. HIDE DEF tasks
  <2>5. WritesSafely
    BY <2>1, <2>2, <2>3, <2>4 DEF WritesSafely
  <2>6. BeginsNoCommit
    BY <1>2 DEF DirectRefused, BeginsNoCommit, workers
  <2>. QED
    BY <2>5, <2>6, SafeStep
<1>3. CASE DirectPassed(t)
  <2>1. CASE Taken(task[t])
    <3>1. /\ UNCHANGED <<task, run>>
          /\ \A u \in Tasks : direct'[u].pc = "commit" => u = t \/ direct[u].pc = "commit"
      BY <1>0, <1>3, <2>1 DEF DirectPassed, workers
    <3>. QED
      BY <2>1, <3>1 DEF Safety, RowsSafe, CommitsHold
  <2>2. CASE ~Taken(task[t])
    <3>1. WritesSafely
      BY <1>0, <1>3, <2>2 DEF DirectPassed, WritesSafely, Unlocked
    <3>2. BeginsNoCommit
      BY <1>0, <1>3, <2>2 DEF DirectPassed, BeginsNoCommit, workers
    <3>. QED
      BY <3>1, <3>2, SafeStep
  <2>. QED
    BY <2>1, <2>2
<1>4. CASE DirectCommits(t)
  <2> DEFINE row == [task[t] EXCEPT !.status = "completed", !.result = DirectResult(direct[t].sub)]
  <2>1. task' = [task EXCEPT ![t] = row]
    BY <1>4 DEF DirectCommits
  <2>2. ~task[t].cancel
    BY <1>4 DEF DirectCommits, Safety, RowsSafe, CommitsHold, Taken
  <2>3. row.status = "completed" /\ ~row.cancel /\ row.result = DirectResult(direct[t].sub)
    BY <1>0, <2>2 DEF Row
  <2>4. AllPassed(DirectResult(direct[t].sub))
    BY DEF AllPassed, DirectResult, NoResult
  <2>5. RowSafe(row) /\ Taken(row)
    BY <2>3, <2>4 DEF RowSafe, Taken
  <2>. HIDE DEF row
  <2>6. \A u \in Tasks : task'[u] = IF u = t THEN row ELSE task[u]
    BY <1>0, <2>1
  <2>7. run' = run /\ \A u \in Tasks : direct'[u].pc = "commit" => direct[u].pc = "commit"
    BY <1>0, <1>4 DEF DirectCommits, workers
  <2>8. \A r \in Jobs : TaskOf(r) \in Tasks
    BY DEF Jobs, TaskOf
  <2>. QED
    BY <2>5, <2>6, <2>7, <2>8 DEF Safety, RowsSafe, CommitsHold
<1>5. CASE DirectFailed(t)
  <2>1. WritesSafely
    BY <1>0, <1>5 DEF DirectFailed, WritesSafely, Unlocked
  <2>2. BeginsNoCommit
    BY <1>0, <1>5 DEF DirectFailed, BeginsNoCommit, workers
  <2>. QED
    BY <2>1, <2>2, SafeStep
<1>6. CASE DirectActivate(t)
  <2>1. WritesSafely /\ BeginsNoCommit
    BY <1>0, <1>6 DEF DirectActivate, WritesSafely, BeginsNoCommit, workers
  <2>. QED
    BY <2>1, SafeStep
<1>7. CASE DirectCrash(t)
  <2>1. WritesSafely /\ BeginsNoCommit
    BY <1>0, <1>7 DEF DirectCrash, WritesSafely, BeginsNoCommit, rows, workers
  <2>. QED
    BY <2>1, SafeStep
<1>. QED
  BY <1>1, <1>2, <1>3, <1>4, <1>5, <1>6, <1>7 DEF DirectStep

\* The passing of time writes safely.
LEMMA LeaseExpiresSafe ==
  ASSUME Safety, NEW t \in Tasks, LeaseExpires(t)
  PROVE  RowsSafe'
<1>1. task \in [Tasks -> Row] /\ task[t] \in Row
  BY DEF Safety, TypeOK
<1>2. /\ task'[t].status = task[t].status /\ task'[t].cancel = task[t].cancel
      /\ task'[t].result = task[t].result
  BY <1>1 DEF LeaseExpires, Row
<1>3. \A u \in Tasks : u # t => task'[u] = task[u]
  BY <1>1 DEF LeaseExpires
<1>4. \A u \in Tasks : /\ RowSafe(task[u]) => RowSafe(task'[u])
                       /\ Taken(task[u]) => Taken(task'[u])
  BY <1>2, <1>3 DEF RowSafe, Taken
<1>5. UNCHANGED <<run, direct>> /\ \A r \in Jobs : TaskOf(r) \in Tasks
  BY DEF LeaseExpires, workers, Jobs, TaskOf
<1>. QED
  BY <1>4, <1>5 DEF Safety, RowsSafe, CommitsHold

\* A run that writes one safe row writes safely.
LEMMA RunWritesSafe ==
  ASSUME Safety, NEW r \in Jobs, NEW row, NEW state, UNCHANGED direct,
         \/ task' = task
         \/ /\ task' = [task EXCEPT ![TaskOf(r)] = row]
            /\ RowSafe(row) /\ ~Locked(TaskOf(r)),
         \/ RunGoes(r, state) /\ state.pc # "commit"
         \/ RunReturns(r)
         \/ RunRaises(r)
  PROVE  RowsSafe'
<1>1. WritesSafely
  BY DEF WritesSafely, Safety, TypeOK
<1>2. FreeRun.pc # "commit"
  BY DEF FreeRun
<1>3. BeginsNoCommit
  BY <1>2 DEF BeginsNoCommit, RunGoes, RunReturns, RunRaises, Safety, TypeOK
<1>. QED
  BY <1>1, <1>3, SafeStep

\* Releasing the lease leaves status, stop request and result alone.
LEMMA ReleasedKeeps ==
  ASSUME NEW row \in Row, NEW r
  PROVE  /\ Released(row, r) \in Row
         /\ Released(row, r).status = row.status
         /\ Released(row, r).cancel = row.cancel
         /\ Released(row, r).result = row.result
<1>1. Released(row, r) \in Row
  BY ReleasedType
<1>. QED
  BY <1>1 DEF Released, Row

\* A commit of complete_task keeps the invariant: what it decided still holds.
LEMMA RunCommitsSafe ==
  ASSUME Safety, NEW r \in Jobs, RunCommits(r)
  PROVE  RowsSafe'
<1> DEFINE t == TaskOf(r)
           row == [Released(task[t], r) EXCEPT !.status = "completed", !.result = FinalResult(r)]
<1>1. /\ task \in [Tasks -> Row] /\ t \in Tasks /\ task[t] \in Row
      /\ run \in [Jobs -> RunState] /\ run[r] \in RunState /\ run[r].work \in Result
  BY RunType DEF Safety, TypeOK
<1>2. task' = [task EXCEPT ![t] = row] /\ UNCHANGED direct
  BY DEF RunCommits
<1>3. ~task[t].cancel /\ AllPassed(run[r].work)
  BY DEF RunCommits, Safety, RowsSafe, CommitsHold, Taken
<1>4. AllPassed(FinalResult(r))
  BY <1>1, <1>3 DEF FinalResult, AllPassed, Result
<1>5. row.status = "completed" /\ ~row.cancel /\ row.result = FinalResult(r)
  BY <1>1, <1>3, ReleasedKeeps DEF Row
<1>6. RowSafe(row) /\ Taken(row)
  BY <1>4, <1>5 DEF RowSafe, Taken
<1>. HIDE DEF row
<1>7. \A u \in Tasks : task'[u] = IF u = t THEN row ELSE task[u]
  BY <1>1, <1>2
<1>8. \A q \in Jobs : run'[q].pc = "commit" => run'[q] = run[q]
  <2>1. FreeRun.pc # "commit" /\ [run[r] EXCEPT !.pc = "activate"].pc # "commit"
    BY <1>1 DEF FreeRun, RunState
  <2>. QED
    BY <1>1, <2>1 DEF RunCommits, RunGoes, RunReturns
<1>9. \A q \in Jobs : TaskOf(q) \in Tasks
  BY DEF Jobs, TaskOf
<1>. QED
  BY <1>2, <1>6, <1>7, <1>8, <1>9 DEF Safety, RowsSafe, CommitsHold

\* Entering the commit establishes what the commit relies on.
LEMMA RunCompletesSafe ==
  ASSUME Safety, NEW r \in Jobs, RunCompletes(r)
  PROVE  RowsSafe'
<1> DEFINE state == [run[r] EXCEPT !.pc = "commit",
                                   !.next = CompletedPhase(TaskOf(r), run[r].phase)]
<1>1. run \in [Jobs -> RunState] /\ run[r] \in RunState
  BY RunType DEF Safety, TypeOK
<1>2. /\ UNCHANGED <<task, direct>> /\ run' = [run EXCEPT ![r] = state]
      /\ Taken(task[TaskOf(r)]) /\ AllPassed(run[r].work)
  BY DEF RunCompletes, RunGoes, rows
<1>3. state.work = run[r].work
  BY <1>1 DEF RunState
<1>. HIDE DEF state
<1>4. \A q \in Jobs : run'[q] = IF q = r THEN state ELSE run[q]
  BY <1>1, <1>2
<1>. QED
  BY <1>2, <1>3, <1>4 DEF Safety, RowsSafe, CommitsHold

\* Every step of a run keeps the invariant.
LEMMA RunStepSafe ==
  ASSUME Safety, NEW r \in Jobs, RunStep(r) \/ MonitorStep(r)
  PROVE  RowsSafe'
<1> DEFINE t == TaskOf(r)
<1>0. /\ task \in [Tasks -> Row] /\ t \in Tasks /\ task[t] \in Row /\ RowSafe(task[t])
      /\ run[r] \in RunState /\ run[r].work \in Result
  BY RunType DEF Safety, RowsSafe, TypeOK
<1>1. \A pc : [run[r] EXCEPT !.pc = pc].pc = pc
  BY <1>0 DEF RunState
<1>2. \A pc : Loaded(r, pc).pc = pc
  BY <1>0 DEF Loaded, RunState
<1>3. CASE RunBegin(r)
  <2>1. /\ UNCHANGED <<task, direct>>
        /\ \/ RunReturns(r)
           \/ \E pc \in {"refresh", "scan", "reject"} : RunGoes(r, Loaded(r, pc))
    BY <1>3 DEF RunBegin, rows
  <2>. QED
    BY <1>2, <2>1, RunWritesSafe
<1>4. CASE RunReject(r)
  <2> DEFINE row == [Released(task[t], r) EXCEPT
                       !.status = "failed", !.result = [run[r].work EXCEPT !.state = "failed"]]
  <2>1. RowSafe(row)
    BY <1>0, ReleasedType DEF Row, RowSafe
  <2>. QED
    BY <1>1, <1>4, <2>1, RunWritesSafe DEF RunReject, Unlocked
<1>5. ASSUME NEW g \in Targets, NEW verdict \in {"ok", "bad"}, TargetDone(r, g, verdict)
      PROVE  RowsSafe'
  <2> DEFINE work == [run[r].work EXCEPT
                        !.state = "running",
                        !.assets[g] = [verdict |-> verdict, sub |-> run[r].work.sub]]
             state == [run[r] EXCEPT
                         !.work = work,
                         !.pc = IF Pending(work) = {} THEN "refresh" ELSE "scan",
                         !.renewing = IF Pending(work) = {} THEN FALSE ELSE @]
             row == [task[t] EXCEPT !.result = work]
  <2>1. \/ MayCheckpoint(r) /\ task' = [task EXCEPT ![t] = row] /\ RunGoes(r, state)
        \/ task' = task /\ RunReturns(r)
    BY <1>5 DEF TargetDone
  <2>2. UNCHANGED direct /\ ~Locked(t)
    BY <1>5 DEF TargetDone, Unlocked
  <2>. HIDE DEF work
  <2>3. MayCheckpoint(r) => RowSafe(row)
    BY <1>0 DEF MayCheckpoint, RowSafe, Row
  <2>4. state.pc # "commit"
    BY <1>0 DEF RunState
  <2>. HIDE DEF state, row
  <2>. QED
    BY <2>1, <2>2, <2>3, <2>4, RunWritesSafe
<1>6. CASE RunRefresh(r)
  <2>1. Loaded(r, "finish") \in RunState
    BY LoadedType DEF RunPc, Safety
  <2>2. [Loaded(r, "finish") EXCEPT !.work = run[r].work, !.phase = run[r].phase].pc # "commit"
    BY <1>2, <2>1 DEF RunState
  <2>. QED
    BY <1>6, <2>2, RunWritesSafe DEF RunRefresh, rows
<1>7. CASE RunCompletes(r)
  BY <1>7, RunCompletesSafe
<1>8. CASE RunCommits(r)
  BY <1>8, RunCommitsSafe
<1>9. CASE RunStoppedLate(r)
  BY <1>9, RunWritesSafe DEF RunStoppedLate, rows
<1>10. CASE RunFails(r)
  <2>1. RowSafe([task[t] EXCEPT !.status = "failed", !.result = FinalResult(r),
                                !.owner = NoWorker, !.lease = "none"])
    BY <1>0 DEF Row, RowSafe
  <2>2. RowSafe(Released(task[t], r))
    BY <1>0, ReleasedKeeps DEF RowSafe
  <2>3. PICK row : task' = [task EXCEPT ![t] = row] /\ RowSafe(row)
    BY <1>10, <2>1, <2>2 DEF RunFails
  <2>. QED
    BY <1>1, <1>10, <2>3, RunWritesSafe DEF RunFails, Unlocked
<1>11. CASE RunReconciles(r)
  <2>1. /\ UNCHANGED <<task, direct>>
        /\ RunGoes(r, [run[r] EXCEPT !.pc = "activate"]) \/ RunReturns(r)
    BY <1>11 DEF RunReconciles
  <2>. QED
    BY <1>1, <2>1, RunWritesSafe
<1>12. CASE RunActivates(r)
  BY <1>12, RunWritesSafe DEF RunActivates
<1>13. CASE MonitorRead(r)
  <2>1. run[r].pc # "commit" /\ [run[r] EXCEPT !.renewing = TRUE].pc # "commit"
    BY <1>0, <1>13 DEF MonitorRead, RunState
  <2>. QED
    BY <1>13, <2>1, RunWritesSafe DEF MonitorRead, rows
<1>14. CASE MonitorRenew(r)
  <2>1. [run[r] EXCEPT !.renewing = FALSE].pc # "commit"
    BY <1>0, <1>14 DEF MonitorRenew, RunState
  <2>2. RowSafe([task[t] EXCEPT !.lease = "live"])
    BY <1>0 DEF RowSafe, Row
  <2>3. task' = [task EXCEPT ![t] = [task[t] EXCEPT !.lease = "live"]]
    BY <1>14 DEF MonitorRenew
  <2>. QED
    BY <1>14, <2>1, <2>2, <2>3, RunWritesSafe DEF MonitorRenew, Unlocked
<1>. QED
  BY <1>3, <1>4, <1>5, <1>6, <1>7, <1>8, <1>9, <1>10, <1>11, <1>12, <1>13, <1>14
     DEF RunStep, MonitorStep

\* Safety is an invariant of the specification.
LEMMA SafetyInvariant == Spec => []Safety
<1>1. Init => Safety
  <2>1. Init => RowsSafe
    BY BlankRowSafe DEF Init, RowsSafe, CommitsHold, FreeRun, IdleDirect
  <2>. QED
    BY <2>1, TypeInit DEF Safety
<1>2. Safety /\ [Next]_vars => Safety'
  <2> SUFFICES ASSUME Safety, [Next]_vars
               PROVE  RowsSafe'
    BY TypeStep DEF Safety
  <2>1. CASE UNCHANGED vars
    BY <2>1 DEF vars, Safety, RowsSafe, CommitsHold, Taken
  <2>2. ASSUME NEW t \in Tasks, TaskRequest(t) \/ DirectStep(t) \/ LeaseExpires(t)
        PROVE  RowsSafe'
    BY <2>2, TaskRequestSafe, DirectStepSafe, LeaseExpiresSafe, SafeStep
  <2>3. ASSUME NEW p \in Phases, PhaseRequest(p)
        PROVE  RowsSafe'
    BY <2>3, PhaseRequestSafe, SafeStep
  <2>4. CASE Migrate
    <3>1. 1 \in Phases
      BY DEF Phases
    <3>. QED
      BY <2>4, <3>1, PhaseRequestSafe, SafeStep
  <2>5. ASSUME NEW w \in Workers, PollRead(w) \/ PollCommit(w) \/ WorkerCrash(w)
        PROVE  RowsSafe'
    BY <2>5, PollSafe, SafeStep
  <2>6. ASSUME NEW r \in Jobs, RunStep(r) \/ MonitorStep(r)
        PROVE  RowsSafe'
    BY <2>6, RunStepSafe
  <2>. QED
    BY <2>1, <2>2, <2>3, <2>4, <2>5, <2>6 DEF Next, WorkerNext
<1>. QED
  BY <1>1, <1>2, PTL DEF Spec

\* A stop is final for any number of workers, runs and requests: the conditional
\* UPDATEs of the worker and the checks of complete_task suffice, although the
\* exhausted, rejected and /execute paths write the row without looking at it.
THEOREM StopFinal == Spec => []StopIsFinal
<1>1. Safety => StopIsFinal
  BY DEF Safety, RowsSafe, RowSafe, StopIsFinal
<1>. QED
  BY <1>1, SafetyInvariant, PTL

\* What complete_task decided still holds when it commits.
THEOREM CommitsSound == Spec => []CommitsHold
<1>1. Safety => CommitsHold
  BY DEF Safety, RowsSafe
<1>. QED
  BY <1>1, SafetyInvariant, PTL

\* A completed task is covered: every target of it has a passing result, whatever
\* runs of earlier leases and executions wrote in between.
THEOREM CompletedCovered == Spec => []CompletedIsCovered
<1>1. Safety => CompletedIsCovered
  BY DEF Safety, RowsSafe, RowSafe, CompletedIsCovered
<1>. QED
  BY <1>1, SafetyInvariant, PTL

-----------------------------------------------------------------------------
(* The migration.                                                           *)

\* The repaired phases are in order, and repairing them again changes nothing.
LEMMA RepairRestoresOrder ==
  ASSUME NEW tasks, NEW phases \in [Phases -> PhaseStatus]
  PROVE  LET repaired == RepairedPhases(tasks, phases)
         IN  InOrder(repaired) /\ RepairedPhases(tasks, repaired) = repaired
<1> DEFINE recomputed == [p \in Phases |-> RecomputedPhase(tasks, p, phases[p])]
           repaired == RepairedPhases(tasks, phases)
           again == [p \in Phases |-> RecomputedPhase(tasks, p, repaired[p])]
<1>1. repaired = [p \in Phases |-> IF PriorDone(recomputed, p) THEN recomputed[p] ELSE "pending"]
  BY DEF RepairedPhases
<1>2. \A p, q \in Phases : q < p /\ PriorDone(recomputed, p) => PriorDone(recomputed, q)
  BY DEF PriorDone, Phases
<1>3. \A p, q \in Phases :
        q < p /\ PriorDone(recomputed, p) => recomputed[q] = "completed" /\ repaired[q] = "completed"
  BY <1>1, <1>2 DEF PriorDone
<1>. HIDE DEF repaired
<1>4. InOrder(repaired)
  BY <1>1, <1>3 DEF InOrder, PriorDone
<1>5. \A p \in Phases : RecomputedPhase(tasks, p, recomputed[p]) = recomputed[p]
  BY DEF RecomputedPhase
<1>6. \A p \in Phases : again[p] # recomputed[p] => ~PriorDone(recomputed, p)
  BY <1>1, <1>5
<1>7. \A p \in Phases : again[p] = "completed" => recomputed[p] = "completed"
  BY <1>1, <1>5 DEF RecomputedPhase
<1>8. \A p \in Phases : PriorDone(again, p) <=> PriorDone(recomputed, p)
  <2> SUFFICES ASSUME NEW p \in Phases
               PROVE  PriorDone(again, p) <=> PriorDone(recomputed, p)
    OBVIOUS
  <2>1. ASSUME PriorDone(again, p)
        PROVE  PriorDone(recomputed, p)
    BY <2>1, <1>7 DEF PriorDone
  <2>2. ASSUME PriorDone(recomputed, p)
        PROVE  PriorDone(again, p)
    BY <2>2, <1>2, <1>6 DEF PriorDone
  <2>. QED
    BY <2>1, <2>2
<1>9. RepairedPhases(tasks, repaired)
        = [p \in Phases |-> IF PriorDone(again, p) THEN again[p] ELSE "pending"]
  BY DEF RepairedPhases
<1>10. \A p \in Phases : PriorDone(recomputed, p) => again[p] = repaired[p]
  BY <1>1, <1>6
<1>. HIDE DEF again, recomputed
<1>11. RepairedPhases(tasks, repaired) = repaired
  BY <1>1, <1>8, <1>9, <1>10
<1>. QED
  BY <1>4, <1>11 DEF repaired

\* Whatever order the phases are in, reconcile_all_assessment_progress leaves no
\* phase open behind an unfinished one, and a second pass changes nothing.
THEOREM MigrationOrders == Spec => MigrationRestoresOrder
<1>1. TypeOK /\ [Next]_vars
        => [Migrate => InOrder(phase') /\ RepairedPhases(task, phase') = phase']_vars
  <2> SUFFICES ASSUME TypeOK, Migrate
               PROVE  InOrder(phase') /\ RepairedPhases(task, phase') = phase'
    OBVIOUS
  <2>1. phase \in [Phases -> PhaseStatus] /\ phase' = RepairedPhases(task, phase)
    BY DEF TypeOK, Migrate
  <2>. QED
    BY <2>1, RepairRestoresOrder
<1>. QED
  BY <1>1, TypeCorrect, PTL DEF Spec, MigrationRestoresOrder

-----------------------------------------------------------------------------
(* Results are never mixed.                                                 *)

Separate == TypeOK /\ ResultsUnmixed

\* A result without checkpoints, and one of a single execution, is unmixed.
LEMMA FreshUnmixed ==
  /\ Unmixed(NoResult)
  /\ \A s \in Subs : Unmixed(DirectResult(s))
BY NoResultType DEF Unmixed, NoResult, Nothing, NoAssetResult, DirectResult

\* Only the state and the attempt counter of a result change.
LEMMA RelabelledUnmixed ==
  ASSUME NEW result \in Result, NEW other, Unmixed(result),
         other.assets = result.assets, other.sub = result.sub
  PROVE  Unmixed(other)
BY DEF Unmixed

\* A reset, failed, queued, stopped or started row mixes nothing.
LEMMA RowsUnmixed ==
  ASSUME NEW row \in Row
  PROVE  /\ Unmixed(BlankRow.result)
         /\ Unmixed(FailedByHandler(row).result)
         /\ \A s \in Subs : Unmixed(QueuedRow(row, s).result)
         /\ Unmixed(row.result) => Unmixed(StoppedRow(row).result)
         /\ StartedRow(row).result = row.result
<1>1. row.result \in Result
  BY DEF Row
<1>2. Unmixed(BlankRow.result) /\ Unmixed(FailedByHandler(row).result)
  BY FreshUnmixed DEF BlankRow, FailedByHandler, Row
<1>3. ASSUME NEW s \in Subs
      PROVE  Unmixed(QueuedRow(row, s).result)
  <2>1. QueuedRow(row, s).result.assets = Nothing
    BY DEF QueuedRow, StartedRow, Row
  <2>. QED
    BY <2>1 DEF Unmixed, Nothing, NoAssetResult
<1>4. /\ StoppedRow(row).result.assets = row.result.assets
      /\ StoppedRow(row).result.sub = row.result.sub
  BY <1>1 DEF StoppedRow, Row, Result
<1>5. StartedRow(row).result = row.result
  BY DEF StartedRow, Row
<1>. QED
  BY <1>1, <1>2, <1>3, <1>4, <1>5, RelabelledUnmixed

\* A claimed row and a row given up hold a result that was unmixed when the poll read it.
LEMMA PolledRowsUnmixed ==
  ASSUME NEW row \in Row, NEW read \in Row, NEW w, Unmixed(read.result)
  PROVE  /\ Unmixed(ClaimedRow(row, read, w).result)
         /\ Unmixed(ExhaustedRow(row, read).result)
<1>1. read.result \in Result
  BY DEF Row
<1>2. /\ ClaimedRow(row, read, w).result.assets = read.result.assets
      /\ ClaimedRow(row, read, w).result.sub = read.result.sub
  BY <1>1 DEF ClaimedRow, Row, Result
<1>3. /\ ExhaustedRow(row, read).result.assets = read.result.assets
      /\ ExhaustedRow(row, read).result.sub = read.result.sub
  BY <1>1 DEF ExhaustedRow, Row, Result
<1>. QED
  BY <1>1, <1>2, <1>3, RelabelledUnmixed

\* A step that writes unmixed results into rows and leaves polls and runs alone.
LEMMA UserStepUnmixed ==
  ASSUME Separate, NEW t \in Tasks, TaskRequest(t) \/ DirectStep(t) \/ LeaseExpires(t)
  PROVE  ResultsUnmixed'
<1>0. /\ task \in [Tasks -> Row] /\ task[t] \in Row /\ subs[t] \in Subs
      /\ direct[t] \in DirectState /\ direct[t].sub \in Subs
      /\ \A u \in Tasks : Unmixed(task[u].result)
  BY DEF Separate, TypeOK, ResultsUnmixed, DirectState
<1>1. ASSUME NEW tasks \in [Tasks -> Row], NEW row,
             \A u \in Tasks : Unmixed(tasks[u].result),
             Unmixed(row.result),
             task' = [tasks EXCEPT ![t] = row] \/ task' = tasks,
             UNCHANGED workers
      PROVE  ResultsUnmixed'
  BY <1>1 DEF Separate, ResultsUnmixed, workers
<1>2. \A blanked : /\ BlankedTasks(task, blanked) \in [Tasks -> Row]
                   /\ \A u \in Tasks : Unmixed(BlankedTasks(task, blanked)[u].result)
  <2>1. Unmixed(BlankRow.result)
    BY FreshUnmixed DEF BlankRow
  <2>. QED
    BY <1>0, <2>1, BlankedTasksType DEF BlankedTasks
<1>3. \A tasks \in [Tasks -> Row] : Unmixed(FailedByHandler(tasks[t]).result)
  BY RowsUnmixed
<1>4. CASE StartTask(t) \/ RerunTask(t)
  <2> DEFINE tasks == IF StartTask(t) \/ task[t].status = "todo" THEN task ELSE ResetTasks(task, t)
  <2>1. tasks \in [Tasks -> Row] /\ \A u \in Tasks : Unmixed(tasks[u].result)
    BY <1>0, <1>2 DEF ResetTasks
  <2>2. /\ \/ subs[t] < MaxSubs /\ task' = [tasks EXCEPT ![t] = QueuedRow(@, subs[t] + 1)]
           \/ task' = tasks
        /\ UNCHANGED workers
    BY <1>4 DEF StartTask, RerunTask, Submit
  <2>. HIDE DEF tasks
  <2>3. subs[t] < MaxSubs => Unmixed(QueuedRow(tasks[t], subs[t] + 1).result)
    <3>1. subs[t] < MaxSubs => subs[t] + 1 \in Subs
      BY <1>0 DEF Subs
    <3>. QED
      BY <2>1, <3>1, RowsUnmixed
  <2>4. CASE subs[t] < MaxSubs /\ task' = [tasks EXCEPT ![t] = QueuedRow(@, subs[t] + 1)]
    BY <1>1, <2>1, <2>2, <2>3, <2>4
  <2>5. CASE task' = tasks
    BY <1>0, <1>1, <2>1, <2>2, <2>5
  <2>. QED
    BY <2>2, <2>4, <2>5
<1>5. CASE StopTask(t)
  <2>1. Unmixed(StoppedRow(task[t]).result)
    BY <1>0, RowsUnmixed
  <2>. QED
    BY <1>0, <1>1, <1>5, <2>1 DEF StopTask
<1>6. CASE ResetTask(t)
  BY <1>0, <1>1, <1>2, <1>6 DEF ResetTask, ResetTasks
<1>7. CASE SkipTask(t)
  <2>1. task' = [task EXCEPT ![t] = [task[t] EXCEPT !.status = "cancelled"]] /\ UNCHANGED workers
    BY <1>7 DEF SkipTask
  <2>2. [task[t] EXCEPT !.status = "cancelled"].result = task[t].result
    BY <1>0 DEF Row
  <2>. QED
    BY <1>0, <1>1, <2>1, <2>2
<1>8. CASE DirectBegin(t) \/ DirectRefused(t)
  <2>1. PICK tasks \in [Tasks -> Row] :
          /\ \A u \in Tasks : Unmixed(tasks[u].result)
          /\ \/ task' = [tasks EXCEPT ![t] = StartedRow(@)]
             \/ task' = [tasks EXCEPT ![t] = FailedByHandler(@)]
          /\ UNCHANGED workers
    BY <1>0, <1>2, <1>8 DEF DirectBegin, DirectRefused
  <2>2. StartedRow(tasks[t]).result = tasks[t].result
    BY <2>1, RowsUnmixed
  <2>. QED
    BY <1>1, <1>3, <2>1, <2>2
<1>9. CASE DirectPassed(t) \/ DirectFailed(t)
  <2>1. task' = [task EXCEPT ![t] = FailedByHandler(@)] \/ task' = task
    BY <1>9 DEF DirectPassed, DirectFailed
  <2>2. UNCHANGED workers
    BY <1>9 DEF DirectPassed, DirectFailed
  <2>. QED
    BY <1>0, <1>1, <1>3, <2>1, <2>2
<1>10. CASE DirectCommits(t)
  <2> DEFINE row == [task[t] EXCEPT !.status = "completed", !.result = DirectResult(direct[t].sub)]
  <2>1. row.result = DirectResult(direct[t].sub)
    BY <1>0 DEF Row
  <2>2. Unmixed(row.result)
    BY <1>0, <2>1, FreshUnmixed
  <2>3. task' = [task EXCEPT ![t] = row] /\ UNCHANGED workers
    BY <1>10 DEF DirectCommits
  <2>. QED
    BY <1>0, <1>1, <2>2, <2>3
<1>11. CASE DirectActivate(t) \/ DirectCrash(t)
  BY <1>0, <1>1, <1>11 DEF DirectActivate, DirectCrash, rows
<1>12. CASE LeaseExpires(t)
  <2>1. task' = [task EXCEPT ![t] = [task[t] EXCEPT !.lease = "expired"]] /\ UNCHANGED workers
    BY <1>12 DEF LeaseExpires
  <2>2. [task[t] EXCEPT !.lease = "expired"].result = task[t].result
    BY <1>0 DEF Row
  <2>. QED
    BY <1>0, <1>1, <2>1, <2>2
<1>. QED
  BY <1>4, <1>5, <1>6, <1>7, <1>8, <1>9, <1>10, <1>11, <1>12 DEF TaskRequest, DirectStep

\* Requests on phases mix nothing.
LEMMA PhaseStepUnmixed ==
  ASSUME Separate, NEW p \in Phases, PhaseRequest(p) \/ Migrate
  PROVE  ResultsUnmixed'
<1>1. UNCHANGED workers
  BY DEF PhaseRequest, ActivatePhase, CompletePhase, ReopenPhase, ResetPhase, Migrate
<1>2. \A t \in Tasks : Unmixed(task'[t].result)
  <2>1. task' = task \/ task' = BlankedTasks(task, TasksFrom(p))
    BY DEF PhaseRequest, ActivatePhase, CompletePhase, ReopenPhase, ResetPhase, Migrate
  <2>2. Unmixed(BlankRow.result)
    BY FreshUnmixed DEF BlankRow
  <2>. QED
    BY <2>1, <2>2 DEF BlankedTasks, Separate, ResultsUnmixed
<1>. QED
  BY <1>1, <1>2 DEF ResultsUnmixed, Separate, workers

\* Neither half of a poll mixes results.
LEMMA PollStepUnmixed ==
  ASSUME Separate, NEW w \in Workers, PollRead(w) \/ PollCommit(w) \/ WorkerCrash(w)
  PROVE  ResultsUnmixed'
<1>0. Unmixed(BlankRow.result) /\ Unmixed(FreeRun.work)
      /\ [FreeRun EXCEPT !.pc = "begin"].work = FreeRun.work
  BY FreshUnmixed DEF BlankRow, FreeRun
<1>1. CASE PollRead(w)
  BY <1>0, <1>1 DEF PollRead, Separate, TypeOK, ResultsUnmixed, rows
<1>2. CASE PollCommit(w)
  <2>1. ASSUME NEW t \in Tasks
        PROVE  Unmixed(task'[t].result)
    <3>1. task[t] \in Row /\ seen[w][t] \in Row /\ Unmixed(task[t].result)
          /\ Unmixed(seen[w][t].result)
      BY DEF Separate, TypeOK, ResultsUnmixed
    <3>. QED
      BY <1>2, <3>1, PolledRowsUnmixed DEF PollCommit
  <2>2. \A r \in Jobs : Unmixed(run'[r].work)
    BY <1>0, <1>2 DEF PollCommit, Separate, ResultsUnmixed
  <2>3. \A v \in Workers : \A t \in Tasks : Unmixed(seen'[v][t].result)
    BY <1>0, <1>2 DEF PollCommit, Separate, TypeOK, ResultsUnmixed
  <2>. QED
    BY <2>1, <2>2, <2>3 DEF ResultsUnmixed
<1>3. CASE WorkerCrash(w)
  BY <1>0, <1>3 DEF WorkerCrash, Separate, TypeOK, ResultsUnmixed, rows
<1>. QED
  BY <1>1, <1>2, <1>3

\* A run that writes an unmixed result mixes nothing.
LEMMA RunWritesUnmixed ==
  ASSUME Separate, NEW r \in Jobs, NEW row, NEW state,
         task' = task \/ (task' = [task EXCEPT ![TaskOf(r)] = row] /\ Unmixed(row.result)),
         \/ RunGoes(r, state) /\ Unmixed(state.work)
         \/ RunReturns(r)
         \/ RunRaises(r)
  PROVE  ResultsUnmixed'
<1>1. \A t \in Tasks : Unmixed(task'[t].result)
  BY DEF Separate, TypeOK, ResultsUnmixed
<1>2. Unmixed(FreeRun.work)
  BY FreshUnmixed DEF FreeRun
<1>3. \A q \in Jobs : Unmixed(run'[q].work)
  BY <1>2 DEF RunGoes, RunReturns, RunRaises, Separate, TypeOK, ResultsUnmixed
<1>4. seen' = seen
  BY DEF RunGoes, RunReturns, RunRaises
<1>. QED
  BY <1>1, <1>3, <1>4 DEF ResultsUnmixed, Separate

\* No step of a run mixes results: a checkpoint belongs to the execution of its copy.
LEMMA RunStepUnmixed ==
  ASSUME Separate, NEW r \in Jobs, RunStep(r) \/ MonitorStep(r)
  PROVE  ResultsUnmixed'
<1> DEFINE t == TaskOf(r)
<1>0. /\ t \in Tasks /\ task[t] \in Row /\ Unmixed(task[t].result)
      /\ run[r] \in RunState /\ run[r].work \in Result /\ Unmixed(run[r].work)
  BY RunType DEF Separate, ResultsUnmixed
<1>1. \A pc, next : /\ [run[r] EXCEPT !.pc = pc].work = run[r].work
                    /\ [run[r] EXCEPT !.pc = pc, !.next = next].work = run[r].work
                    /\ [run[r] EXCEPT !.renewing = next].work = run[r].work
  BY <1>0 DEF RunState
<1>2. \A pc : Loaded(r, pc).work = task[t].result
  BY <1>0 DEF Loaded, RunState
<1>3. Unmixed(FinalResult(r))
  BY <1>0, RelabelledUnmixed DEF FinalResult, Result
<1>4. Unmixed([run[r].work EXCEPT !.state = "failed"])
  BY <1>0, RelabelledUnmixed DEF Result
<1>5. Released(task[t], r) \in Row /\ Released(task[t], r).result = task[t].result
  BY <1>0, ReleasedKeeps
<1>6. CASE RunBegin(r)
  <2>1. task' = task /\ (RunReturns(r) \/ \E pc \in RunPc : RunGoes(r, Loaded(r, pc)))
    BY <1>6 DEF RunBegin, rows, RunPc
  <2>. QED
    BY <1>0, <1>2, <2>1, RunWritesUnmixed
<1>7. CASE RunReject(r)
  <2> DEFINE row == [Released(task[t], r) EXCEPT
                       !.status = "failed", !.result = [run[r].work EXCEPT !.state = "failed"]]
  <2>1. row.result = [run[r].work EXCEPT !.state = "failed"]
    BY <1>5 DEF Row
  <2>2. /\ task' = [task EXCEPT ![t] = row]
        /\ RunGoes(r, [run[r] EXCEPT !.pc = "reconcile"])
    BY <1>7 DEF RunReject
  <2>3. Unmixed(row.result) /\ Unmixed([run[r] EXCEPT !.pc = "reconcile"].work)
    BY <1>0, <1>1, <1>4, <2>1
  <2>. HIDE DEF row
  <2>. QED
    BY <2>2, <2>3, RunWritesUnmixed
<1>8. ASSUME NEW g \in Targets, NEW verdict \in {"ok", "bad"}, TargetDone(r, g, verdict)
      PROVE  ResultsUnmixed'
  <2> DEFINE work == [run[r].work EXCEPT
                        !.state = "running",
                        !.assets[g] = [verdict |-> verdict, sub |-> run[r].work.sub]]
             state == [run[r] EXCEPT
                         !.work = work,
                         !.pc = IF Pending(work) = {} THEN "refresh" ELSE "scan",
                         !.renewing = IF Pending(work) = {} THEN FALSE ELSE @]
             row == [task[t] EXCEPT !.result = work]
  <2>1. \/ task' = [task EXCEPT ![t] = row] /\ RunGoes(r, state)
        \/ task' = task /\ RunReturns(r)
    BY <1>8 DEF TargetDone
  <2>2. Unmixed(work)
    BY <1>0 DEF Unmixed, Result
  <2>. HIDE DEF work
  <2>3. row.result = work /\ state.work = work
    BY <1>0 DEF Row, RunState
  <2>. HIDE DEF row, state
  <2>. QED
    BY <2>1, <2>2, <2>3, RunWritesUnmixed
<1>9. CASE RunRefresh(r)
  <2>1. Loaded(r, "finish") \in RunState
    BY LoadedType DEF RunPc, Separate
  <2>2. [Loaded(r, "finish") EXCEPT !.work = run[r].work, !.phase = run[r].phase].work = run[r].work
    BY <2>1 DEF RunState
  <2>. QED
    BY <1>0, <1>9, <2>2, RunWritesUnmixed DEF RunRefresh, rows
<1>10. CASE RunCompletes(r)
  <2>1. task' = task /\ \E next : RunGoes(r, [run[r] EXCEPT !.pc = "commit", !.next = next])
    BY <1>10 DEF RunCompletes, rows
  <2>. QED
    BY <1>0, <1>1, <2>1, RunWritesUnmixed
<1>11. CASE RunCommits(r)
  <2> DEFINE row == [Released(task[t], r) EXCEPT !.status = "completed", !.result = FinalResult(r)]
  <2>1. row.result = FinalResult(r)
    BY <1>5 DEF Row
  <2>2. /\ task' = [task EXCEPT ![t] = row]
        /\ RunGoes(r, [run[r] EXCEPT !.pc = "activate"]) \/ RunReturns(r)
    BY <1>11 DEF RunCommits
  <2>3. Unmixed(row.result) /\ Unmixed([run[r] EXCEPT !.pc = "activate"].work)
    BY <1>0, <1>1, <1>3, <2>1
  <2>. HIDE DEF row
  <2>. QED
    BY <2>2, <2>3, RunWritesUnmixed
<1>12. CASE RunStoppedLate(r) \/ RunActivates(r)
  BY <1>12, RunWritesUnmixed DEF RunStoppedLate, RunActivates, rows
<1>13. CASE RunFails(r)
  <2>1. [task[t] EXCEPT !.status = "failed", !.result = FinalResult(r),
                        !.owner = NoWorker, !.lease = "none"].result = FinalResult(r)
    BY <1>0 DEF Row
  <2>2. PICK row : task' = [task EXCEPT ![t] = row] /\ Unmixed(row.result)
    BY <1>0, <1>3, <1>5, <1>13, <2>1 DEF RunFails
  <2>. QED
    BY <1>0, <1>1, <1>13, <2>2, RunWritesUnmixed DEF RunFails
<1>14. CASE RunReconciles(r)
  <2>1. task' = task /\ (RunGoes(r, [run[r] EXCEPT !.pc = "activate"]) \/ RunReturns(r))
    BY <1>14 DEF RunReconciles
  <2>. QED
    BY <1>0, <1>1, <2>1, RunWritesUnmixed
<1>15. CASE MonitorRead(r)
  BY <1>0, <1>1, <1>15, RunWritesUnmixed DEF MonitorRead, rows
<1>16. CASE MonitorRenew(r)
  <2>1. task' = [task EXCEPT ![t] = [task[t] EXCEPT !.lease = "live"]]
    BY <1>16 DEF MonitorRenew
  <2>2. [task[t] EXCEPT !.lease = "live"].result = task[t].result
    BY <1>0 DEF Row
  <2>. QED
    BY <1>0, <1>1, <1>16, <2>1, <2>2, RunWritesUnmixed DEF MonitorRenew
<1>. QED
  BY <1>6, <1>7, <1>8, <1>9, <1>10, <1>11, <1>12, <1>13, <1>14, <1>15, <1>16
     DEF RunStep, MonitorStep

\* No result ever mixes checkpoints of two executions, although a poll writes back
\* a result it read earlier and a run its own copy of it.
THEOREM NeverMixed == Spec => []ResultsUnmixed
<1>1. Init => ResultsUnmixed
  BY FreshUnmixed DEF Init, ResultsUnmixed, BlankRow, FreeRun
<1>2. TypeOK /\ ResultsUnmixed /\ [Next]_vars => ResultsUnmixed'
  <2> SUFFICES ASSUME Separate, [Next]_vars
               PROVE  ResultsUnmixed'
    BY DEF Separate
  <2>1. CASE UNCHANGED vars
    BY <2>1 DEF vars, Separate, ResultsUnmixed
  <2>2. ASSUME NEW t \in Tasks, TaskRequest(t) \/ DirectStep(t) \/ LeaseExpires(t)
        PROVE  ResultsUnmixed'
    BY <2>2, UserStepUnmixed
  <2>3. ASSUME NEW p \in Phases, PhaseRequest(p)
        PROVE  ResultsUnmixed'
    BY <2>3, PhaseStepUnmixed
  <2>4. CASE Migrate
    <3>1. 1 \in Phases
      BY DEF Phases
    <3>. QED
      BY <2>4, <3>1, PhaseStepUnmixed
  <2>5. ASSUME NEW w \in Workers, PollRead(w) \/ PollCommit(w) \/ WorkerCrash(w)
        PROVE  ResultsUnmixed'
    BY <2>5, PollStepUnmixed
  <2>6. ASSUME NEW r \in Jobs, RunStep(r) \/ MonitorStep(r)
        PROVE  ResultsUnmixed'
    BY <2>6, RunStepUnmixed
  <2>. QED
    BY <2>1, <2>2, <2>3, <2>4, <2>5, <2>6 DEF Next, WorkerNext
<1>. QED
  BY <1>1, <1>2, TypeCorrect, PTL DEF Spec

-----------------------------------------------------------------------------
(* The attempts.  A process whose batch was left by an exception polls while *)
(* a run of its own goes on, and this run writes the counter it loaded.  As  *)
(* long as every run is attended to by its batch, no counter lags behind.    *)

Attended == \A r \in Jobs : run[r].pc # "free" => r \in batch[Host(r)]

Going(row) == row.status = "in_progress" /\ ~row.cancel

\* The row, the copy of a poll that may still claim it, and that of a run which may still
\* write it have counted every launch.
RowCounts == \A t \in Tasks : Going(task[t]) => launches[t] <= task[t].result.attempts
PollCounts ==
  \A w \in Workers : \A t \in polled[w] :
    Claimable(task[t]) => launches[t] <= seen[w][t].result.attempts
RunCounts ==
  \A r \in Jobs :
    run[r].pc = "scan" /\ Going(task[TaskOf(r)]) /\ task[TaskOf(r)].owner = Host(r)
      => launches[TaskOf(r)] <= run[r].work.attempts
CountInv ==
  /\ \A t \in Tasks : launches[t] <= MaxAttempts
  /\ RowCounts /\ PollCounts /\ RunCounts
  /\ \A w \in Workers : polled[w] # {} => batch[w] = {}

\* A row that goes on as it was, has ended, or begins to count.
CalmRow(t) ==
  \/ launches'[t] = 0
  \/ /\ launches'[t] = launches[t]
     /\ Going(task'[t]) =>
          /\ Going(task[t])
          /\ task'[t].result = task[t].result /\ task'[t].owner = task[t].owner
          /\ task'[t].lease = task[t].lease \/ task'[t].lease = "live" \/ \A w \in Workers : polled[w] = {}
CalmRun(r) == run'[r].pc = "scan" => run[r].pc = "scan" /\ run'[r].work = run[r].work
CalmPoll(w) ==
  \/ polled'[w] = {}
  \/ polled'[w] = polled[w] /\ seen'[w] = seen[w] /\ batch'[w] \subseteq batch[w]

\* Numbers compared by the invariant.
Counted ==
  /\ MaxAttempts \in Nat
  /\ \A t \in Tasks : launches[t] \in Nat /\ task[t].result.attempts \in 0 .. MaxAttempts
  /\ \A w \in Workers : /\ polled[w] \subseteq Tasks
                        /\ \A t \in Tasks : seen[w][t].result.attempts \in 0 .. MaxAttempts
  /\ \A r \in Jobs : /\ run[r].work.attempts \in 0 .. MaxAttempts
                     /\ Host(r) \in Workers /\ TaskOf(r) \in Tasks

\* Typed rows, copies and counters can be compared.
LEMMA CountTypes == TypeOK => Counted
<1> SUFFICES ASSUME TypeOK PROVE Counted
  OBVIOUS
<1>1. \A t \in Tasks : launches[t] \in Nat /\ task[t] \in Row
  BY DEF TypeOK
<1>2. \A w \in Workers : polled[w] \subseteq Tasks /\ \A t \in Tasks : seen[w][t] \in Row
  BY DEF TypeOK
<1>3. \A r \in Jobs : run[r] \in RunState /\ Host(r) \in Workers /\ TaskOf(r) \in Tasks
  BY DEF TypeOK, Jobs, Host, TaskOf
<1> QED BY <1>1, <1>2, <1>3 DEF Row, Result, RunState, Counted

\* A calm step keeps the counters.
LEMMA CalmCounts ==
  ASSUME TypeOK, TypeOK', CountInv, \A t \in Tasks : CalmRow(t), \A r \in Jobs : CalmRun(r),
         \A w \in Workers : CalmPoll(w)
  PROVE  CountInv'
<1>0. Counted /\ Counted'
  BY CountTypes, PTL
<1>1. \A t \in Tasks : launches'[t] <= MaxAttempts
  BY <1>0 DEF Counted, CountInv, CalmRow
<1>2. RowCounts'
  <2> SUFFICES ASSUME NEW t \in Tasks, Going(task'[t])
               PROVE  launches'[t] <= task'[t].result.attempts
    BY DEF RowCounts
  <2>1. task'[t].result.attempts \in 0 .. MaxAttempts
    BY <1>0 DEF Counted
  <2> QED BY <2>1 DEF CalmRow, CountInv, RowCounts
<1>3. PollCounts'
  <2> SUFFICES ASSUME NEW w \in Workers, NEW t \in polled'[w], Claimable(task'[t])
               PROVE  launches'[t] <= seen'[w][t].result.attempts
    BY DEF PollCounts
  <2>1. t \in Tasks /\ seen'[w][t].result.attempts \in 0 .. MaxAttempts
    BY <1>0 DEF Counted
  <2>2. t \in polled[w] /\ seen'[w] = seen[w]
    BY DEF CalmPoll
  <2>3. CASE launches'[t] # 0
    <3>1. Claimable(task[t]) /\ launches'[t] = launches[t]
      BY <2>1, <2>2, <2>3 DEF CalmRow, Claimable, Going
    <3> QED BY <2>2, <3>1 DEF CountInv, PollCounts
  <2> QED BY <2>1, <2>3
<1>4. RunCounts'
  <2> SUFFICES ASSUME NEW r \in Jobs, run'[r].pc = "scan", Going(task'[TaskOf(r)]),
                      task'[TaskOf(r)].owner = Host(r)
               PROVE  launches'[TaskOf(r)] <= run'[r].work.attempts
    BY DEF RunCounts
  <2>1. TaskOf(r) \in Tasks /\ run'[r].work.attempts \in 0 .. MaxAttempts
    BY <1>0 DEF Counted
  <2>2. run[r].pc = "scan" /\ run'[r].work = run[r].work
    BY DEF CalmRun
  <2>3. CASE launches'[TaskOf(r)] # 0
    BY <2>1, <2>2, <2>3 DEF CalmRow, CountInv, RunCounts
  <2> QED BY <2>1, <2>3
<1>5. \A w \in Workers : polled'[w] # {} => batch'[w] = {}
  BY DEF CountInv, CalmPoll
<1> QED BY <1>1, <1>2, <1>3, <1>4, <1>5 DEF CountInv

\* Requests and leases are calm.
LEMMA UserStepCalm ==
  ASSUME TypeOK, NEW t \in Tasks, TaskRequest(t) \/ DirectStep(t) \/ LeaseExpires(t)
  PROVE  (\A u \in Tasks : CalmRow(u)) /\ UNCHANGED workers
<1>0. task \in [Tasks -> Row] /\ task[t] \in Row /\ launches \in [Tasks -> Nat]
  BY DEF TypeOK
<1>1. ASSUME NEW row, task' = [task EXCEPT ![t] = row], ~Going(row), UNCHANGED <<workers, launches>>
      PROVE  (\A u \in Tasks : CalmRow(u)) /\ UNCHANGED workers
  BY <1>0, <1>1 DEF CalmRow
<1>2. ASSUME NEW blanked, task' = BlankedTasks(task, blanked), UNCHANGED <<workers, launches>>
      PROVE  (\A u \in Tasks : CalmRow(u)) /\ UNCHANGED workers
  <2>1. ~Going(BlankRow)
    BY DEF Going, BlankRow
  <2> QED BY <1>0, <1>2, <2>1 DEF CalmRow, BlankedTasks
<1>3. ASSUME NEW tasks, NEW row, tasks = task \/ \E blanked : tasks = BlankedTasks(task, blanked),
             task' = [tasks EXCEPT ![t] = row], ~Going(row) \/ launches'[t] = 0,
             UNCHANGED workers, \A u \in Tasks \ {t} : launches'[u] = launches[u],
             launches'[t] \in {0, launches[t]}
      PROVE  (\A u \in Tasks : CalmRow(u)) /\ UNCHANGED workers
  <2>1. ~Going(BlankRow)
    BY DEF Going, BlankRow
  <2>2. \A u \in Tasks : tasks[u] = task[u] \/ tasks[u] = BlankRow
    BY <1>3 DEF BlankedTasks
  <2>3. \A u \in Tasks \ {t} : task'[u] = tasks[u]
    BY <1>0, <1>3 DEF BlankedTasks
  <2>4. task'[t] = row
    BY <1>0, <1>3 DEF BlankedTasks
  <2> QED BY <1>3, <2>1, <2>2, <2>3, <2>4 DEF CalmRow
<1>4. ASSUME NEW row \in Row
      PROVE  ~Going(FailedByHandler(row)) /\ ~Going(StoppedRow(row))
             /\ ~Going([row EXCEPT !.status = "cancelled"])
  BY DEF Going, FailedByHandler, StoppedRow, Row
<1>5. CASE StartTask(t) \/ RerunTask(t)
  <2> DEFINE tasks == IF StartTask(t) \/ task[t].status = "todo" THEN task ELSE ResetTasks(task, t)
  <2>1. tasks = task \/ \E blanked : tasks = BlankedTasks(task, blanked)
    BY DEF ResetTasks
  <2>2. /\ \/ /\ task' = [tasks EXCEPT ![t] = QueuedRow(@, subs[t] + 1)]
              /\ launches' = [launches EXCEPT ![t] = 0]
           \/ task' = tasks /\ launches' = launches
        /\ UNCHANGED workers
    BY <1>5 DEF StartTask, RerunTask, Submit, ghosts
  <2> HIDE DEF tasks
  <2>3. CASE task' = tasks /\ launches' = launches
    <3>1. CASE tasks = task
      BY <2>2, <2>3, <3>1 DEF CalmRow
    <3> QED BY <1>2, <2>1, <2>2, <2>3, <3>1
  <2>4. CASE task' = [tasks EXCEPT ![t] = QueuedRow(@, subs[t] + 1)] /\ launches' = [launches EXCEPT ![t] = 0]
    <3>1. launches'[t] = 0 /\ \A u \in Tasks \ {t} : launches'[u] = launches[u]
      BY <1>0, <2>4
    <3> QED BY <1>3, <2>1, <2>2, <2>4, <3>1
  <2> QED BY <2>2, <2>3, <2>4
<1>6. CASE StopTask(t)
  BY <1>0, <1>1, <1>4, <1>6 DEF StopTask, ghosts
<1>7. CASE ResetTask(t)
  BY <1>2, <1>7 DEF ResetTask, ResetTasks, ghosts
<1>8. CASE SkipTask(t)
  <2>1. task' = [task EXCEPT ![t] = [task[t] EXCEPT !.status = "cancelled"]] /\ UNCHANGED <<workers, launches>>
    BY <1>8 DEF SkipTask, ghosts
  <2> QED BY <1>0, <1>1, <1>4, <2>1
<1>9. CASE DirectBegin(t)
  <2> DEFINE tasks == IF task[t].status # "todo" THEN BlankedTasks(task, {t}) ELSE task
  <2>1. tasks = task \/ \E blanked : tasks = BlankedTasks(task, blanked)
    OBVIOUS
  <2>2. /\ task' = [tasks EXCEPT ![t] = StartedRow(@)] /\ launches' = [launches EXCEPT ![t] = 0]
        /\ UNCHANGED workers
    BY <1>9 DEF DirectBegin
  <2>3. launches'[t] = 0 /\ \A u \in Tasks \ {t} : launches'[u] = launches[u]
    BY <1>0, <2>2
  <2> QED BY <1>3, <2>1, <2>2, <2>3
<1>10. CASE DirectRefused(t)
  <2> DEFINE tasks == IF task[t].status \notin {"todo", "in_progress"} THEN BlankedTasks(task, {t}) ELSE task
  <2>1. tasks = task \/ \E blanked : tasks = BlankedTasks(task, blanked)
    OBVIOUS
  <2>2. task' = [tasks EXCEPT ![t] = FailedByHandler(@)] /\ UNCHANGED <<workers, launches>>
    BY <1>10 DEF DirectRefused, ghosts
  <2>3. tasks[t] \in Row
    BY <1>0, BlankedTasksType
  <2> HIDE DEF tasks
  <2>4. ~Going(FailedByHandler(tasks[t]))
    BY <1>4, <2>3
  <2> QED BY <1>3, <2>1, <2>2, <2>4
<1>11. CASE DirectPassed(t) \/ DirectFailed(t)
  <2>1. task' = [task EXCEPT ![t] = FailedByHandler(@)] \/ task' = task
    BY <1>11 DEF DirectPassed, DirectFailed
  <2>2. UNCHANGED <<workers, launches>>
    BY <1>11 DEF DirectPassed, DirectFailed, ghosts
  <2>3. CASE task' = task
    BY <2>2, <2>3 DEF CalmRow
  <2> QED BY <1>0, <1>1, <1>4, <2>1, <2>2, <2>3
<1>12. CASE DirectCommits(t)
  <2>1. /\ task' = [task EXCEPT ![t] = [task[t] EXCEPT !.status = "completed", !.result = DirectResult(direct[t].sub)]]
        /\ UNCHANGED <<workers, launches>>
    BY <1>12 DEF DirectCommits, ghosts
  <2>2. ~Going([task[t] EXCEPT !.status = "completed", !.result = DirectResult(direct[t].sub)])
    BY <1>0 DEF Going, Row
  <2> QED BY <1>0, <1>1, <2>1, <2>2
<1>13. CASE DirectActivate(t) \/ DirectCrash(t)
  BY <1>0, <1>13 DEF DirectActivate, DirectCrash, rows, ghosts, CalmRow
<1>14. CASE LeaseExpires(t)
  <2>1. /\ task' = [task EXCEPT ![t] = [task[t] EXCEPT !.lease = "expired"]] /\ UNCHANGED <<workers, launches>>
        /\ \A w \in Workers : polled[w] = {}
    BY <1>14 DEF LeaseExpires, ghosts
  <2>2. /\ Going(task'[t]) => Going(task[t])
        /\ task'[t].result = task[t].result /\ task'[t].owner = task[t].owner
    BY <1>0, <2>1 DEF Going, Row
  <2>3. \A u \in Tasks \ {t} : task'[u] = task[u]
    BY <1>0, <2>1
  <2> QED BY <2>1, <2>2, <2>3 DEF CalmRow
<1> QED
  BY <1>5, <1>6, <1>7, <1>8, <1>9, <1>10, <1>11, <1>12, <1>13, <1>14 DEF TaskRequest, DirectStep

\* A request on a phase, and the migration, blank rows or leave them.
LEMMA PhaseStepCalm ==
  ASSUME TypeOK, NEW p \in Phases, PhaseRequest(p) \/ Migrate
  PROVE  (\A u \in Tasks : CalmRow(u)) /\ UNCHANGED workers
<1>1. UNCHANGED workers /\ launches' = launches
  BY DEF PhaseRequest, ActivatePhase, CompletePhase, ReopenPhase, ResetPhase, Migrate, ghosts
<1>2. task' = task \/ task' = BlankedTasks(task, TasksFrom(p))
  BY DEF PhaseRequest, ActivatePhase, CompletePhase, ReopenPhase, ResetPhase, Migrate
<1>3. ~Going(BlankRow)
  BY DEF Going, BlankRow
<1> QED BY <1>1, <1>2, <1>3 DEF CalmRow, BlankedTasks

\* A poll reads rows that have counted their launches, and counts one more when it commits:
\* it has no run of its own then, and another process's claim made the lease live.
LEMMA PollCounted ==
  ASSUME TypeOK, TypeOK', CountInv, Attended, NEW w \in Workers,
         PollRead(w) \/ PollCommit(w) \/ WorkerCrash(w)
  PROVE  CountInv'
<1>0. Counted /\ Counted'
  BY CountTypes, PTL
<1>1. CASE PollRead(w)
  <2>1. UNCHANGED <<task, launches, run, batch>> /\ batch[w] = {}
    BY <1>1 DEF PollRead, rows, ghosts
  <2>2. \A v \in Workers \ {w} : polled'[v] = polled[v] /\ seen'[v] = seen[v]
    BY <1>1 DEF PollRead, TypeOK
  <2>3. \A t \in polled'[w] : t \in Tasks /\ seen'[w][t] = task[t]
    BY <1>1 DEF PollRead, TypeOK
  <2>4. PollCounts'
    BY <2>1, <2>2, <2>3 DEF CountInv, PollCounts, RowCounts, Claimable, Going
  <2> QED BY <2>1, <2>2, <2>4 DEF CountInv, RowCounts, RunCounts
<1>2. CASE WorkerCrash(w)
  <2>1. task' = task /\ launches' = launches
    BY <1>2 DEF WorkerCrash, rows, ghosts
  <2>2. \A r \in Jobs : CalmRun(r)
    BY <1>2 DEF WorkerCrash, CalmRun, FreeRun, TypeOK
  <2>3. \A v \in Workers : CalmPoll(v)
    BY <1>2 DEF WorkerCrash, CalmPoll, TypeOK
  <2>4. \A t \in Tasks : CalmRow(t)
    BY <2>1 DEF CalmRow
  <2> QED BY <2>2, <2>3, <2>4, CalmCounts
<1>3. CASE PollCommit(w)
  <2>1. batch[w] = {} /\ \A r \in Jobs : Host(r) = w => run[r].pc = "free"
    BY <1>3 DEF PollCommit, CountInv, Attended
  <2>2. \A t \in Tasks : launches'[t] = IF t \in Claims(w) THEN launches[t] + 1 ELSE launches[t]
    BY <1>3 DEF PollCommit
  <2>3. ASSUME NEW t \in Claims(w)
        PROVE  /\ t \in Tasks /\ task'[t] = ClaimedRow(task[t], seen[w][t], w)
               /\ launches'[t] <= seen[w][t].result.attempts + 1
               /\ launches'[t] <= MaxAttempts
               /\ Claimable(task[t])
    <3>1. t \in polled[w] /\ t \in Tasks /\ ~Exhausted(seen[w][t]) /\ Claimable(task[t])
      BY <1>0 DEF Claims, Counted
    <3>2. launches[t] <= seen[w][t].result.attempts /\ seen[w][t].result.attempts < MaxAttempts
      BY <1>0, <3>1 DEF CountInv, PollCounts, Exhausted, Counted
    <3> QED BY <1>0, <1>3, <2>2, <3>1, <3>2 DEF PollCommit, Counted
  <2>4. ASSUME NEW t \in Claims(w)
        PROVE  /\ task'[t].owner = w /\ task'[t].lease = "live"
               /\ task'[t].result.attempts = seen[w][t].result.attempts + 1
    <3>1. task[t] \in Row /\ seen[w][t].result \in Result
      BY <2>3 DEF TypeOK, Row
    <3> DEFINE q == [seen[w][t].result EXCEPT !.state = "running", !.attempts = @ + 1]
    <3>2. q.attempts = seen[w][t].result.attempts + 1
      BY <3>1 DEF Result
    <3>3. task'[t] = [task[t] EXCEPT !.owner = w, !.lease = "live", !.result = q]
      BY <2>3 DEF ClaimedRow
    <3> HIDE DEF q
    <3> QED BY <3>1, <3>2, <3>3 DEF Row
  <2>5. ASSUME NEW t \in Tasks \ Claims(w), Going(task'[t])
        PROVE  task'[t] = task[t]
    <3>1. task[t] \in Row
      BY DEF TypeOK
    <3>2. ~Going(ExhaustedRow(task[t], seen[w][t]))
      BY <3>1 DEF ExhaustedRow, Going, Row
    <3> QED BY <1>3, <2>5, <3>2 DEF PollCommit
  <2>6. \A t \in Tasks : launches'[t] <= MaxAttempts
    BY <2>2, <2>3 DEF CountInv
  <2>7. RowCounts'
    BY <2>2, <2>3, <2>4, <2>5 DEF RowCounts, CountInv
  <2>8. PollCounts'
    <3> SUFFICES ASSUME NEW v \in Workers, NEW t \in polled'[v], Claimable(task'[t])
                 PROVE  launches'[t] <= seen'[v][t].result.attempts
      BY DEF PollCounts
    <3>1. v # w /\ t \in polled[v] /\ seen'[v] = seen[v] /\ t \in Tasks
      BY <1>0, <1>3 DEF PollCommit, TypeOK, Counted
    <3>2. t \notin Claims(w) /\ task'[t] = task[t]
      BY <2>4, <2>5, <3>1 DEF Claimable, Going
    <3> QED BY <2>2, <3>1, <3>2 DEF CountInv, PollCounts
  <2>9. RunCounts'
    <3> SUFFICES ASSUME NEW r \in Jobs, run'[r].pc = "scan", Going(task'[TaskOf(r)]),
                        task'[TaskOf(r)].owner = Host(r)
                 PROVE  launches'[TaskOf(r)] <= run'[r].work.attempts
      BY DEF RunCounts
    <3>1. run'[r] = run[r]
      BY <1>3 DEF PollCommit, FreeRun, TypeOK
    <3>2. TaskOf(r) \in Tasks /\ Host(r) # w
      BY <1>0, <2>1, <3>1 DEF Counted
    <3>3. TaskOf(r) \notin Claims(w) /\ task'[TaskOf(r)] = task[TaskOf(r)]
      BY <2>4, <2>5, <3>2
    <3> QED BY <2>2, <3>1, <3>2, <3>3 DEF CountInv, RunCounts
  <2>10. \A v \in Workers : polled'[v] # {} => batch'[v] = {}
    BY <1>3 DEF PollCommit, CountInv, TypeOK
  <2> QED BY <2>6, <2>7, <2>8, <2>9, <2>10 DEF CountInv
<1> QED BY <1>1, <1>2, <1>3

\* What a run does to the others, however it goes on.
LEMMA RunLeavesCalm ==
  ASSUME TypeOK, NEW r \in Jobs, NEW state,
         RunGoes(r, state) \/ RunReturns(r) \/ RunRaises(r)
  PROVE  /\ \A w \in Workers : CalmPoll(w)
         /\ \A q \in Jobs \ {r} : CalmRun(q)
         /\ RunReturns(r) \/ RunRaises(r) \/ state.pc # "scan" => CalmRun(r)
<1>1. polled' = polled /\ seen' = seen
  BY DEF RunGoes, RunReturns, RunRaises
<1>2. \A w \in Workers : batch'[w] \subseteq batch[w]
  BY DEF RunGoes, RunReturns, RunRaises, TypeOK
<1>3. \A q \in Jobs \ {r} : run'[q] = run[q]
  BY DEF RunGoes, RunReturns, RunRaises, TypeOK
<1>4. RunReturns(r) \/ RunRaises(r) => run'[r].pc = "free"
  BY DEF RunReturns, RunRaises, FreeRun, TypeOK
<1>5. RunGoes(r, state) => run'[r] = state
  BY DEF RunGoes, TypeOK
<1> QED BY <1>1, <1>2, <1>3, <1>4, <1>5 DEF CalmPoll, CalmRun

\* A run begins with the counter of the row and writes it back as long as the row is its own.
LEMMA RunStepCounted ==
  ASSUME TypeOK, TypeOK', CountInv, NEW r \in Jobs, RunStep(r) \/ MonitorStep(r)
  PROVE  CountInv'
<1> DEFINE t == TaskOf(r)
<1>0. /\ Counted /\ Counted' /\ t \in Tasks /\ task[t] \in Row
      /\ task \in [Tasks -> Row] /\ run[r] \in RunState
  BY CountTypes, RunType, PTL DEF Counted, TypeOK
<1>a. Counted'
  BY CountTypes, PTL
<1>1. ASSUME NEW row, task' = [task EXCEPT ![t] = row], UNCHANGED launches,
             Going(row) => /\ Going(task[t]) /\ row.result = task[t].result /\ row.owner = task[t].owner
                           /\ row.lease \in {task[t].lease, "live"}
      PROVE  \A u \in Tasks : CalmRow(u)
  BY <1>0, <1>1 DEF CalmRow
<1>2. ASSUME task' = task, UNCHANGED launches
      PROVE  \A u \in Tasks : CalmRow(u)
  BY <1>2 DEF CalmRow
<1>3. ASSUME NEW state, (RunGoes(r, state) /\ state.pc # "scan") \/ RunReturns(r) \/ RunRaises(r),
             \A u \in Tasks : CalmRow(u)
      PROVE  CountInv'
  BY <1>3, RunLeavesCalm, CalmCounts
<1>4. ASSUME NEW pc, NEW next, pc # "scan", \A u \in Tasks : CalmRow(u),
             \/ RunGoes(r, [run[r] EXCEPT !.pc = pc])
             \/ RunGoes(r, [run[r] EXCEPT !.pc = pc, !.next = next])
             \/ RunReturns(r)
      PROVE  CountInv'
  <2> DEFINE one == [run[r] EXCEPT !.pc = pc]
             two == [run[r] EXCEPT !.pc = pc, !.next = next]
  <2>1. one.pc = pc /\ two.pc = pc
    BY <1>0 DEF RunState
  <2>2. RunGoes(r, one) \/ RunGoes(r, two) \/ RunReturns(r)
    BY <1>4
  <2> HIDE DEF one, two
  <2> QED BY <1>3, <1>4, <2>1, <2>2
<1>5. \A pc : Loaded(r, pc).pc = pc /\ Loaded(r, pc).work = task[t].result
  BY <1>0 DEF Loaded, RunState
<1>6. Released(task[t], r).status = task[t].status /\ Released(task[t], r).cancel = task[t].cancel
  BY <1>0 DEF Released, Row
<1>7. CASE RunBegin(r)
  <2>1. task' = task /\ launches' = launches
    BY <1>7 DEF RunBegin, rows, ghosts
  <2>2. RunReturns(r) \/ \E pc \in {"refresh", "scan", "reject"} : RunGoes(r, Loaded(r, pc))
    BY <1>7 DEF RunBegin
  <2>3. CASE RunGoes(r, Loaded(r, "scan"))
    <3>1. /\ \A w \in Workers : CalmPoll(w)
          /\ \A q \in Jobs \ {r} : CalmRun(q)
          /\ polled' = polled /\ seen' = seen /\ batch' = batch
      BY <2>3, RunLeavesCalm DEF RunGoes
    <3>2. run'[r].work = task[t].result
      BY <1>5, <2>3 DEF RunGoes, TypeOK
    <3>3. RunCounts'
      <4> SUFFICES ASSUME NEW q \in Jobs, run'[q].pc = "scan", Going(task'[TaskOf(q)]),
                          task'[TaskOf(q)].owner = Host(q)
                   PROVE  launches'[TaskOf(q)] <= run'[q].work.attempts
        BY DEF RunCounts
      <4>1. CASE q = r
        BY <1>0, <2>1, <3>2, <4>1 DEF CountInv, RowCounts
      <4>2. CASE q # r
        BY <2>1, <3>1, <4>2 DEF CalmRun, CountInv, RunCounts
      <4> QED BY <4>1, <4>2
    <3> QED BY <2>1, <3>1, <3>3 DEF CountInv, RowCounts, PollCounts
  <2>4. CASE RunReturns(r) \/ \E pc \in {"refresh", "reject"} : RunGoes(r, Loaded(r, pc))
    BY <1>2, <1>3, <1>5, <2>1, <2>4
  <2> QED BY <2>2, <2>3, <2>4
<1>8. CASE RunReject(r)
  <2> DEFINE row == [Released(task[t], r) EXCEPT
                       !.status = "failed", !.result = [run[r].work EXCEPT !.state = "failed"]]
  <2>1. Released(task[t], r) \in Row
    BY <1>0, ReleasedType
  <2>2. ~Going(row)
    BY <2>1 DEF Going, Row
  <2>3. task' = [task EXCEPT ![t] = row] /\ launches' = launches
        /\ RunGoes(r, [run[r] EXCEPT !.pc = "reconcile"])
    BY <1>8 DEF RunReject, ghosts
  <2> HIDE DEF row
  <2>4. \A u \in Tasks : CalmRow(u)
    BY <1>1, <2>2, <2>3
  <2> QED BY <1>4, <2>3, <2>4
<1>9. ASSUME NEW g \in Targets, NEW verdict \in {"ok", "bad"}, TargetDone(r, g, verdict)
      PROVE  CountInv'
  <2> DEFINE work == [run[r].work EXCEPT
                        !.state = "running",
                        !.assets[g] = [verdict |-> verdict, sub |-> run[r].work.sub]]
             state == [run[r] EXCEPT
                         !.work = work,
                         !.pc = IF Pending(work) = {} THEN "refresh" ELSE "scan",
                         !.renewing = IF Pending(work) = {} THEN FALSE ELSE @]
             row == [task[t] EXCEPT !.result = work]
  <2>0. UNCHANGED launches
    BY <1>9 DEF TargetDone, ghosts
  <2>1. CASE MayCheckpoint(r) /\ task' = [task EXCEPT ![t] = row] /\ RunGoes(r, state)
    <3>1. run[r].work \in Result
      BY <1>0 DEF RunState
    <3>2. work.attempts = run[r].work.attempts
      BY <3>1 DEF Result
    <3> HIDE DEF work
    <3>3. /\ row.result = work /\ row.status = task[t].status /\ row.cancel = task[t].cancel
          /\ row.owner = task[t].owner /\ row.lease = task[t].lease
          /\ state.work = work
      BY <1>0 DEF Row, RunState
    <3>4. Going(task[t]) /\ task[t].owner = Host(r) /\ run[r].pc = "scan"
      BY <1>9, <2>1 DEF MayCheckpoint, Going, TargetDone
    <3>5. launches[t] <= work.attempts
      BY <3>2, <3>4 DEF CountInv, RunCounts
    <3> HIDE DEF state, row
    <3>6. run'[r] = state /\ task'[t] = row /\ \A u \in Tasks \ {t} : task'[u] = task[u]
      BY <1>0, <2>1 DEF RunGoes, TypeOK
    <3>7. polled' = polled /\ seen' = seen /\ batch' = batch /\ \A q \in Jobs \ {r} : run'[q] = run[q]
      BY <2>1 DEF RunGoes, TypeOK
    <3>8. RowCounts'
      BY <2>0, <3>3, <3>5, <3>6 DEF RowCounts, CountInv
    <3>9. PollCounts'
      <4>1. \A u \in Tasks : Claimable(task'[u]) => Claimable(task[u])
        BY <3>3, <3>6 DEF Claimable
      <4> QED BY <1>0, <2>0, <3>7, <4>1 DEF PollCounts, CountInv, Counted
    <3>10. RunCounts'
      <4> SUFFICES ASSUME NEW q \in Jobs, run'[q].pc = "scan", Going(task'[TaskOf(q)]),
                          task'[TaskOf(q)].owner = Host(q)
                   PROVE  launches'[TaskOf(q)] <= run'[q].work.attempts
        BY DEF RunCounts
      <4>1. CASE q = r
        BY <2>0, <3>3, <3>5, <3>6, <4>1
      <4>2. CASE q # r
        <5>1. TaskOf(q) \in Tasks /\ Going(task[TaskOf(q)]) /\ task[TaskOf(q)].owner = Host(q)
          BY <1>0, <3>3, <3>6 DEF Counted, Going
        <5> QED BY <2>0, <3>7, <4>2, <5>1 DEF CountInv, RunCounts
      <4> QED BY <4>1, <4>2
    <3> QED BY <2>0, <3>7, <3>8, <3>9, <3>10 DEF CountInv
  <2>2. CASE task' = task /\ RunReturns(r)
    BY <1>2, <1>3, <2>0, <2>2
  <2> QED BY <1>9, <2>1, <2>2 DEF TargetDone
<1>10. CASE RunRefresh(r)
  <2>1. Loaded(r, "finish") \in RunState
    BY LoadedType DEF RunPc
  <2>2. [Loaded(r, "finish") EXCEPT !.work = run[r].work, !.phase = run[r].phase].pc = "finish"
    BY <1>5, <2>1 DEF RunState
  <2>3. task' = task /\ launches' = launches
    BY <1>10 DEF RunRefresh, rows, ghosts
  <2> QED BY <1>2, <1>3, <1>10, <2>2, <2>3 DEF RunRefresh
<1>11. CASE RunCompletes(r)
  <2>1. task' = task /\ launches' = launches
        /\ RunGoes(r, [run[r] EXCEPT !.pc = "commit", !.next = CompletedPhase(t, run[r].phase)])
    BY <1>11 DEF RunCompletes, rows, ghosts
  <2>2. \A u \in Tasks : CalmRow(u)
    BY <1>2, <2>1
  <2> QED BY <1>4, <2>1, <2>2
<1>12. CASE RunCommits(r)
  <2> DEFINE row == [Released(task[t], r) EXCEPT !.status = "completed", !.result = FinalResult(r)]
  <2>1. Released(task[t], r) \in Row
    BY <1>0, ReleasedType
  <2>2. ~Going(row)
    BY <2>1 DEF Going, Row
  <2>3. task' = [task EXCEPT ![t] = row] /\ launches' = launches
        /\ (RunGoes(r, [run[r] EXCEPT !.pc = "activate"]) \/ RunReturns(r))
    BY <1>12 DEF RunCommits, ghosts
  <2> HIDE DEF row
  <2>4. \A u \in Tasks : CalmRow(u)
    BY <1>1, <2>2, <2>3
  <2>8. CASE RunReturns(r)
    BY <1>3, <2>4, <2>8
  <2>9. CASE RunGoes(r, [run[r] EXCEPT !.pc = "activate"])
    BY <1>4, <2>4, <2>9
  <2> QED BY <2>3, <2>8, <2>9
<1>13. CASE RunStoppedLate(r) \/ RunActivates(r)
  <2>1. task' = task /\ launches' = launches /\ (RunRaises(r) \/ RunReturns(r))
    BY <1>13 DEF RunStoppedLate, RunActivates, rows, ghosts
  <2> QED BY <1>2, <1>3, <2>1
<1>14. CASE RunFails(r)
  <2>1. ~Going([task[t] EXCEPT !.status = "failed", !.result = FinalResult(r),
                               !.owner = NoWorker, !.lease = "none"])
    BY <1>0 DEF Going, Row
  <2>2. ~Going(task[t]) => ~Going(Released(task[t], r))
    BY <1>6 DEF Going
  <2>3. PICK row : task' = [task EXCEPT ![t] = row] /\ ~Going(row)
    BY <1>14, <2>1, <2>2 DEF RunFails, Going
  <2>4. launches' = launches /\ RunGoes(r, [run[r] EXCEPT !.pc = "reconcile"])
    BY <1>14 DEF RunFails, ghosts
  <2>5. \A u \in Tasks : CalmRow(u)
    BY <1>1, <2>3, <2>4
  <2> QED BY <1>4, <2>4, <2>5
<1>15. CASE RunReconciles(r)
  <2>1. task' = task /\ launches' = launches
        /\ (RunGoes(r, [run[r] EXCEPT !.pc = "activate"]) \/ RunReturns(r))
    BY <1>15 DEF RunReconciles, ghosts
  <2>2. \A u \in Tasks : CalmRow(u)
    BY <1>2, <2>1
  <2>8. CASE RunReturns(r)
    BY <1>3, <2>2, <2>8
  <2>9. CASE RunGoes(r, [run[r] EXCEPT !.pc = "activate"])
    BY <1>4, <2>2, <2>9
  <2> QED BY <2>1, <2>8, <2>9
<1>16. ASSUME NEW renewing, run[r].pc = "scan", RunGoes(r, [run[r] EXCEPT !.renewing = renewing]),
              \A u \in Tasks : CalmRow(u)
       PROVE  CountInv'
  <2>1. run'[r].work = run[r].work
    BY <1>0, <1>16 DEF RunGoes, TypeOK, RunState
  <2>2. CalmRun(r)
    BY <1>16, <2>1 DEF CalmRun
  <2> QED BY <1>16, <2>2, RunLeavesCalm, CalmCounts
<1>17. CASE MonitorRead(r)
  <2>1. task' = task /\ launches' = launches /\ run[r].pc = "scan"
        /\ (RunReturns(r) \/ RunGoes(r, [run[r] EXCEPT !.renewing = TRUE]))
    BY <1>17 DEF MonitorRead, rows, ghosts
  <2> QED BY <1>2, <1>3, <1>16, <2>1
<1>18. CASE MonitorRenew(r)
  <2> DEFINE row == [task[t] EXCEPT !.lease = "live"]
  <2>1. task' = [task EXCEPT ![t] = row] /\ launches' = launches /\ run[r].pc = "scan"
        /\ RunGoes(r, [run[r] EXCEPT !.renewing = FALSE])
    BY <1>18 DEF MonitorRenew, ghosts
  <2>2. /\ row.status = task[t].status /\ row.cancel = task[t].cancel /\ row.lease = "live"
        /\ row.result = task[t].result /\ row.owner = task[t].owner
    BY <1>0 DEF Row
  <2> HIDE DEF row
  <2> QED BY <1>1, <1>16, <2>1, <2>2 DEF Going
<1> QED
  BY <1>7, <1>8, <1>9, <1>10, <1>11, <1>12, <1>13, <1>14, <1>15, <1>17, <1>18
     DEF RunStep, MonitorStep

\* No step lets a counter lag behind, as long as every run is attended to.
LEMMA CountStep == TypeOK /\ TypeOK' /\ CountInv /\ Attended /\ [Next]_vars => CountInv'
<1> SUFFICES ASSUME TypeOK, TypeOK', CountInv, Attended, [Next]_vars PROVE CountInv'
  OBVIOUS
<1>0. ASSUME \A u \in Tasks : CalmRow(u), UNCHANGED workers PROVE CountInv'
  <2>1. (\A r \in Jobs : CalmRun(r)) /\ \A w \in Workers : CalmPoll(w)
    BY <1>0 DEF workers, CalmRun, CalmPoll
  <2> QED BY <1>0, <2>1, CalmCounts
<1>1. CASE UNCHANGED vars
  BY <1>0, <1>1 DEF vars, workers, CalmRow
<1>2. ASSUME NEW t \in Tasks, TaskRequest(t) \/ DirectStep(t) \/ LeaseExpires(t) PROVE CountInv'
  BY <1>0, <1>2, UserStepCalm
<1>3. ASSUME NEW p \in Phases, PhaseRequest(p) PROVE CountInv'
  BY <1>0, <1>3, PhaseStepCalm
<1>4. CASE Migrate
  <2>1. 1 \in Phases
    BY DEF Phases
  <2> QED BY <1>0, <1>4, <2>1, PhaseStepCalm
<1>5. ASSUME NEW w \in Workers, PollRead(w) \/ PollCommit(w) \/ WorkerCrash(w) PROVE CountInv'
  BY <1>5, PollCounted
<1>6. ASSUME NEW r \in Jobs, RunStep(r) \/ MonitorStep(r) PROVE CountInv'
  BY <1>6, RunStepCounted
<1> QED BY <1>1, <1>2, <1>3, <1>4, <1>5, <1>6 DEF Next, WorkerNext

\* With a single task a batch is one run, so that an exception leaves no other behind.
Single == \A t, u \in Tasks : t = u
OneRun ==
  /\ Attended
  /\ \A r, q \in Jobs : Host(r) = Host(q) /\ run[r].pc # "free" /\ run[q].pc # "free" => r = q
  /\ \A w \in Workers : polled[w] # {} => batch[w] = {}

\* A worker then polls only after its one run has returned.
LEMMA SingleStep == Single /\ TypeOK /\ OneRun /\ [Next]_vars => OneRun'
<1> SUFFICES ASSUME Single, TypeOK, OneRun, [Next]_vars PROVE OneRun'
  OBVIOUS
<1>1. ASSUME UNCHANGED workers PROVE OneRun'
  BY <1>1 DEF workers, OneRun, Attended
<1>2. ASSUME NEW r \in Jobs, NEW state, run[r].pc # "free",
             RunGoes(r, state) \/ RunReturns(r) \/ RunRaises(r)
      PROVE  OneRun'
  <2>1. \A q \in Jobs : run'[q].pc # "free" => run[q].pc # "free"
    BY <1>2 DEF RunGoes, RunReturns, RunRaises, TypeOK
  <2>2. polled' = polled /\ \A w \in Workers : batch'[w] \subseteq batch[w]
    BY <1>2 DEF RunGoes, RunReturns, RunRaises, TypeOK
  <2>3. Attended'
    <3> SUFFICES ASSUME NEW q \in Jobs, run'[q].pc # "free" PROVE q \in batch'[Host(q)]
      BY DEF Attended
    <3>1. q \in batch[Host(q)] /\ Host(q) \in Workers /\ Host(r) \in Workers
      BY <2>1 DEF OneRun, Attended, Jobs, Host
    <3>2. CASE RunGoes(r, state)
      BY <3>1, <3>2 DEF RunGoes
    <3>3. CASE RunReturns(r) \/ RunRaises(r)
      <4>1. q # r
        BY <3>3 DEF RunReturns, RunRaises, FreeRun, TypeOK
      <4>2. Host(q) # Host(r)
        BY <1>2, <2>1, <4>1 DEF OneRun
      <4> QED BY <3>1, <3>3, <4>2 DEF RunReturns, RunRaises, TypeOK
    <3> QED BY <1>2, <3>2, <3>3
  <2> QED BY <2>1, <2>2, <2>3 DEF OneRun
<1>3. ASSUME NEW w \in Workers, PollRead(w) PROVE OneRun'
  BY <1>3 DEF PollRead, OneRun, Attended, TypeOK
<1>4. ASSUME NEW w \in Workers, WorkerCrash(w) PROVE OneRun'
  <2>1. \A q \in Jobs : run'[q] = IF Host(q) = w THEN FreeRun ELSE run[q]
    BY <1>4 DEF WorkerCrash
  <2>2. \A v \in Workers \ {w} : batch'[v] = batch[v] /\ polled'[v] = polled[v]
    BY <1>4 DEF WorkerCrash, TypeOK
  <2>3. polled'[w] = {} /\ \A q \in Jobs : Host(q) \in Workers
    BY <1>4 DEF WorkerCrash, TypeOK, Jobs, Host
  <2> QED BY <2>1, <2>2, <2>3 DEF OneRun, Attended, FreeRun
<1>5. ASSUME NEW w \in Workers, PollCommit(w) PROVE OneRun'
  <2>1. \A q \in Jobs : run'[q].pc # "free" => q \in Launched(w) \/ (run[q].pc # "free" /\ q \notin Launched(w))
    BY <1>5 DEF PollCommit
  <2>2. batch' = [batch EXCEPT ![w] = Launched(w)] /\ polled' = [polled EXCEPT ![w] = {}]
    BY <1>5 DEF PollCommit
  <2>3. batch[w] = {} /\ \A q \in Jobs : Host(q) = w => run[q].pc = "free"
    BY <1>5 DEF PollCommit, OneRun, Attended
  <2>4. \A r \in Launched(w) : Host(r) = w
    BY DEF Launched, Host
  <2>5. ASSUME NEW r \in Launched(w), NEW q \in Launched(w) PROVE r = q
    <3>1. Claims(w) \subseteq Tasks
      BY DEF Claims, TypeOK
    <3> QED BY <2>5, <3>1 DEF Launched, Single
  <2>6. \A q \in Jobs : Host(q) \in Workers
    BY DEF Jobs, Host
  <2>7. Attended'
    BY <2>1, <2>2, <2>3, <2>4, <2>6 DEF OneRun, Attended, TypeOK
  <2>8. \A r, q \in Jobs : Host(r) = Host(q) /\ run'[r].pc # "free" /\ run'[q].pc # "free" => r = q
    BY <2>1, <2>3, <2>4, <2>5 DEF OneRun
  <2>9. \A v \in Workers : polled'[v] # {} => batch'[v] = {}
    BY <2>2 DEF OneRun, TypeOK
  <2> QED BY <2>7, <2>8, <2>9 DEF OneRun
<1>6. CASE UNCHANGED vars
  BY <1>1, <1>6 DEF vars, workers
<1>7. ASSUME NEW t \in Tasks, TaskRequest(t) \/ DirectStep(t) \/ LeaseExpires(t) PROVE OneRun'
  BY <1>1, <1>7, UserStepCalm
<1>8. ASSUME NEW p \in Phases, PhaseRequest(p) PROVE OneRun'
  BY <1>1, <1>8, PhaseStepCalm
<1>9. CASE Migrate
  BY <1>1, <1>9 DEF Migrate
<1>10. ASSUME NEW r \in Jobs, RunStep(r) \/ MonitorStep(r) PROVE OneRun'
  <2>1. run[r].pc # "free"
    BY <1>10 DEF RunStep, MonitorStep, RunBegin, RunReject, TargetDone, RunRefresh, RunCompletes, RunCommits,
                 RunStoppedLate, RunFails, RunReconciles, RunActivates, MonitorRead, MonitorRenew
  <2>2. \E state : RunGoes(r, state) \/ RunReturns(r) \/ RunRaises(r)
    BY <1>10 DEF RunStep, MonitorStep, RunBegin, RunReject, TargetDone, RunRefresh, RunCompletes, RunCommits,
                 RunStoppedLate, RunFails, RunReconciles, RunActivates, MonitorRead, MonitorRenew
  <2> QED BY <1>2, <2>1, <2>2
<1> QED BY <1>3, <1>4, <1>5, <1>6, <1>7, <1>8, <1>9, <1>10 DEF Next, WorkerNext

\* The attempt counter of a row never lags behind the runs launched for its request, so a
\* task that keeps killing its worker is launched MaxAttempts times at most
\* (assessment_task_queue.py): with any number of tasks, as long as no run goes on without
\* its batch.
THEOREM AttendedAreCounted == Spec /\ []Attended => []AttemptsCounted
<1>1. Init => CountInv
  BY DEF Init, CountInv, RowCounts, PollCounts, RunCounts, BlankRow, Going, Claimable, FreeRun
<1>2. TypeOK /\ CountInv => AttemptsCounted
  BY DEF CountInv, RowCounts, AttemptsCounted, Polls, Claimable, Going
<1> QED BY <1>1, <1>2, TypeCorrect, CountStep, PTL DEF Spec

\* With a single task that is always so: its worker has no other run to leave behind.
THEOREM AttemptsOfOneTask ==
  ASSUME Single
  PROVE  Spec => []AttemptsCounted
<1>1. Init => OneRun
  BY DEF Init, OneRun, Attended, FreeRun
<1>2. TypeOK /\ OneRun /\ [Next]_vars => OneRun'
  BY SingleStep
<1>3. OneRun => Attended
  BY DEF OneRun
<1>4. Spec => []Attended
  BY <1>1, <1>2, <1>3, TypeCorrect, PTL DEF Spec
<1> QED BY <1>4, AttendedAreCounted, PTL

-----------------------------------------------------------------------------
(* Who breaks what the documents promise of phases and retries.             *)

Activates == \A q \in Phases : phase[q] = "pending" /\ phase'[q] = "active" => PriorDone(phase', q)

\* A phase is opened behind an unfinished one by a reopening, by a skip in a phase that is not
\* open, by a run that loaded its phase while it was not, and by a session that completed a
\* phase which was taken back since.
OpensEarly ==
  \/ \E p \in Phases : ReopenPhase(p) /\ ~PriorDone(phase, p)
  \/ \E t \in Tasks : SkipTask(t) /\ ~PriorDone(phase, PhaseOf[t])
  \/ \E r \in Jobs : RunCommits(r) /\ run[r].phase = "pending" /\ ~PriorDone(phase, PhaseIdOf(r))
  \/ \E r \in Jobs : RunActivates(r) /\ phase[PhaseIdOf(r)] # "completed"
  \/ \E t \in Tasks : DirectActivate(t) /\ phase[PhaseOf[t]] # "completed"

\* What a session will write of its phase is what it loaded, or that it is completed.
SessionsKnow ==
  /\ \A r \in Jobs : run[r].pc = "commit" => run[r].next \in {"completed", run[r].phase} \/ run[r].phase = "pending"
  /\ \A t \in Tasks :
       /\ direct[t].pc \in {"working", "commit"} => direct[t].phase # "pending"
       /\ direct[t].pc = "commit" => direct[t].next \in {"completed", direct[t].phase}

\* Opening a phase whose predecessors are done leaves them done.
LEMMA OpenedInOrder ==
  ASSUME TypeOK, NEW p \in Phases, NEW phases \in [Phases -> PhaseStatus],
         \A q \in Phases : q < p => phases[q] = phase[q],
         \A q \in Phases : p < q => phases[q] \in {phase[q], "pending"},
         phases[p] # "pending" \/ PriorDone(phases, p),
         phases[p] \in {phase[p], "pending", "completed"},
         phase' = StartedPhase(phases, p) \/ phase' = phases
  PROVE  Activates
<1>1. p \in Int /\ \A q \in Phases : q \in Int
  BY DEF Phases
<1>2. \A q \in Phases : q # p => phase'[q] = phases[q]
  BY DEF StartedPhase
<1>3. ASSUME NEW q \in Phases, phase[q] = "pending", phase'[q] = "active" PROVE PriorDone(phase', q)
  <2>1. q = p
    BY <1>1, <1>2, <1>3
  <2>2. phases[p] = "pending"
    BY <1>3, <2>1 DEF StartedPhase
  <2>3. PriorDone(phases, p)
    BY <2>2
  <2> QED BY <1>1, <1>2, <2>1, <2>3 DEF PriorDone
<1> QED BY <1>3 DEF Activates

\* So does activating the phase behind one that is completed.
LEMMA NextInOrder ==
  ASSUME TypeOK, NEW p \in Phases, NEW phases \in [Phases -> PhaseStatus],
         phases[p] = "completed", \A q \in Phases : q # p => phases[q] = phase[q],
         phase' = NextActivated(phases, p)
  PROVE  Activates
<1>1. \A q \in Phases : q \in Int
  BY DEF Phases
<1>2. [phases EXCEPT ![p] = "completed"] = phases
  OBVIOUS
<1>3. \A q \in Phases : phase'[q] = IF q \in Ready(phases) THEN "active" ELSE phases[q]
  BY <1>2 DEF NextActivated
<1>4. ASSUME NEW q \in Phases, phase[q] = "pending", phase'[q] = "active" PROVE PriorDone(phase', q)
  <2>1. q \in Ready(phases)
    BY <1>3, <1>4
  <2>2. \A u \in Phases : u < q => phases[u] = "completed" /\ u \notin Ready(phases)
    BY <2>1 DEF Ready, PriorDone
  <2> QED BY <1>3, <2>2 DEF PriorDone
<1> QED BY <1>4 DEF Activates

\* No session has begun.
LEMMA SessionsInit == Init => SessionsKnow
BY DEF Init, SessionsKnow, FreeRun, IdleDirect

\* A step of a request.
LEMMA UserStepKnows ==
  ASSUME TypeOK, SessionsKnow, NEW t \in Tasks, TaskRequest(t) \/ DirectStep(t) \/ LeaseExpires(t)
  PROVE  SessionsKnow'
<1>1. direct \in [Tasks -> DirectState] /\ PhaseOf[t] \in Phases /\ phase \in [Phases -> PhaseStatus]
  BY DEF TypeOK, Phases
<1>2. run' = run
  BY DEF TaskRequest, StartTask, RerunTask, StopTask, ResetTask, SkipTask, DirectStep, DirectBegin, DirectRefused,
         DirectPassed, DirectCommits, DirectFailed, DirectActivate, DirectCrash, LeaseExpires, workers
<1>3. ASSUME NEW state, direct' = [direct EXCEPT ![t] = state],
             state.pc \in {"working", "commit"} => state.phase # "pending",
             state.pc = "commit" => state.next \in {"completed", state.phase}
      PROVE  SessionsKnow'
  BY <1>1, <1>2, <1>3 DEF SessionsKnow
<1>4. CASE TaskRequest(t) \/ DirectRefused(t) \/ LeaseExpires(t)
  <2>1. direct' = direct
    BY <1>4 DEF TaskRequest, StartTask, RerunTask, StopTask, ResetTask, SkipTask, DirectRefused, LeaseExpires
  <2> QED BY <1>2, <2>1 DEF SessionsKnow
<1>5. CASE DirectBegin(t)
  <2> DEFINE phases == IF task[t].status # "todo" THEN ReopenedPhase(phase, PhaseOf[t]) ELSE phase
             state == [IdleDirect EXCEPT !.pc = "working", !.phase = StartedPhase(phases, PhaseOf[t])[PhaseOf[t]],
                                         !.sub = subs[t] + 1]
  <2>1. direct' = [direct EXCEPT ![t] = state]
    BY <1>5 DEF DirectBegin
  <2>2. phases \in [Phases -> PhaseStatus]
    BY <1>1 DEF ReopenedPhase, PhaseStatus
  <2> HIDE DEF phases
  <2>3. StartedPhase(phases, PhaseOf[t])[PhaseOf[t]] # "pending"
    BY <1>1, <2>2 DEF StartedPhase
  <2>4. state.pc = "working" /\ state.phase # "pending"
    BY <2>3 DEF IdleDirect
  <2> HIDE DEF state
  <2> QED BY <1>3, <2>1, <2>4
<1>6. CASE DirectPassed(t) /\ Taken(task[t])
  <2> DEFINE next == CompletedPhase(t, direct[t].phase)
             state == [direct[t] EXCEPT !.pc = "commit", !.next = next]
  <2>1. direct' = [direct EXCEPT ![t] = state] /\ direct[t].pc = "working"
    BY <1>6 DEF DirectPassed
  <2>2. next \in {"completed", direct[t].phase} /\ direct[t].phase # "pending"
    BY <2>1 DEF CompletedPhase, RecountedPhase, SessionsKnow
  <2> HIDE DEF next
  <2>3. state.phase = direct[t].phase /\ state.next = next
    BY <1>1 DEF DirectState
  <2> HIDE DEF state
  <2> QED BY <1>3, <2>1, <2>2, <2>3
<1>7. CASE DirectCommits(t)
  <2>1. PICK state \in {IdleDirect, [direct[t] EXCEPT !.pc = "activate"]} : direct' = [direct EXCEPT ![t] = state]
    BY <1>7 DEF DirectCommits
  <2>2. state.pc \in {"idle", "activate"}
    BY <1>1, <2>1 DEF DirectState, IdleDirect
  <2> QED BY <1>3, <2>1, <2>2
<1>8. CASE (DirectPassed(t) /\ ~Taken(task[t])) \/ DirectFailed(t) \/ DirectActivate(t) \/ DirectCrash(t)
  <2>1. direct' = [direct EXCEPT ![t] = IdleDirect] /\ IdleDirect.pc = "idle"
    BY <1>8 DEF DirectPassed, DirectFailed, DirectActivate, DirectCrash, IdleDirect
  <2> QED BY <1>3, <2>1
<1> QED BY <1>4, <1>5, <1>6, <1>7, <1>8 DEF DirectStep

\* A step of a worker.
LEMMA WorkerStepKnows ==
  ASSUME TypeOK, SessionsKnow,
         \/ \E w \in Workers : PollRead(w) \/ PollCommit(w) \/ WorkerCrash(w)
         \/ \E r \in Jobs : RunStep(r) \/ MonitorStep(r)
  PROVE  SessionsKnow'
<1>1. direct' = direct
  BY DEF PollRead, PollCommit, WorkerCrash, RunStep, MonitorStep, RunBegin, RunReject, TargetDone, RunRefresh,
         RunCompletes, RunCommits, RunStoppedLate, RunFails, RunReconciles, RunActivates, MonitorRead, MonitorRenew
<1>2. ASSUME NEW q \in Jobs, run'[q].pc = "commit", run[q].pc = "commit" => run'[q] # run[q]
      PROVE  run'[q].next \in {"completed", run'[q].phase} \/ run'[q].phase = "pending"
  <2>1. run[q] \in RunState /\ run \in [Jobs -> RunState]
    BY DEF TypeOK
  <2>2. run'[q] # run[q]
    BY <1>2
  <2>3. FreeRun.pc = "free" /\ [FreeRun EXCEPT !.pc = "begin"].pc = "begin"
    BY DEF FreeRun
  <2>4. RunStep(q) \/ MonitorStep(q)
    <3>1. ASSUME NEW w \in Workers, PollRead(w) \/ PollCommit(w) \/ WorkerCrash(w) PROVE FALSE
      BY <1>2, <2>1, <2>2, <2>3, <3>1 DEF PollRead, PollCommit, WorkerCrash
    <3>2. ASSUME NEW r \in Jobs, RunStep(r) \/ MonitorStep(r), r # q PROVE FALSE
      <4>1. \E state : run' = [run EXCEPT ![r] = state]
        BY <3>2 DEF RunStep, MonitorStep, RunBegin, RunReject, TargetDone, RunRefresh, RunCompletes, RunCommits,
             RunStoppedLate, RunFails, RunReconciles, RunActivates, MonitorRead, MonitorRenew,
             RunGoes, RunReturns, RunRaises
      <4> QED BY <2>1, <2>2, <3>2, <4>1
    <3> QED BY <3>1, <3>2
  <2>5. ~RunReturns(q) /\ ~RunRaises(q)
    BY <1>2, <2>1, <2>3 DEF RunReturns, RunRaises
  <2>6. ASSUME NEW state, RunGoes(q, state) PROVE run'[q] = state
    BY <2>1, <2>6 DEF RunGoes
  <2>7. \A pc : [run[q] EXCEPT !.pc = pc].pc = pc /\ Loaded(q, pc).pc = pc
    BY <2>1 DEF RunState, Loaded
  <2>8. CASE RunCompletes(q)
    <3> DEFINE next == CompletedPhase(TaskOf(q), run[q].phase)
               state == [run[q] EXCEPT !.pc = "commit", !.next = next]
    <3>1. run'[q] = state
      BY <2>6, <2>8 DEF RunCompletes
    <3>2. next \in {"completed", run[q].phase} \/ run[q].phase = "pending"
      BY DEF CompletedPhase, RecountedPhase
    <3> HIDE DEF next
    <3>3. state.phase = run[q].phase /\ state.next = next
      BY <2>1 DEF RunState
    <3> HIDE DEF state
    <3> QED BY <3>1, <3>2, <3>3
  <2>9. CASE RunBegin(q) \/ RunReject(q) \/ RunCommits(q) \/ RunFails(q) \/ RunReconciles(q)
             \/ RunActivates(q) \/ RunStoppedLate(q)
    <3>1. \E pc \in {"refresh", "scan", "reject", "reconcile", "activate"} :
            RunGoes(q, Loaded(q, pc)) \/ RunGoes(q, [run[q] EXCEPT !.pc = pc])
      BY <2>5, <2>9 DEF RunBegin, RunReject, RunCommits, RunFails, RunReconciles, RunActivates, RunStoppedLate
    <3>2. PICK pc \in {"refresh", "scan", "reject", "reconcile", "activate"} :
            run'[q] = Loaded(q, pc) \/ run'[q] = [run[q] EXCEPT !.pc = pc]
      BY <2>6, <3>1
    <3>3. run'[q].pc = pc
      BY <2>7, <3>2
    <3> QED BY <1>2, <3>3
  <2>10. CASE RunRefresh(q)
    <3> DEFINE l == Loaded(q, "finish")
    <3>0. l \in RunState /\ l.pc = "finish"
      BY <2>7, LoadedType DEF RunPc
    <3> HIDE DEF l
    <3>1. run'[q] = [l EXCEPT !.work = run[q].work, !.phase = run[q].phase]
      BY <2>5, <2>6, <2>10 DEF RunRefresh, l
    <3>2. run'[q].pc = "finish"
      BY <3>0, <3>1 DEF RunState
    <3> QED BY <1>2, <3>2
  <2>11. ASSUME NEW g \in Targets, NEW verdict \in {"ok", "bad"}, TargetDone(q, g, verdict) PROVE FALSE
    <3> DEFINE work == [run[q].work EXCEPT
                          !.state = "running",
                          !.assets[g] = [verdict |-> verdict, sub |-> run[q].work.sub]]
               state == [run[q] EXCEPT
                           !.work = work,
                           !.pc = IF Pending(work) = {} THEN "refresh" ELSE "scan",
                           !.renewing = IF Pending(work) = {} THEN FALSE ELSE @]
    <3>1. run'[q] = state
      BY <2>5, <2>6, <2>11 DEF TargetDone
    <3> HIDE DEF work
    <3>2. state.pc \in {"refresh", "scan"}
      BY <2>1 DEF RunState
    <3> HIDE DEF state
    <3> QED BY <1>2, <3>1, <3>2
  <2>12. CASE MonitorStep(q)
    <3>1. PICK renewing : run'[q] = [run[q] EXCEPT !.renewing = renewing] /\ run[q].pc = "scan"
      BY <2>5, <2>6, <2>12 DEF MonitorStep, MonitorRead, MonitorRenew
    <3>2. run'[q].pc = "scan"
      BY <2>1, <3>1 DEF RunState
    <3> QED BY <1>2, <3>2
  <2> QED BY <2>4, <2>8, <2>9, <2>10, <2>11, <2>12 DEF RunStep
<1> QED BY <1>1, <1>2 DEF SessionsKnow

\* Sessions go on knowing it.
LEMMA SessionsStep == TypeOK /\ SessionsKnow /\ [Next]_vars => SessionsKnow'
<1> SUFFICES ASSUME TypeOK, SessionsKnow, [Next]_vars PROVE SessionsKnow'
  OBVIOUS
<1>1. CASE UNCHANGED <<run, direct>>
  BY <1>1 DEF SessionsKnow
<1>2. ASSUME NEW p \in Phases, PhaseRequest(p) \/ Migrate PROVE SessionsKnow'
  <2>1. UNCHANGED <<run, direct>>
    BY <1>2 DEF PhaseRequest, ActivatePhase, CompletePhase, ReopenPhase, ResetPhase, Migrate, workers
  <2> QED BY <1>1, <2>1
<1>3. 1 \in Phases
  BY DEF Phases
<1>4. ASSUME NEW t \in Tasks, TaskRequest(t) \/ DirectStep(t) \/ LeaseExpires(t) PROVE SessionsKnow'
  BY <1>4, UserStepKnows
<1>5. UNCHANGED vars => UNCHANGED <<run, direct>>
  BY DEF vars
<1> QED BY <1>1, <1>2, <1>3, <1>4, <1>5, WorkerStepKnows DEF Next, WorkerNext

\* Every other step that opens a phase finds the phases before it completed.
LEMMA OrderStep == TypeOK /\ SessionsKnow /\ [Next]_vars => Activates \/ OpensEarly
<1> SUFFICES ASSUME TypeOK, SessionsKnow, [Next]_vars, ~OpensEarly PROVE Activates
  OBVIOUS
<1>0. /\ \A t \in Tasks : PhaseOf[t] \in Phases
      /\ \A p \in Phases : p \in Int
      /\ phase \in [Phases -> PhaseStatus]
  BY DEF TypeOK, Phases
<1>1. CASE phase' = phase
  BY <1>1 DEF Activates
<1>2. ASSUME NEW p \in Phases, NEW status, phase' = [phase EXCEPT ![p] = status],
             status # "active" \/ status = phase[p] \/ PriorDone(phase, p)
      PROVE  Activates
  <2>1. \A q \in Phases \ {p} : phase'[q] = phase[q]
    BY <1>0, <1>2
  <2>2. phase'[p] = status
    BY <1>0, <1>2
  <2>3. PriorDone(phase, p) => PriorDone(phase', p)
    BY <1>0, <2>1 DEF PriorDone
  <2> QED BY <1>2, <2>1, <2>2, <2>3 DEF Activates
<1>3. ASSUME NEW t \in Tasks
      PROVE  /\ ResetPhases(phase, t) \in [Phases -> PhaseStatus]
             /\ ReopenedPhase(phase, PhaseOf[t]) \in [Phases -> PhaseStatus]
             /\ \A q \in Phases : q < PhaseOf[t] =>
                  ResetPhases(phase, t)[q] = phase[q] /\ ReopenedPhase(phase, PhaseOf[t])[q] = phase[q]
             /\ \A q \in Phases : PhaseOf[t] < q =>
                  ResetPhases(phase, t)[q] = "pending" /\ ReopenedPhase(phase, PhaseOf[t])[q] = phase[q]
             /\ ResetPhases(phase, t)[PhaseOf[t]] \in {phase[PhaseOf[t]], "pending"}
             /\ ReopenedPhase(phase, PhaseOf[t])[PhaseOf[t]] \in {phase[PhaseOf[t]], "pending"}
  BY <1>0 DEF ResetPhases, ReopenedPhase, PendingFrom, PhaseStatus
<1>4. ASSUME NEW t \in Tasks, TaskRequest(t) \/ DirectStep(t) \/ LeaseExpires(t) PROVE Activates
  <2> DEFINE p == PhaseOf[t]
  <2>1. CASE StartTask(t)
    BY <1>0, <2>1, OpenedInOrder DEF StartTask, Submit, Startable
  <2>2. CASE RerunTask(t)
    <3>1. PICK phases \in {phase, ResetPhases(phase, t)} :
            \/ Startable(IF task[t].status # "todo" THEN ResetTasks(task, t) ELSE task, phases, t)
               /\ phase' = StartedPhase(phases, p)
            \/ phase' = phases
      BY <2>2 DEF RerunTask, Submit
    <3>2. CASE phase' = StartedPhase(phases, p) /\ (phases[p] # "pending" \/ PriorDone(phases, p))
      BY <1>0, <1>3, <3>1, <3>2, OpenedInOrder
    <3>3. CASE phase' = phases
      <4>1. CASE phases = phase
        BY <1>1, <3>3, <4>1
      <4>2. CASE phases = ResetPhases(phase, t)
        <5>1. \A q \in Phases : phase'[q] = phase[q] \/ phase'[q] = "pending"
          <6> TAKE q \in Phases
          <6>1. q < p \/ q = p \/ p < q
            BY <1>0
          <6> QED BY <1>3, <3>3, <4>2, <6>1
        <5> QED BY <5>1 DEF Activates
      <4> QED BY <3>1, <4>1, <4>2
    <3> QED BY <3>1, <3>2, <3>3 DEF Startable
  <2>3. CASE ResetTask(t)
    <3>1. phase' = ResetPhases(phase, t)
      BY <2>3 DEF ResetTask
    <3> QED BY <1>0, <1>3, <3>1 DEF Activates
  <2>4. CASE SkipTask(t)
    <3> DEFINE tasks == [task EXCEPT ![t].status = "cancelled"]
               new == RecountedPhase(tasks, p, phase[p])
               phases == [phase EXCEPT ![p] = new]
    <3>1. phase' = IF new = "completed" THEN NextActivated(phases, p) ELSE phases
      BY <2>4 DEF SkipTask
    <3>2. new \in PhaseStatus /\ PriorDone(phase, p)
      BY <1>0, <2>4, RecountType DEF OpensEarly
    <3> HIDE DEF new
    <3>3. CASE new = "completed"
      <4>1. /\ phases \in [Phases -> PhaseStatus] /\ phases[p] = "completed"
            /\ \A q \in Phases : q # p => phases[q] = phase[q]
        BY <1>0, <3>2, <3>3
      <4>2. phase' = NextActivated(phases, p)
        BY <3>1, <3>3
      <4> HIDE DEF phases
      <4> QED BY <1>0, <4>1, <4>2, NextInOrder
    <3>4. CASE new # "completed"
      BY <1>0, <1>2, <3>1, <3>2, <3>4
    <3> QED BY <3>3, <3>4
  <2>5. CASE DirectBegin(t)
    <3>1. PICK phases \in {phase, ReopenedPhase(phase, p)} :
            phase' = StartedPhase(phases, p) /\ (phases[p] # "pending" \/ PriorDone(phases, p))
      BY <2>5 DEF DirectBegin, Startable
    <3> QED BY <1>0, <1>3, <3>1, OpenedInOrder
  <2>6. CASE DirectRefused(t)
    <3>1. phase' \in {phase, ReopenedPhase(phase, p)}
      BY <2>6 DEF DirectRefused
    <3> QED BY <1>0, <1>1, <1>3, <3>1 DEF Activates
  <2>7. CASE DirectCommits(t)
    <3>1. phase' = [phase EXCEPT ![p] = Flushed(phase[p], direct[t].phase, direct[t].next)]
      BY <2>7 DEF DirectCommits
    <3>2. Flushed(phase[p], direct[t].phase, direct[t].next) \in {"completed", phase[p]}
      BY <2>7 DEF DirectCommits, SessionsKnow, Flushed
    <3> QED BY <1>0, <1>2, <3>1, <3>2
  <2>8. CASE DirectActivate(t)
    <3>1. phase[p] = "completed" /\ phase' = NextActivated(phase, p)
      BY <2>8 DEF DirectActivate, OpensEarly
    <3> QED BY <1>0, <3>1, NextInOrder
  <2>9. CASE StopTask(t) \/ DirectPassed(t) \/ DirectFailed(t) \/ DirectCrash(t) \/ LeaseExpires(t)
    BY <1>1, <2>9 DEF StopTask, DirectPassed, DirectFailed, DirectCrash, LeaseExpires, rows
  <2> QED BY <1>4, <2>1, <2>2, <2>3, <2>4, <2>5, <2>6, <2>7, <2>8, <2>9 DEF TaskRequest, DirectStep
<1>5. ASSUME NEW p \in Phases, PhaseRequest(p) PROVE Activates
  <2>1. CASE ActivatePhase(p)
    BY <1>0, <1>2, <2>1 DEF ActivatePhase, Ready
  <2>2. CASE CompletePhase(p)
    <3> DEFINE phases == [phase EXCEPT ![p] = "completed"]
    <3>1. /\ phases \in [Phases -> PhaseStatus] /\ phases[p] = "completed"
          /\ \A q \in Phases : q # p => phases[q] = phase[q]
      BY <1>0 DEF PhaseStatus
    <3>2. phase' = NextActivated(phases, p)
      BY <2>2 DEF CompletePhase
    <3> HIDE DEF phases
    <3> QED BY <3>1, <3>2, NextInOrder
  <2>3. CASE ReopenPhase(p)
    BY <1>0, <1>2, <2>3 DEF ReopenPhase, OpensEarly
  <2>4. CASE ResetPhase(p)
    BY <1>0, <2>4 DEF ResetPhase, PendingFrom, Activates
  <2> QED BY <1>5, <2>1, <2>2, <2>3, <2>4 DEF PhaseRequest
<1>6. CASE Migrate
  BY <1>0, <1>6 DEF Migrate, RepairedPhases, RecomputedPhase, Activates
<1>7. ASSUME NEW w \in Workers, PollRead(w) \/ PollCommit(w) \/ WorkerCrash(w) PROVE Activates
  BY <1>1, <1>7 DEF PollRead, PollCommit, WorkerCrash, rows
<1>8. ASSUME NEW r \in Jobs, RunStep(r) \/ MonitorStep(r) PROVE Activates
  <2> DEFINE p == PhaseIdOf(r)
  <2>0. p \in Phases
    BY RunType
  <2>1. CASE RunCommits(r)
    <3>1. phase' = [phase EXCEPT ![p] = Flushed(phase[p], run[r].phase, run[r].next)] /\ run[r].pc = "commit"
      BY <2>1 DEF RunCommits, PhaseIdOf
    <3>2. Flushed(phase[p], run[r].phase, run[r].next) \in {"completed", phase[p]} \/ PriorDone(phase, p)
      BY <2>1, <3>1 DEF SessionsKnow, Flushed, OpensEarly
    <3> QED BY <1>2, <2>0, <3>1, <3>2
  <2>2. CASE RunReconciles(r)
    <3> DEFINE new == ReconciledPhase([task EXCEPT ![TaskOf(r)].status = "failed"], phase, p, run[r].phase)
    <3>1. phase' = [phase EXCEPT ![p] = Flushed(phase[p], run[r].phase, new)]
      BY <2>2 DEF RunReconciles
    <3>2. new \in {"pending", "completed", run[r].phase} \/ PriorDone(phase, p)
      BY DEF ReconciledPhase
    <3> HIDE DEF new
    <3>3. Flushed(phase[p], run[r].phase, new) \in {"pending", "completed", phase[p]} \/ PriorDone(phase, p)
      BY <3>2 DEF Flushed
    <3> QED BY <1>2, <2>0, <3>1, <3>3
  <2>3. CASE RunActivates(r)
    <3>1. phase[p] = "completed" /\ phase' = NextActivated(phase, p)
      BY <2>3 DEF RunActivates, OpensEarly
    <3> QED BY <1>0, <2>0, <3>1, NextInOrder
  <2>4. CASE phase' = phase
    BY <1>1, <2>4
  <2>5. RunCommits(r) \/ RunReconciles(r) \/ RunActivates(r) \/ phase' = phase
    BY <1>8 DEF RunStep, MonitorStep, RunBegin, RunReject, TargetDone, RunRefresh, RunCompletes,
             RunStoppedLate, RunFails, MonitorRead, MonitorRenew, rows
  <2> QED BY <2>1, <2>2, <2>3, <2>4, <2>5
<1>9. CASE UNCHANGED vars
  BY <1>1, <1>9 DEF vars
<1> QED BY <1>4, <1>5, <1>6, <1>7, <1>8, <1>9 DEF Next, WorkerNext

\* A phase is activated behind an unfinished one by the five steps of OpensEarly alone; the
\* documents say by none (ActivationIsOrdered).
THEOREM OrderBrokenOnlyBy ==
  Spec => [][\A p \in Phases :
               phase[p] = "pending" /\ phase'[p] = "active" => PriorDone(phase', p) \/ OpensEarly]_vars
<1>1. TypeOK /\ SessionsKnow /\ [Next]_vars =>
        [\A p \in Phases :
           phase[p] = "pending" /\ phase'[p] = "active" => PriorDone(phase', p) \/ OpensEarly]_vars
  BY OrderStep DEF Activates
<1> QED BY <1>1, TypeCorrect, SessionsInit, SessionsStep, PTL DEF Spec

\* A completed task is failed by a poll that gives up on the copy it read before, by a run
\* whose tools are refused, and by an /execute that is refused or whose tools failed.
UndoesCompletion(t) ==
  \/ \E w \in Workers : PollCommit(w) /\ t \in GivenUp(w)
  \/ \E r \in Jobs : RunReject(r) /\ TaskOf(r) = t
  \/ DirectRefused(t) \/ DirectFailed(t)

\* No other step fails a completed row.
LEMMA UndoingStep ==
  TypeOK /\ StopIsFinal /\ [Next]_vars =>
    \A t \in Tasks : task[t].status = "completed" /\ task'[t].status = "failed" => UndoesCompletion(t)
<1> SUFFICES ASSUME TypeOK, StopIsFinal, [Next]_vars, NEW t \in Tasks, task[t].status = "completed",
                    task'[t].status = "failed", ~UndoesCompletion(t)
             PROVE  FALSE
  OBVIOUS
<1>0. task \in [Tasks -> Row] /\ task[t] \in Row
  BY DEF TypeOK
<1>1. task'[t].status # task[t].status /\ task'[t].status # "todo" /\ task'[t].status # "in_progress"
  OBVIOUS
<1>2. ASSUME NEW u \in Tasks, NEW row, task' = [task EXCEPT ![u] = row], u = t => row.status # "failed" PROVE FALSE
  BY <1>0, <1>2
<1>3. BlankRow.status = "todo"
  BY DEF BlankRow
<1>4. ASSUME NEW u \in Tasks, TaskRequest(u) PROVE FALSE
  <2>1. ASSUME NEW tasks, NEW phases, Submit(tasks, phases, u), \A v \in Tasks : tasks[v] \in {task[v], BlankRow},
               DOMAIN tasks = Tasks
        PROVE  FALSE
    <3> DEFINE row == QueuedRow(tasks[u], subs[u] + 1)
    <3>1. task' = [tasks EXCEPT ![u] = row]
      BY <2>1 DEF Submit
    <3>2. u = t => row.status = "in_progress"
      BY <1>0, <2>1 DEF QueuedRow, StartedRow, Row, BlankRow
    <3> HIDE DEF row
    <3> QED BY <1>0, <1>1, <1>3, <2>1, <3>1, <3>2
  <2>2. ASSUME NEW s PROVE \A v \in Tasks : BlankedTasks(task, s)[v] \in {task[v], BlankRow}
    BY DEF BlankedTasks
  <2>3. CASE StartTask(u)
    BY <1>0, <2>1, <2>3 DEF StartTask
  <2>4. CASE RerunTask(u)
    <3> DEFINE tasks == IF task[u].status # "todo" THEN ResetTasks(task, u) ELSE task
    <3>1. DOMAIN tasks = Tasks /\ \A v \in Tasks : tasks[v] \in {task[v], BlankRow}
      BY <1>0, <2>2 DEF ResetTasks, BlankedTasks
    <3>2. (\E phases : Submit(tasks, phases, u)) \/ task' = tasks
      BY <2>4 DEF RerunTask
    <3> HIDE DEF tasks
    <3> QED BY <1>1, <1>3, <2>1, <3>1, <3>2
  <2>5. CASE StopTask(u)
    BY <1>0, <2>5 DEF StopTask
  <2>6. CASE ResetTask(u)
    BY <1>1, <1>3, <2>2, <2>6 DEF ResetTask, ResetTasks
  <2>7. CASE SkipTask(u)
    BY <1>0, <2>7 DEF SkipTask
  <2> QED BY <1>4, <2>3, <2>4, <2>5, <2>6, <2>7 DEF TaskRequest
<1>5. ASSUME NEW u \in Tasks, DirectStep(u) PROVE FALSE
  <2>1. CASE DirectBegin(u)
    <3> DEFINE tasks == IF task[u].status # "todo" THEN BlankedTasks(task, {u}) ELSE task
               row == StartedRow(tasks[u])
    <3>1. task' = [tasks EXCEPT ![u] = row]
      BY <2>1 DEF DirectBegin
    <3>2. DOMAIN tasks = Tasks /\ \A v \in Tasks : tasks[v] \in {task[v], BlankRow}
      BY <1>0 DEF BlankedTasks
    <3>3. u = t => row.status = "in_progress"
      BY <1>0, <3>2 DEF StartedRow, Row, BlankRow
    <3> HIDE DEF row, tasks
    <3> QED BY <1>0, <1>1, <1>3, <3>1, <3>2, <3>3
  <2>2. CASE DirectRefused(u)
    <3>1. u # t
      BY <2>2 DEF UndoesCompletion
    <3> DEFINE tasks == IF task[u].status \notin {"todo", "in_progress"} THEN BlankedTasks(task, {u}) ELSE task
               row == FailedByHandler(tasks[u])
    <3>2. task' = [tasks EXCEPT ![u] = row]
      BY <2>2 DEF DirectRefused
    <3>3. DOMAIN tasks = Tasks /\ \A v \in Tasks : tasks[v] \in {task[v], BlankRow}
      BY <1>0 DEF BlankedTasks
    <3> HIDE DEF row, tasks
    <3> QED BY <1>1, <1>3, <3>1, <3>2, <3>3
  <2>3. CASE DirectPassed(u)
    <3>1. u # t => task'[t] = task[t]
      BY <1>0, <2>3 DEF DirectPassed
    <3>2. Taken(task[t])
      BY <1>0 DEF Taken, StopIsFinal, Row
    <3> QED BY <1>1, <2>3, <3>1, <3>2 DEF DirectPassed
  <2>4. CASE DirectCommits(u)
    BY <1>0, <2>4 DEF DirectCommits, Row
  <2>5. CASE DirectFailed(u)
    BY <1>0, <2>5 DEF DirectFailed, UndoesCompletion
  <2>6. CASE DirectActivate(u) \/ DirectCrash(u)
    BY <1>1, <2>6 DEF DirectActivate, DirectCrash, rows
  <2> QED BY <1>5, <2>1, <2>2, <2>3, <2>4, <2>5, <2>6 DEF DirectStep
<1>6. ASSUME NEW p \in Phases, PhaseRequest(p) PROVE FALSE
  <2>1. CASE ResetPhase(p)
    BY <1>1, <1>3, <2>1 DEF ResetPhase, BlankedTasks
  <2> QED BY <1>1, <1>6, <2>1 DEF PhaseRequest, ActivatePhase, CompletePhase, ReopenPhase
<1>7. CASE Migrate
  BY <1>1, <1>7 DEF Migrate
<1>8. ASSUME NEW w \in Workers, PollRead(w) \/ PollCommit(w) \/ WorkerCrash(w) PROVE FALSE
  <2>1. CASE PollCommit(w)
    <3>1. t \notin GivenUp(w) /\ t \notin Claims(w)
      BY <2>1 DEF UndoesCompletion, Claims, Claimable
    <3> QED BY <1>1, <2>1, <3>1 DEF PollCommit
  <2> QED BY <1>1, <1>8, <2>1 DEF PollRead, WorkerCrash, rows
<1>9. ASSUME NEW r \in Jobs, RunStep(r) \/ MonitorStep(r) PROVE FALSE
  <2>0. TaskOf(r) \in Tasks /\ task[TaskOf(r)] \in Row
    BY <1>0, RunType
  <2>1. ASSUME RunReject(r) PROVE FALSE
    <3>1. TaskOf(r) # t
      BY <2>1 DEF UndoesCompletion
    <3> QED BY <1>0, <1>1, <2>1, <3>1 DEF RunReject
  <2>2. ASSUME NEW g \in Targets, NEW verdict \in {"ok", "bad"}, TargetDone(r, g, verdict) PROVE FALSE
    <3>1. task' = task \/ task[TaskOf(r)].status = "in_progress"
      BY <2>2 DEF TargetDone, MayCheckpoint
    <3>2. task'[t] = task[t]
      BY <1>0, <2>2, <3>1 DEF TargetDone
    <3> QED BY <1>1, <3>2
  <2>3. ASSUME MonitorRenew(r) PROVE FALSE
    BY <1>0, <2>0, <2>3 DEF MonitorRenew, Row
  <2>4. ASSUME RunCommits(r) PROVE FALSE
    <3> DEFINE row == [Released(task[TaskOf(r)], r) EXCEPT !.status = "completed", !.result = FinalResult(r)]
    <3>1. task' = [task EXCEPT ![TaskOf(r)] = row]
      BY <2>4 DEF RunCommits
    <3>2. row.status = "completed"
      BY <2>0 DEF Released, Row
    <3> HIDE DEF row
    <3> QED BY <1>2, <2>0, <3>1, <3>2
  <2>5. ASSUME RunFails(r) PROVE FALSE
    <3>1. task'[t] \in {task[t], Released(task[t], r)}
      BY <1>0, <2>5 DEF RunFails
    <3>2. Released(task[t], r).status = task[t].status
      BY <1>0 DEF Released, Row
    <3> QED BY <1>1, <3>1, <3>2
  <2>6. ASSUME task' = task PROVE FALSE
    BY <1>1, <2>6
  <2> QED BY <1>9, <2>1, <2>2, <2>3, <2>4, <2>5, <2>6 DEF RunStep, MonitorStep, RunBegin, RunRefresh, RunCompletes,
           RunStoppedLate, RunReconciles, RunActivates, MonitorRead, rows
<1>10. ASSUME NEW u \in Tasks, LeaseExpires(u) PROVE FALSE
  BY <1>0, <1>10 DEF LeaseExpires, Row
<1>11. CASE UNCHANGED vars
  BY <1>1, <1>11 DEF vars
<1> QED BY <1>4, <1>5, <1>6, <1>7, <1>8, <1>9, <1>10, <1>11 DEF Next, WorkerNext

\* The documents call a retry safe (RetryIsSafe).  Only a poll's give-up on an old copy, a run
\* whose tools are refused, and /execute fail a task that was completed meanwhile.
THEOREM CompletionUndoneOnlyBy ==
  Spec => [][\A t \in Tasks : task[t].status = "completed" /\ task'[t].status = "failed" => UndoesCompletion(t)]_vars
<1>1. TypeOK /\ StopIsFinal /\ [Next]_vars =>
        [\A t \in Tasks : task[t].status = "completed" /\ task'[t].status = "failed" => UndoesCompletion(t)]_vars
  BY UndoingStep
<1> QED BY <1>1, TypeCorrect, StopFinal, PTL DEF Spec
=============================================================================
