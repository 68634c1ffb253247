--------------------------- MODULE AssessmentQueue ---------------------------
(***************************************************************************)
(* The persisted queue of automated assessment tasks.  Users start, stop,  *)
(* skip, reset and re-execute tasks through api/assessments.py and         *)
(* services/flow_engine.py; assessment workers poll the task table, claim  *)
(* rows under a lease, run every target, save a checkpoint per target and  *)
(* settle the task (services/assessment_task_queue.py, app/worker.py).     *)
(*                                                                         *)
(* A user request is one step, except the synchronous /execute endpoint,   *)
(* which holds its session open while the tools run.  A worker takes one   *)
(* step per database transaction, so other actors move between its reads   *)
(* and its writes.  A worker's runs die with it; its WORKER_ID survives    *)
(* (container host name and pid).                                          *)
(***************************************************************************)
EXTENDS FlowRows

CONSTANTS
  Slots  \* how many runs of one task one worker process can hold

\* A run is a _run_claimed_task coroutine, the job of its process: task and slot.
Jobs == Workers \X Tasks \X Slots
Host(r) == r[1]
TaskOf(r) == r[2]
PhaseIdOf(r) == PhaseOf[TaskOf(r)]

VARIABLES
  task,     \* [Tasks -> Row], the TaskInstance table
  phase,    \* [Phases -> PhaseStatus], the PhaseInstance table
  polled,   \* [Workers -> SUBSET Tasks], rows a poll selected and not yet claimed
  seen,     \* [Workers -> [Tasks -> Row]], those rows as the poll read them
  batch,    \* [Workers -> SUBSET Jobs], the runs the poll is gathering
  run,      \* [Jobs -> RunState]
  direct,   \* [Tasks -> DirectState], the /execute requests in progress
  subs,     \* [Tasks -> Subs], executions requested so far
  launches  \* [Tasks -> Nat], runs launched since the last request

rows == <<task, phase>>
workers == <<polled, seen, batch, run>>
ghosts == <<subs, launches>>
vars == <<task, phase, polled, seen, batch, run, direct, subs, launches>>

\* pc: "begin" claimed, "reject" found nothing to run, "scan" tools running,
\* "refresh" every target answered, "finish" row re-read, "commit" inside the
\* transaction of complete_task, then the phase transactions "reconcile" and
\* "activate".
RunPc == {"free", "begin", "reject", "scan", "refresh", "finish", "commit",
          "reconcile", "activate"}

\* work: the coroutine's copy of the execution; hasOwner, hasLease: whether
\* the loaded row had them; phase, next: the loaded phase status and the one
\* about to be committed; renewing: the monitor has read the row and is about to
\* write the new lease.
RunState == [pc : RunPc, work : Result, hasOwner : BOOLEAN, hasLease : BOOLEAN,
             phase : PhaseStatus, next : PhaseStatus, renewing : BOOLEAN]

FreeRun == [pc |-> "free", work |-> NoResult, hasOwner |-> FALSE, hasLease |-> FALSE,
            phase |-> "pending", next |-> "pending", renewing |-> FALSE]

DirectState == [pc : {"idle", "working", "commit", "activate"}, phase : PhaseStatus,
                next : PhaseStatus, sub : Subs]
IdleDirect == [pc |-> "idle", phase |-> "pending", next |-> "pending", sub |-> 0]

Init ==
  /\ task = [t \in Tasks |-> BlankRow]
  /\ phase = [p \in Phases |-> "pending"]
  /\ polled = [w \in Workers |-> {}]
  /\ seen = [w \in Workers |-> [t \in Tasks |-> BlankRow]]
  /\ batch = [w \in Workers |-> {}]
  /\ run = [r \in Jobs |-> FreeRun]
  /\ direct = [t \in Tasks |-> IdleDirect]
  /\ subs = [t \in Tasks |-> 0]
  /\ launches = [t \in Tasks |-> 0]

MutantLocksRequestsOnly(t) == direct[t].pc = "commit"
\* complete_task updates the task row and then counts the tasks of the phase
\* before it commits: until then the row is locked, and other sessions that
\* write it wait.
Locked(t) ==
  \/ direct[t].pc = "commit"
  \/ \E r \in Jobs : TaskOf(r) = t /\ run[r].pc = "commit"

Unlocked(ts) == \A t \in ts : ~Locked(t)

-----------------------------------------------------------------------------
(* User requests.                                                           *)

\* The next execution of t, queued for the workers.
Submit(tasks, phases, t) ==
  /\ subs[t] < MaxSubs
  /\ task' = [tasks EXCEPT ![t] = QueuedRow(@, subs[t] + 1)]
  /\ phase' = StartedPhase(phases, PhaseOf[t])
  /\ subs' = [subs EXCEPT ![t] = @ + 1]
  /\ launches' = [launches EXCEPT ![t] = 0]

\* POST /tasks/{id}/start on an automated task.
StartTask(t) ==
  /\ Unlocked({t})
  /\ Startable(task, phase, t)
  /\ Submit(task, phase, t)
  /\ UNCHANGED <<workers, direct>>

\* POST /phases/{id}/technical/execute, for one of its tasks: reset, start, queue.
\* A start that is refused leaves the committed reset behind.
RerunTask(t) ==
  LET redo == task[t].status # "todo"
      tasks == IF redo THEN ResetTasks(task, t) ELSE task
      phases == IF redo THEN ResetPhases(phase, t) ELSE phase
  IN  /\ task[t].status # "in_progress"
      /\ Unlocked({t} \cup IF redo THEN TasksFrom(PhaseOf[t] + 1) ELSE {})
      /\ \/ Startable(tasks, phases, t) /\ Submit(tasks, phases, t)
         \/ /\ ~Startable(tasks, phases, t)
            /\ task' = tasks /\ phase' = phases
            /\ UNCHANGED ghosts
      /\ UNCHANGED <<workers, direct>>

\* POST /tasks/{id}/stop
StopTask(t) ==
  /\ Unlocked({t})
  /\ task[t].status = "in_progress"
  /\ task' = [task EXCEPT ![t] = StoppedRow(@)]
  /\ UNCHANGED <<phase, workers, direct, ghosts>>

\* POST /tasks/{id}/reset
ResetTask(t) ==
  /\ Unlocked({t} \cup TasksFrom(PhaseOf[t] + 1))
  /\ task[t].status # "in_progress"
  /\ task' = ResetTasks(task, t)
  /\ phase' = ResetPhases(phase, t)
  /\ UNCHANGED <<workers, direct, ghosts>>

\* POST /tasks/{id}/skip with a "not applicable" reason.
SkipTask(t) ==
  LET p == PhaseOf[t]
      tasks == [task EXCEPT ![t].status = "cancelled"]
      new == RecountedPhase(tasks, p, phase[p])
      phases == [phase EXCEPT ![p] = new]
  IN  /\ Unlocked({t})
      /\ task[t].status \in {"todo", "in_progress"}
      /\ task' = tasks
      /\ phase' = IF new = "completed" THEN NextActivated(phases, p) ELSE phases
      /\ UNCHANGED <<workers, direct, ghosts>>

\* POST /phases/{id}/start
ActivatePhase(p) ==
  /\ p \in Ready(phase)
  /\ phase' = [phase EXCEPT ![p] = "active"]
  /\ UNCHANGED <<task, workers, direct, ghosts>>

\* POST /phases/{id}/complete
CompletePhase(p) ==
  /\ phase[p] = "active"
  /\ \A t \in TasksOf(p) : task[t].status \in Terminal
  /\ phase' = NextActivated([phase EXCEPT ![p] = "completed"], p)
  /\ UNCHANGED <<task, workers, direct, ghosts>>

\* POST /phases/{id}/restart, mode "continue": the phase is reopened as it is.
ReopenPhase(p) ==
  /\ phase' = [phase EXCEPT ![p] = "active"]
  /\ UNCHANGED <<task, workers, direct, ghosts>>

\* POST /phases/{id}/restart, mode "reset": also resets tasks in progress.
ResetPhase(p) ==
  /\ Unlocked(TasksFrom(p))
  /\ task' = BlankedTasks(task, TasksFrom(p))
  /\ phase' = PendingFrom(phase, p)
  /\ UNCHANGED <<workers, direct, ghosts>>

-----------------------------------------------------------------------------
(* POST /tasks/{id}/execute: the request itself runs the tools.             *)

\* Reset without touching later phases, start, and begin running.
DirectBegin(t) ==
  LET redo == task[t].status # "todo"
      tasks == IF redo THEN BlankedTasks(task, {t}) ELSE task
      phases == IF redo THEN ReopenedPhase(phase, PhaseOf[t]) ELSE phase
      started == StartedPhase(phases, PhaseOf[t])
  IN  /\ direct[t].pc = "idle" /\ Unlocked({t})
      /\ task[t].status # "in_progress"
      /\ Startable(tasks, phases, t)
      /\ subs[t] < MaxSubs
      /\ task' = [tasks EXCEPT ![t] = StartedRow(@)]
      /\ phase' = started
      /\ subs' = [subs EXCEPT ![t] = @ + 1]
      /\ launches' = [launches EXCEPT ![t] = 0]
      /\ direct' = [direct EXCEPT ![t] =
           [IdleDirect EXCEPT !.pc = "working", !.phase = started[PhaseOf[t]],
                              !.sub = subs[t] + 1]]
      /\ UNCHANGED workers

\* The handler's `except Exception': failed, whatever the row says by now.
FailedByHandler(row) == [row EXCEPT !.status = "failed", !.result = NoResult]

\* A refused reset or start ends in the same handler: reset_task raises on a
\* task in progress, start_task on a phase that is not open yet.
DirectRefused(t) ==
  LET redo == task[t].status \notin {"todo", "in_progress"}
      tasks == IF redo THEN BlankedTasks(task, {t}) ELSE task
      phases == IF redo THEN ReopenedPhase(phase, PhaseOf[t]) ELSE phase
  IN  /\ Unlocked({t})
      /\ \/ task[t].status = "in_progress"
         \/ ~Startable(tasks, phases, t)
      /\ task' = [tasks EXCEPT ![t] = FailedByHandler(@)]
      /\ phase' = phases
      /\ UNCHANGED <<workers, direct, ghosts>>

DirectResult(s) ==
  [NoResult EXCEPT !.sub = s,
                   !.assets = [g \in Targets |-> [verdict |-> "ok", sub |-> s]]]

\* complete_task takes the row in progress, and a completed row again.
MutantTakesAny(row) == row.status \in TaskStatus
Taken(row) == ~row.cancel /\ row.status \in {"in_progress", "completed"}

CompletedPhase(t, loaded) ==
  RecountedPhase([task EXCEPT ![t].status = "completed"], PhaseOf[t], loaded)

\* Every tool passed: complete_task on the row as it is now.  It raises on a row
\* that was stopped or is not in progress any more, and the handler fails it.
DirectPassed(t) ==
  /\ direct[t].pc = "working" /\ Unlocked({t})
  /\ IF Taken(task[t])
     THEN /\ direct' = [direct EXCEPT ![t] =
               [@ EXCEPT !.pc = "commit", !.next = CompletedPhase(t, direct[t].phase)]]
          /\ UNCHANGED task
     ELSE /\ task' = [task EXCEPT ![t] = FailedByHandler(@)]
          /\ direct' = [direct EXCEPT ![t] = IdleDirect]
  /\ UNCHANGED <<phase, workers, ghosts>>

DirectCommits(t) ==
  /\ direct[t].pc = "commit"
  /\ task' = [task EXCEPT ![t] =
       [@ EXCEPT !.status = "completed", !.result = DirectResult(direct[t].sub)]]
  /\ phase' = [phase EXCEPT ![PhaseOf[t]] = Flushed(@, direct[t].phase, direct[t].next)]
  /\ direct' = [direct EXCEPT ![t] =
       IF direct[t].next = "completed" THEN [@ EXCEPT !.pc = "activate"] ELSE IdleDirect]
  /\ UNCHANGED <<workers, ghosts>>

\* Some tool failed: the row is failed without a look at it, the phase is not recounted.
DirectFailed(t) ==
  /\ direct[t].pc = "working" /\ Unlocked({t})
  /\ task' = [task EXCEPT ![t] = FailedByHandler(@)]
  /\ direct' = [direct EXCEPT ![t] = IdleDirect]
  /\ UNCHANGED <<phase, workers, ghosts>>

DirectActivate(t) ==
  /\ direct[t].pc = "activate"
  /\ phase' = NextActivated(phase, PhaseOf[t])
  /\ direct' = [direct EXCEPT ![t] = IdleDirect]
  /\ UNCHANGED <<task, workers, ghosts>>

\* The API process dies with its request.
DirectCrash(t) ==
  /\ direct[t].pc # "idle"
  /\ direct' = [direct EXCEPT ![t] = IdleDirect]
  /\ UNCHANGED <<rows, workers, ghosts>>

\* migrate.py, on every deployment.
Migrate ==
  /\ phase' = RepairedPhases(task, phase)
  /\ UNCHANGED <<task, workers, direct, ghosts>>

TaskRequest(t) ==
  StartTask(t) \/ RerunTask(t) \/ StopTask(t) \/ ResetTask(t) \/ SkipTask(t)

PhaseRequest(p) ==
  ActivatePhase(p) \/ CompletePhase(p) \/ ReopenPhase(p) \/ ResetPhase(p)

DirectStep(t) ==
  DirectBegin(t) \/ DirectRefused(t) \/ DirectPassed(t) \/ DirectCommits(t)
    \/ DirectFailed(t) \/ DirectActivate(t) \/ DirectCrash(t)

-----------------------------------------------------------------------------
(* process_pending_assessment_tasks                                         *)

MutantNeverReclaims(row) ==
  row.status = "in_progress" /\ ~row.cancel /\ row.lease = "none"
Claimable(row) ==
  row.status = "in_progress" /\ ~row.cancel /\ row.lease # "live"

Polls(row) == Claimable(row) /\ row.result.state \in {"queued", "running"}

\* The SELECT of a poll.  The worker polls once the previous batch is gathered.
PollRead(w) ==
  LET rowsOfInterest == {t \in Tasks : Polls(task[t])}
  IN  /\ batch[w] = {} /\ polled[w] = {}
      /\ rowsOfInterest # {}
      /\ polled' = [polled EXCEPT ![w] = rowsOfInterest]
      /\ seen' = [seen EXCEPT ![w] = [t \in Tasks |->
                    IF t \in rowsOfInterest THEN task[t] ELSE BlankRow]]
      /\ UNCHANGED <<rows, batch, run, direct, ghosts>>

MutantOneMore(row) == row.result.attempts > MaxAttempts
Exhausted(row) == row.result.attempts >= MaxAttempts

MutantKeepsCount(row, read, w) ==
  [row EXCEPT !.owner = w, !.lease = "live",
     !.result = [read.result EXCEPT !.state = "running"]]
ClaimedRow(row, read, w) ==
  [row EXCEPT !.owner = w, !.lease = "live",
     !.result = [read.result EXCEPT !.state = "running", !.attempts = @ + 1]]

\* The ORM flush of a row that ran out of attempts: unconditional.
ExhaustedRow(row, read) ==
  [row EXCEPT !.status = "failed",
     !.result = [read.result EXCEPT !.state = "failed"],
     !.owner = Flushed(@, read.owner, NoWorker),
     !.lease = Flushed(@, read.lease, "none")]

Claims(w) ==
  {t \in polled[w] : ~Exhausted(seen[w][t]) /\ Claimable(task[t])}

GivenUp(w) == {t \in polled[w] : Exhausted(seen[w][t])}

FreeSlots(w, t) == {k \in Slots : run[<<w, t, k>>].pc = "free"}

NextSlot(w, t) == CHOOSE k \in FreeSlots(w, t) : TRUE

Launched(w) == {<<w, t, NextSlot(w, t)>> : t \in Claims(w)}

\* The claims of a poll, and their one commit.
PollCommit(w) ==
  /\ polled[w] # {} /\ Unlocked(polled[w])
  /\ \A t \in Claims(w) : FreeSlots(w, t) # {}
  /\ task' = [t \in Tasks |->
       IF t \in Claims(w) THEN ClaimedRow(task[t], seen[w][t], w)
       ELSE IF t \in GivenUp(w) THEN ExhaustedRow(task[t], seen[w][t])
       ELSE task[t]]
  /\ run' = [r \in Jobs |-> IF r \in Launched(w) THEN [FreeRun EXCEPT !.pc = "begin"] ELSE run[r]]
  /\ batch' = [batch EXCEPT ![w] = Launched(w)]
  /\ launches' = [t \in Tasks |-> IF t \in Claims(w) THEN launches[t] + 1 ELSE launches[t]]
  /\ polled' = [polled EXCEPT ![w] = {}]
  /\ seen' = [seen EXCEPT ![w] = [t \in Tasks |-> BlankRow]]
  /\ UNCHANGED <<phase, direct, subs>>

-----------------------------------------------------------------------------
(* _run_claimed_task                                                        *)

RunReturns(r) ==
  /\ run' = [run EXCEPT ![r] = FreeRun]
  /\ batch' = [batch EXCEPT ![Host(r)] = @ \ {r}]
  /\ UNCHANGED <<polled, seen>>

\* An exception leaves gather at once; the other runs of the batch go on alone.
RunRaises(r) ==
  /\ run' = [run EXCEPT ![r] = FreeRun]
  /\ batch' = [batch EXCEPT ![Host(r)] = IF r \in @ THEN {} ELSE @]
  /\ UNCHANGED <<polled, seen>>

RunGoes(r, state) ==
  /\ run' = [run EXCEPT ![r] = state]
  /\ UNCHANGED <<polled, seen, batch>>

\* The run's session loads the task and its phase.
Loaded(r, next) ==
  LET row == task[TaskOf(r)]
  IN  [run[r] EXCEPT !.pc = next, !.work = row.result,
                     !.hasOwner = (row.owner # NoWorker), !.hasLease = (row.lease # "none"),
                     !.phase = phase[PhaseIdOf(r)]]

RunBegin(r) ==
  /\ run[r].pc = "begin"
  /\ \/ /\ task[TaskOf(r)].status # "in_progress"
        /\ RunReturns(r)
     \/ /\ task[TaskOf(r)].status = "in_progress"
        /\ RunGoes(r, Loaded(r, IF Pending(task[TaskOf(r)].result) = {} THEN "refresh" ELSE "scan"))
     \/ \* no active asset left, or a credential envelope that cannot be opened
        /\ task[TaskOf(r)].status = "in_progress"
        /\ RunGoes(r, Loaded(r, "reject"))
  /\ UNCHANGED <<rows, direct, ghosts>>

\* The row without the owner and the lease the session saw on it.
Released(row, r) ==
  [row EXCEPT !.owner = IF run[r].hasOwner THEN NoWorker ELSE @,
              !.lease = IF run[r].hasLease THEN "none" ELSE @]

RunReject(r) ==
  /\ run[r].pc = "reject" /\ Unlocked({TaskOf(r)})
  /\ task' = [task EXCEPT ![TaskOf(r)] =
       [Released(@, r) EXCEPT !.status = "failed",
                              !.result = [run[r].work EXCEPT !.state = "failed"]]]
  /\ RunGoes(r, [run[r] EXCEPT !.pc = "reconcile"])
  /\ UNCHANGED <<phase, direct, ghosts>>

Stopped(row) ==
  row.status # "in_progress" \/ row.cancel \/ row.result.state = "cancelled"

MutantByIdOnly(r) == ~task[TaskOf(r)].cancel
\* The WHERE clause of the checkpoint UPDATE.
MayCheckpoint(r) ==
  LET row == task[TaskOf(r)]
  IN  row.status = "in_progress" /\ ~row.cancel /\ row.owner = Host(r)

\* Target g answers: save the checkpoint, or give up when the row is not ours.
TargetDone(r, g, verdict) ==
  LET work == [run[r].work EXCEPT !.state = "running",
                 !.assets[g] = [verdict |-> verdict, sub |-> run[r].work.sub]]
  IN  /\ run[r].pc = "scan" /\ Unlocked({TaskOf(r)})
      /\ g \in Pending(run[r].work)
      /\ \/ /\ MayCheckpoint(r)
            /\ task' = [task EXCEPT ![TaskOf(r)].result = work]
            /\ RunGoes(r, [run[r] EXCEPT
                 !.work = work,
                 !.pc = IF Pending(work) = {} THEN "refresh" ELSE "scan",
                 !.renewing = IF Pending(work) = {} THEN FALSE ELSE @])
         \/ ~MayCheckpoint(r) /\ RunReturns(r) /\ UNCHANGED task
      /\ UNCHANGED <<phase, direct, ghosts>>

\* _monitor_task: read the row at each heartbeat; end the run or renew the lease.
MonitorRead(r) ==
  /\ run[r].pc = "scan" /\ ~run[r].renewing
  /\ IF Stopped(task[TaskOf(r)]) \/ task[TaskOf(r)].owner # Host(r)
     THEN RunReturns(r)
     ELSE RunGoes(r, [run[r] EXCEPT !.renewing = TRUE])
  /\ UNCHANGED <<rows, direct, ghosts>>

MonitorRenew(r) ==
  /\ run[r].pc = "scan" /\ run[r].renewing /\ Unlocked({TaskOf(r)})
  /\ task' = [task EXCEPT ![TaskOf(r)].lease = "live"]
  /\ RunGoes(r, [run[r] EXCEPT !.renewing = FALSE])
  /\ UNCHANGED <<phase, direct, ghosts>>

\* db.refresh(task): the run goes on unless the task was stopped.  It does not
\* ask whether the lease is still its own.
RunRefresh(r) ==
  /\ run[r].pc = "refresh"
  /\ \/ Stopped(task[TaskOf(r)]) /\ RunReturns(r)
     \/ /\ ~Stopped(task[TaskOf(r)])
        /\ RunGoes(r, [Loaded(r, "finish") EXCEPT !.work = run[r].work, !.phase = run[r].phase])
  /\ UNCHANGED <<rows, direct, ghosts>>

FinalResult(r) == [run[r].work EXCEPT !.state = "finished"]

\* complete_task: the flush of the lease fields locks the row, then the other
\* tasks of the phase are counted as they are committed.
RunCompletes(r) ==
  LET t == TaskOf(r)
  IN  /\ run[r].pc = "finish" /\ AllPassed(run[r].work)
      /\ Unlocked({t}) /\ Taken(task[t])
      /\ RunGoes(r, [run[r] EXCEPT !.pc = "commit", !.next = CompletedPhase(t, run[r].phase)])
      /\ UNCHANGED <<rows, direct, ghosts>>

RunCommits(r) ==
  LET t == TaskOf(r)
  IN  /\ run[r].pc = "commit"
      /\ task' = [task EXCEPT ![t] =
           [Released(@, r) EXCEPT !.status = "completed", !.result = FinalResult(r)]]
      /\ phase' = [phase EXCEPT ![PhaseOf[t]] = Flushed(@, run[r].phase, run[r].next)]
      /\ IF run[r].next = "completed"
         THEN RunGoes(r, [run[r] EXCEPT !.pc = "activate"])
         ELSE RunReturns(r)
      /\ UNCHANGED <<direct, ghosts>>

\* complete_task raises "Task was stopped before completion"; nothing is written.
RunStoppedLate(r) ==
  /\ run[r].pc = "finish" /\ AllPassed(run[r].work)
  /\ Unlocked({TaskOf(r)}) /\ ~Taken(task[TaskOf(r)])
  /\ RunRaises(r)
  /\ UNCHANGED <<rows, direct, ghosts>>

\* Some target failed: the failing UPDATE is guarded, the flush before it is not.
RunFails(r) ==
  LET t == TaskOf(r)
      failed == task[t].status = "in_progress" /\ ~task[t].cancel
  IN  /\ run[r].pc = "finish" /\ ~AllPassed(run[r].work) /\ Unlocked({t})
      /\ task' = [task EXCEPT ![t] =
           IF failed
           THEN [@ EXCEPT !.status = "failed", !.result = FinalResult(r),
                          !.owner = NoWorker, !.lease = "none"]
           ELSE Released(@, r)]
      /\ RunGoes(r, [run[r] EXCEPT !.pc = "reconcile"])
      /\ UNCHANGED <<phase, direct, ghosts>>

\* reconcile_phase_progress in the run's session, for which its own task failed.
RunReconciles(r) ==
  LET p == PhaseIdOf(r)
      tasks == [task EXCEPT ![TaskOf(r)].status = "failed"]
      new == ReconciledPhase(tasks, phase, p, run[r].phase)
  IN  /\ run[r].pc = "reconcile"
      /\ phase' = [phase EXCEPT ![p] = Flushed(@, run[r].phase, new)]
      /\ IF new = "completed"
         THEN RunGoes(r, [run[r] EXCEPT !.pc = "activate"])
         ELSE RunReturns(r)
      /\ UNCHANGED <<task, direct, ghosts>>

RunActivates(r) ==
  /\ run[r].pc = "activate"
  /\ phase' = NextActivated(phase, PhaseIdOf(r))
  /\ RunReturns(r)
  /\ UNCHANGED <<task, direct, ghosts>>

RunStep(r) ==
  \/ RunBegin(r) \/ RunReject(r)
  \/ \E g \in Targets, verdict \in {"ok", "bad"} : TargetDone(r, g, verdict)
  \/ RunRefresh(r) \/ RunCompletes(r) \/ RunCommits(r) \/ RunStoppedLate(r) \/ RunFails(r)
  \/ RunReconciles(r) \/ RunActivates(r)

MonitorStep(r) == MonitorRead(r) \/ MonitorRenew(r)

-----------------------------------------------------------------------------
(* Failures and time.                                                       *)

\* The worker process dies and is restarted.
WorkerCrash(w) ==
  /\ polled[w] # {} \/ \E r \in Jobs : Host(r) = w /\ run[r].pc # "free"
  /\ run' = [r \in Jobs |-> IF Host(r) = w THEN FreeRun ELSE run[r]]
  /\ batch' = [batch EXCEPT ![w] = {}]
  /\ polled' = [polled EXCEPT ![w] = {}]
  /\ seen' = [seen EXCEPT ![w] = [t \in Tasks |-> BlankRow]]
  /\ UNCHANGED <<rows, direct, ghosts>>

\* Minutes pass without a heartbeat.  A poll's transaction is shorter than that.
LeaseExpires(t) ==
  /\ task[t].lease = "live"
  /\ \A w \in Workers : polled[w] = {}
  /\ task' = [task EXCEPT ![t].lease = "expired"]
  /\ UNCHANGED <<phase, workers, direct, ghosts>>

WorkerNext ==
  \/ \E w \in Workers : PollRead(w) \/ PollCommit(w) \/ WorkerCrash(w)
  \/ \E r \in Jobs : RunStep(r) \/ MonitorStep(r)
  \/ \E t \in Tasks : LeaseExpires(t)

Next ==
  \/ \E t \in Tasks : TaskRequest(t) \/ DirectStep(t)
  \/ \E p \in Phases : PhaseRequest(p)
  \/ Migrate
  \/ WorkerNext

Spec == Init /\ [][Next]_vars

\* A lease nobody renews runs out.
LeaseLapses(t) ==
  LeaseExpires(t) /\ \A r \in Jobs : TaskOf(r) = t => run[r].pc # "scan"

\* Workers poll, tools return (they have time-outs), leases run out; a worker
\* is not killed inside every one of its poll transactions.
WorkerFairness ==
  /\ \A w \in Workers : WF_vars(PollRead(w)) /\ SF_vars(PollCommit(w))
  /\ \A r \in Jobs : WF_vars(RunStep(r))
  /\ \A t \in Tasks : WF_vars(LeaseLapses(t))

-----------------------------------------------------------------------------
(* Properties.                                                              *)

\* Every row, blob and program counter is one the tables and coroutines can hold;
\* in particular polls never count an attempt beyond MaxAttempts.
TypeOK ==
  /\ task \in [Tasks -> Row]
  /\ phase \in [Phases -> PhaseStatus]
  /\ polled \in [Workers -> SUBSET Tasks]
  /\ seen \in [Workers -> [Tasks -> Row]]
  /\ batch \in [Workers -> SUBSET Jobs]
  /\ run \in [Jobs -> RunState]
  /\ direct \in [Tasks -> DirectState]
  /\ subs \in [Tasks -> Subs]
  /\ launches \in [Tasks -> Nat]

\* A stop is final until the user starts or resets the task again: no worker,
\* late tool result or exhausted recovery turns a stopped row into anything else.
StopIsFinal == \A t \in Tasks : task[t].cancel => task[t].status = "failed"

\* A completed task carries a passing result for every target: no stale
\* checkpoint, requeue or give-up writes over half of (status, result).
CompletedIsCovered ==
  \A t \in Tasks : task[t].status = "completed" => AllPassed(task[t].result)

\* Between the decision of complete_task and its commit nobody takes the task
\* away: the row it is about to complete is still in progress (or already
\* completed), not stopped, and a run completes it only on passing results.
CommitsHold ==
  /\ \A r \in Jobs :
       run[r].pc = "commit" => Taken(task[TaskOf(r)]) /\ AllPassed(run[r].work)
  /\ \A t \in Tasks : direct[t].pc = "commit" => Taken(task[t])

\* Every result blob that exists anywhere (the row, a poll's copy, a run's copy)
\* holds checkpoints of one execution only, although runs of several
\* executions of the task write whole blobs over each other.
Unmixed(result) ==
  \A g \in Targets :
     result.assets[g].verdict # "none" => result.assets[g].sub = result.sub

ResultsUnmixed ==
  /\ \A t \in Tasks : Unmixed(task[t].result)
  /\ \A w \in Workers : \A t \in Tasks : Unmixed(seen[w][t].result)
  /\ \A r \in Jobs : Unmixed(run[r].work)

\* The attempt counter in the row never lags behind the runs really launched for
\* the current request, so a task that keeps crashing its worker is launched at
\* most MaxAttempts times, although polls write counters they read earlier.
AttemptsCounted ==
  \A t \in Tasks :
     /\ launches[t] <= MaxAttempts
     /\ Polls(task[t]) => launches[t] <= task[t].result.attempts

InFlight(row) == row.status = "in_progress" /\ row.result.state \in {"queued", "running"}

\* A queued task leaves the queue, settled or stopped, although workers crash,
\* leases lapse under a live run, and a late heartbeat re-arms a lease that
\* belongs to nobody.
QueuedIsSettled == \A t \in Tasks : InFlight(task[t]) ~> ~InFlight(task[t])

\* The migration leaves no phase open behind an unfinished one, and running it a
\* second time changes nothing, whatever order of reopened, reset and late
\* completed phases it finds.
MigrationRestoresOrder ==
  [][Migrate => InOrder(phase') /\ RepairedPhases(task, phase') = phase']_vars

\* "Expired leases are safe to retry": retrying does not undo what the first
\* holder of the lease completed.
RetryIsSafe ==
  [][\A t \in Tasks : task[t].status = "completed" => task'[t].status # "failed"]_vars

\* Once all tasks of a phase are completed and nobody works on it any more, the
\* phase is completed: the last task to finish completes it.
LastTaskCompletesPhase ==
  \A p \in Phases :
     /\ TasksOf(p) # {}
     /\ \A t \in TasksOf(p) : task[t].status = "completed" /\ direct[t].pc = "idle"
     /\ \A r \in Jobs : PhaseIdOf(r) = p => run[r].pc = "free"
     => phase[p] = "completed"

\* Whatever activates a phase checks that all phases before it are completed.
ActivationIsOrdered ==
  [][\A p \in Phases :
       phase[p] = "pending" /\ phase'[p] = "active" => PriorDone(phase', p)]_vars

=============================================================================
