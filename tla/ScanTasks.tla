------------------------------ MODULE ScanTasks ------------------------------
(***************************************************************************)
(* The scans of the assistant: a plan of steps, queued as a row of         *)
(* scan_tasks.  Users pause, resume and stop a scan (api/tasks.py); the    *)
(* API process keeps a control state of its own in memory, the interactive *)
(* worker claims the rows, executes the steps one by one and recovers the  *)
(* scans whose lease ran out (orchestrator.py, execution_engine.py), with  *)
(* TASK_EXECUTION_MODE=worker as docker-compose.yml sets it.               *)
(***************************************************************************)
EXTENDS Integers, FiniteSets, FiniteSetsExt

CONSTANTS
  Scans,         \* scans users may start
  PlanLength,    \* steps of a plan
  ScanLimit,     \* scans the worker may execute at once (runtime_resources)
  TaskSlots,     \* asyncio tasks of one scan alive at once (a bound)
  MaxRestarts    \* restarts of the API process or of the worker (a bound)

ASSUME ScanAssumption ==
  /\ PlanLength \in Nat \ {0} /\ TaskSlots \in Nat /\ MaxRestarts \in Nat /\ ScanLimit \in Nat
  /\ "none" \notin Scans

Plan == 1 .. PlanLength
TaskIds == 1 .. TaskSlots
ActiveScan == {"pending", "running"}
EndedScan == {"completed", "failed", "cancelled"}
Controls == {"queued", "running", "paused"} \cup EndedScan
\* shown: progress["status"] is "paused".  A paused lease lasts ten years.
\* done: the steps whose checkpoint says success.
ScanRow == [status : {"none"} \cup ActiveScan \cup EndedScan, control : Controls, shown : BOOLEAN,
            lease : {"none", "live", "expired", "paused"}, done : SUBSET Plan]
\* An asyncio task of the worker.  ending: all steps done, the summary is written;
\* tidying: completed, and still (tidied: no longer) in active_tasks; failing and
\* cancelling: the verdict of an exception, still to be written.
Working == {"begin", "between", "step", "ending"}
TaskPc == Working \cup {"none", "tidying", "tidied", "failing", "cancelling"}
ScanTask == [pc : TaskPc, left : SUBSET Plan]
\* The poll of the worker: a claimed row, then the row it has read and changed.
Poll == [scan : Scans \cup {"none"}, read : BOOLEAN, wasPending : BOOLEAN, wasRunning : BOOLEAN]

VARIABLES
  scan,      \* [Scans -> ScanRow]
  api,       \* [Scans -> {"none", "running", "paused", "stopped"}], task_status of the API
  stask,     \* [Scans -> [TaskIds -> ScanTask]]
  active,    \* [Scans -> {0} \cup TaskIds], active_tasks of the worker
  poll,      \* Poll
  revived,   \* [Scans -> BOOLEAN], history: a user resumed the scan after its end
  restarts   \* 0 .. MaxRestarts

scanVars == <<scan, api, stask, active, poll, revived, restarts>>

NoScan == [status |-> "none", control |-> "queued", shown |-> FALSE, lease |-> "none", done |-> {}]
NoTask == [pc |-> "none", left |-> {}]
NoPoll == [scan |-> "none", read |-> FALSE, wasPending |-> FALSE, wasRunning |-> FALSE]

ScanInit ==
  /\ scan = [s \in Scans |-> NoScan]
  /\ api = [s \in Scans |-> "none"]
  /\ stask = [s \in Scans |-> [k \in TaskIds |-> NoTask]]
  /\ active = [s \in Scans |-> 0]
  /\ poll = NoPoll
  /\ revived = [s \in Scans |-> FALSE]
  /\ restarts = 0

Live(s) == scan[s].status \in ActiveScan
SetScan(s, row) == scan' = [scan EXCEPT ![s] = row]

-----------------------------------------------------------------------------
(* Requests.                                                                *)

\* start_async_plan in worker mode.
Submit(s) ==
  /\ scan[s].status = "none"
  /\ SetScan(s, [NoScan EXCEPT !.status = "pending"])
  /\ api' = [api EXCEPT ![s] = "running"]
  /\ UNCHANGED <<stask, active, poll, revived, restarts>>

\* pause_task: the status of the row counts only when the API's memory does not know
\* the scan.  The status stays as it is.
Pause(s) ==
  /\ scan[s].status # "none" /\ (api[s] = "running" \/ Live(s))
  /\ api' = [api EXCEPT ![s] = IF @ = "running" THEN "paused" ELSE @]
  /\ SetScan(s, [scan[s] EXCEPT !.control = "paused", !.shown = TRUE, !.lease = "paused"])
  /\ UNCHANGED <<stask, active, poll, revived, restarts>>

\* resume_task: without the memory, progress must say paused.
Resume(s) ==
  LET known == api[s] = "paused"
  IN  /\ scan[s].status # "none" /\ (known \/ scan[s].shown)
      /\ api' = [api EXCEPT ![s] = IF known THEN "running" ELSE @]
      /\ SetScan(s, [scan[s] EXCEPT
                       !.status = IF ~known /\ @ = "pending" THEN @ ELSE "running",
                       !.control = "running", !.shown = FALSE, !.lease = "none"])
      /\ revived' = [revived EXCEPT ![s] = @ \/ scan[s].status \in EndedScan]
      /\ UNCHANGED <<stask, active, poll, restarts>>

\* stop_task: the memory knows a scan for as long as the process lives.
StopScan(s) ==
  /\ scan[s].status # "none" /\ (api[s] # "none" \/ Live(s))
  /\ api' = [api EXCEPT ![s] = IF @ = "none" THEN @ ELSE "stopped"]
  /\ SetScan(s, [scan[s] EXCEPT !.status = "cancelled", !.control = "cancelled",
                                !.shown = FALSE, !.lease = "none"])
  /\ UNCHANGED <<stask, active, poll, revived, restarts>>

Restarting == restarts < MaxRestarts /\ restarts' = restarts + 1
ApiRestarts ==
  /\ \E s \in Scans : api[s] # "none"
  /\ Restarting
  /\ api' = [s \in Scans |-> "none"]
  /\ UNCHANGED <<scan, stask, active, poll, revived>>

-----------------------------------------------------------------------------
(* The poll of the worker, recover_incomplete_scan_tasks.                   *)

MutantEligible(s) ==
  Live(s) /\ scan[s].control \notin {"paused", "cancelled"} /\ scan[s].lease = "none"
Eligible(s) ==
  Live(s) /\ scan[s].control \notin {"paused", "cancelled"} /\ scan[s].lease \in {"none", "expired"}

\* task_id not in self.active_tasks
Unknown(s) == active[s] = 0
Room == Cardinality({s \in Scans : active[s] # 0}) < ScanLimit
FreeIds(s) == {k \in TaskIds : stask[s][k].pc = "none"}

\* The claim is committed ...
ClaimScan(s) ==
  /\ poll = NoPoll /\ Eligible(s) /\ Unknown(s) /\ Room /\ FreeIds(s) # {}
  /\ SetScan(s, [scan[s] EXCEPT !.lease = "live"])
  /\ poll' = [NoPoll EXCEPT !.scan = s]
  /\ UNCHANGED <<api, stask, active, revived, restarts>>

MutantRemaining(row) == Plan
\* The steps without a successful checkpoint.
Remaining(row) == Plan \ row.done

\* ... the row is read again, changed in the session, and the asyncio task created ...
Launch(s) ==
  LET k == Min(FreeIds(s))
  IN  /\ poll.scan = s /\ ~poll.read
      /\ poll' = [scan |-> s, read |-> TRUE, wasPending |-> scan[s].status # "running",
                  wasRunning |-> scan[s].control = "running"]
      /\ stask' = [stask EXCEPT ![s] =
                     [@ EXCEPT ![k] = [pc |-> "begin", left |-> Remaining(scan[s])]]]
      /\ active' = [active EXCEPT ![s] = k]
      /\ UNCHANGED <<scan, api, revived, restarts>>

\* ... and the changed columns are written, with no test, when the poll goes on.
LaunchWrites(s) ==
  /\ poll.scan = s /\ poll.read
  /\ SetScan(s, [scan[s] EXCEPT !.status = IF poll.wasPending THEN "running" ELSE @,
                                !.control = IF poll.wasRunning THEN @ ELSE "running",
                                !.shown = FALSE])
  /\ poll' = NoPoll
  /\ UNCHANGED <<api, stask, active, revived, restarts>>

-----------------------------------------------------------------------------
(* An execution, _execute_plan_async and execute_plan.                      *)

TaskAt(s, k, pc) == stask[s][k].pc = pc
SetTask(s, k, task) == stask' = [stask EXCEPT ![s] = [@ EXCEPT ![k] = task]]
Moves(s, k, pc) == SetTask(s, k, [stask[s][k] EXCEPT !.pc = pc])
\* active_tasks.pop(task_id)
Pop(s) == active' = [active EXCEPT ![s] = 0]

\* The first write: running, whatever happened since the claim.  The control state is
\* kept when it is paused or cancelled, and so is the lease of a paused scan.  The poll
\* has sent its own write of the row before the task runs, and holds the row's lock.
BeginScan(s, k) ==
  /\ TaskAt(s, k, "begin") /\ poll.scan # s
  /\ SetScan(s, [scan[s] EXCEPT !.status = "running", !.shown = FALSE,
                                !.control = IF @ = "queued" THEN "running" ELSE @,
                                !.lease = IF scan[s].control = "paused" THEN @ ELSE "live"])
  /\ Moves(s, k, "between")
  /\ UNCHANGED <<api, active, poll, revived, restarts>>

\* wait_if_paused finds the scan cancelled: execute_plan stops, which raises.
HearCancel(s, k) ==
  /\ TaskAt(s, k, "between") /\ stask[s][k].left # {} /\ scan[s].status = "cancelled"
  /\ Moves(s, k, "cancelling") /\ Pop(s)
  /\ UNCHANGED <<scan, api, poll, revived, restarts>>

\* ... finds it neither cancelled nor paused, and the step is executed.
StartStep(s, k) ==
  /\ TaskAt(s, k, "between") /\ stask[s][k].left # {}
  /\ scan[s].status # "cancelled" /\ scan[s].control # "paused"
  /\ Moves(s, k, "step")
  /\ UNCHANGED <<scan, api, active, poll, revived, restarts>>

\* What _persist_step_outcome and _persist_live_progress write to a live row.
Renewed(row) == [row EXCEPT !.shown = FALSE, !.lease = "live"]

\* A task is at work and a progress message of it is stored.
Progress(s) ==
  /\ \E k \in TaskIds : stask[s][k].pc \in {"between", "step", "ending"}
  /\ Live(s)
  /\ SetScan(s, Renewed(scan[s]))
  /\ UNCHANGED <<api, stask, active, poll, revived, restarts>>

\* The tool ends; its outcome is stored only if the scan is pending or running.
EndStep(s, k) ==
  LET p == Min(stask[s][k].left)
  IN  /\ TaskAt(s, k, "step")
      /\ \E success \in BOOLEAN :
           SetScan(s, IF Live(s)
                      THEN [Renewed(scan[s]) EXCEPT !.done = IF success THEN @ \cup {p} ELSE @ \ {p}]
                      ELSE scan[s])
      /\ SetTask(s, k, [pc |-> "between", left |-> stask[s][k].left \ {p}])
      /\ UNCHANGED <<api, active, poll, revived, restarts>>

FinishPlan(s, k) ==
  /\ TaskAt(s, k, "between") /\ stask[s][k].left = {}
  /\ Moves(s, k, "ending")
  /\ UNCHANGED <<scan, api, active, poll, revived, restarts>>

\* _persist_scan_task_state with a final status, which does not look at the row.
Ended(row, status) == [row EXCEPT !.status = status, !.control = status, !.lease = "none"]

Complete(s, k) ==
  /\ TaskAt(s, k, "ending")
  /\ SetScan(s, Ended(scan[s], "completed"))
  /\ Moves(s, k, "tidying")
  /\ UNCHANGED <<api, active, poll, revived, restarts>>

\* Audit, memories and the conversation follow, around active_tasks.pop.
Tidy(s, k) ==
  /\ \/ TaskAt(s, k, "tidying") /\ Moves(s, k, "tidied") /\ Pop(s)
     \/ TaskAt(s, k, "tidied") /\ SetTask(s, k, NoTask) /\ UNCHANGED active
  /\ UNCHANGED <<scan, api, poll, revived, restarts>>

\* Any of this may raise, even after the row says completed.
Raise(s, k) ==
  /\ stask[s][k].pc \in {"ending", "tidying", "tidied"} \/ (TaskAt(s, k, "begin") /\ poll.scan # s)
  /\ Moves(s, k, "failing") /\ Pop(s)
  /\ UNCHANGED <<scan, api, poll, revived, restarts>>

WriteVerdict(s, k) ==
  /\ TaskAt(s, k, "failing") \/ TaskAt(s, k, "cancelling")
  /\ SetScan(s, Ended(scan[s], IF TaskAt(s, k, "failing") THEN "failed" ELSE "cancelled"))
  /\ SetTask(s, k, NoTask)
  /\ UNCHANGED <<api, active, poll, revived, restarts>>

\* The worker process dies and starts again.
WorkerRestarts ==
  /\ poll # NoPoll \/ \E s \in Scans, k \in TaskIds : ~TaskAt(s, k, "none")
  /\ Restarting
  /\ stask' = [s \in Scans |-> [k \in TaskIds |-> NoTask]]
  /\ active' = [s \in Scans |-> 0]
  /\ poll' = NoPoll
  /\ UNCHANGED <<scan, api, revived>>

\* TASK_LEASE_MINUTES pass: the worker is gone, or a step reports no progress.
ScanLeaseExpires(s) ==
  /\ scan[s].lease = "live"
  /\ SetScan(s, [scan[s] EXCEPT !.lease = "expired"])
  /\ UNCHANGED <<api, stask, active, poll, revived, restarts>>

-----------------------------------------------------------------------------
ScanRequest == \E s \in Scans : Submit(s) \/ Pause(s) \/ Resume(s) \/ StopScan(s)
PollProgress == \E s \in Scans : ClaimScan(s) \/ Launch(s) \/ LaunchWrites(s)
TaskProgress(s, k) ==
  \/ BeginScan(s, k) \/ HearCancel(s, k) \/ StartStep(s, k) \/ EndStep(s, k)
  \/ FinishPlan(s, k) \/ Complete(s, k) \/ Tidy(s, k) \/ WriteVerdict(s, k)
ScanNext ==
  \/ ScanRequest \/ ApiRestarts \/ PollProgress \/ WorkerRestarts
  \/ \E s \in Scans :
       \/ Progress(s) \/ ScanLeaseExpires(s)
       \/ \E k \in TaskIds : TaskProgress(s, k) \/ Raise(s, k)

ScanSpec == ScanInit /\ [][ScanNext]_scanVars

-----------------------------------------------------------------------------
ScanTypeOK ==
  /\ scan \in [Scans -> ScanRow]
  /\ api \in [Scans -> {"none", "running", "paused", "stopped"}]
  /\ stask \in [Scans -> [TaskIds -> ScanTask]]
  /\ active \in [Scans -> {0} \cup TaskIds]
  /\ poll \in Poll
  /\ revived \in [Scans -> BOOLEAN]
  /\ restarts \in 0 .. MaxRestarts

\* "so a restarted worker does not rerun them" (_persist_step_outcome): the step that
\* an execution starts has no successful checkpoint, whoever stored it.
NoRerun ==
  \A s \in Scans, k \in TaskIds :
    ~revived[s] /\ TaskAt(s, k, "between") /\ stask'[s][k].pc = "step"
    => Min(stask[s][k].left) \notin scan[s].done
StepsOnce == [][NoRerun]_scanVars

\* A scan in the queue or at work ends, through restarts of both processes, unless a
\* user pauses or stops it.  (A pause that the launch writes over leaves its lease of
\* ten years behind, so the scan may wait for as long as a paused one.)
Going(s) ==
  Live(s) /\ scan[s].control \notin {"paused", "cancelled"} /\ scan[s].lease # "paused"
ScansEnd == \A s \in Scans : Going(s) ~> ~Going(s)
=============================================================================
