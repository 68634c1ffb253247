------------------------------ MODULE FlowRows ------------------------------
(***************************************************************************)
(* The rows that the flow engine and the assessment workers share: one     *)
(* TaskInstance row per formal check and one PhaseInstance row per phase,  *)
(* with the pure part of services/flow_engine.py, the functions from rows  *)
(* to rows that its methods compute inside one database transaction.       *)
(*                                                                         *)
(* Time stamps, names and tool output are left out.  A lease is "none"     *)
(* (NULL), "live" (lease_expires_at in the future) or "expired".  What a   *)
(* tool reports on a target is a verdict: "ok" or "bad" ("failed" or       *)
(* blocking), together with the submission it was obtained for.            *)
(*                                                                         *)
(* An operator whose name begins with Mutant is a faulty variant of the    *)
(* definition that follows it; no specification uses it.                   *)
(***************************************************************************)
EXTENDS Integers

CONSTANTS
  Tasks,        \* the TaskInstance rows of one assessment
  Targets,      \* the asset values every automated task is run against
  NPhases,      \* number of ordered phases
  PhaseOf,      \* [Tasks -> 1..NPhases], TaskInstance.phase_id
  Workers,      \* WORKER_ID of each assessment worker process
  NoWorker,     \* lease_owner IS NULL
  MaxAttempts,  \* settings.TASK_MAX_RECOVERY_ATTEMPTS
  MaxSubs       \* bound on the executions requested for one task

ASSUME NPhasesAssumption == NPhases \in Nat \ {0}
ASSUME PhaseOfAssumption == PhaseOf \in [Tasks -> 1..NPhases]
ASSUME NoWorkerAssumption == NoWorker \notin Workers
ASSUME BoundsAssumption == MaxAttempts \in Nat \ {0} /\ MaxSubs \in Nat \ {0}

Phases == 1..NPhases
Subs == 0..MaxSubs

TaskStatus == {"todo", "in_progress", "completed", "failed", "cancelled"}
PhaseStatus == {"pending", "active", "completed"}
ExecutionState == {"none", "queued", "running", "finished", "failed", "cancelled"}
Lease == {"none", "live", "expired"}

\* StateMachine.TASK_TRANSITIONS
TaskTransitions ==
  { <<"todo", "in_progress">>, <<"todo", "cancelled">>,
    <<"in_progress", "completed">>, <<"in_progress", "failed">>,
    <<"completed", "todo">>, <<"failed", "in_progress">>,
    <<"cancelled", "todo">> }

CanTransition(from, to) == <<from, to>> \in TaskTransitions

-----------------------------------------------------------------------------
(* TaskInstance.result: the execution envelope and its checkpoints.        *)

AssetResult == [verdict : {"none", "ok", "bad"}, sub : Subs]
NoAssetResult == [verdict |-> "none", sub |-> 0]
Nothing == [g \in Targets |-> NoAssetResult]

Result == [state : ExecutionState, sub : Subs, attempts : 0..MaxAttempts,
           assets : [Targets -> AssetResult]]

NoResult == [state |-> "none", sub |-> 0, attempts |-> 0, assets |-> Nothing]

Row == [status : TaskStatus, cancel : BOOLEAN, owner : Workers \cup {NoWorker},
        lease : Lease, result : Result]

BlankRow == [status |-> "todo", cancel |-> FALSE, owner |-> NoWorker,
             lease |-> "none", result |-> NoResult]

\* The targets an execution has no checkpoint for.
Pending(result) == {g \in Targets : result.assets[g].verdict = "none"}

\* _aggregate: nothing failed and every target reported.
AllPassed(result) == \A g \in Targets : result.assets[g].verdict = "ok"

-----------------------------------------------------------------------------
(* start_task, and what queue_assessment_task then writes.                  *)

PriorDone(phases, p) == \A q \in Phases : q < p => phases[q] = "completed"

Startable(tasks, phases, t) ==
  /\ CanTransition(tasks[t].status, "in_progress")
  /\ \/ phases[PhaseOf[t]] # "pending"
     \/ PriorDone(phases, PhaseOf[t])

StartedPhase(phases, p) ==
  [phases EXCEPT ![p] = IF @ = "pending" THEN "active" ELSE @]

StartedRow(row) == [row EXCEPT !.status = "in_progress", !.cancel = FALSE]

MutantKeepsCheckpoints(row, s) ==
  [StartedRow(row) EXCEPT
     !.owner = NoWorker, !.lease = "none",
     !.result = [@ EXCEPT !.state = "queued", !.sub = s, !.attempts = 0]]
QueuedRow(row, s) ==
  [StartedRow(row) EXCEPT
     !.owner = NoWorker, !.lease = "none",
     !.result = [state |-> "queued", sub |-> s, attempts |-> 0, assets |-> Nothing]]

\* stop_task; a row without an execution envelope gets none.
StoppedRow(row) ==
  [row EXCEPT !.status = "failed", !.cancel = TRUE, !.owner = NoWorker, !.lease = "none",
              !.result = IF @.state = "none" THEN @ ELSE [@ EXCEPT !.state = "cancelled"]]

-----------------------------------------------------------------------------
(* Phase progress.  A session keeps the PhaseInstance object it loaded      *)
(* first (expire_on_commit=False), so `loaded' may be older than the row,   *)
(* and an attribute reaches the row only if its value changed.              *)

Terminal == {"completed", "failed", "cancelled"}

TasksOf(p) == {t \in Tasks : PhaseOf[t] = p}

AllTerminal(tasks, p) ==
  /\ TasksOf(p) # {}
  /\ \A t \in TasksOf(p) : tasks[t].status \in Terminal

\* The phase part of complete_task and skip_task.
RecountedPhase(tasks, p, loaded) ==
  IF AllTerminal(tasks, p) THEN "completed"
  ELSE IF loaded = "pending" THEN "active" ELSE loaded

\* reconcile_phase_progress
ReconciledPhase(tasks, phases, p, loaded) ==
  IF ~PriorDone(phases, p) THEN "pending"
  ELSE IF AllTerminal(tasks, p) THEN "completed"
  ELSE IF \E t \in TasksOf(p) : tasks[t].status # "todo" THEN "active"
  ELSE loaded

\* UPDATE of one attribute at flush.
Flushed(inRow, loaded, new) == IF new = loaded THEN inRow ELSE new

\* _activate_next_phase: the first pending phase whose predecessors are done,
\* as seen by a session for which phase p is completed.
Ready(phases) == {q \in Phases : phases[q] = "pending" /\ PriorDone(phases, q)}

NextActivated(phases, p) ==
  LET seen == [phases EXCEPT ![p] = "completed"]
  IN  [q \in Phases |-> IF q \in Ready(seen) THEN "active" ELSE phases[q]]

-----------------------------------------------------------------------------
(* reset_task and _reset_phase_state.                                       *)

TasksFrom(p) == {t \in Tasks : PhaseOf[t] >= p}

BlankedTasks(tasks, blanked) ==
  [t \in Tasks |-> IF t \in blanked THEN BlankRow ELSE tasks[t]]

ReopenedPhase(phases, p) ==
  [phases EXCEPT ![p] = IF @ = "completed" THEN "pending" ELSE @]

PendingFrom(phases, p) ==
  [q \in Phases |-> IF q >= p THEN "pending" ELSE phases[q]]

ResetTasks(tasks, t) == BlankedTasks(tasks, {t} \cup TasksFrom(PhaseOf[t] + 1))
ResetPhases(phases, t) == ReopenedPhase(PendingFrom(phases, PhaseOf[t] + 1), PhaseOf[t])

-----------------------------------------------------------------------------
(* reconcile_all_assessment_progress: phases recomputed from task states,   *)
(* then every phase behind an unfinished one made pending again.            *)

RecomputedPhase(tasks, p, status) ==
  IF AllTerminal(tasks, p) THEN "completed"
  ELSE IF TasksOf(p) # {} /\ status = "completed" THEN "pending"
  ELSE status

InOrder(phases) == \A p \in Phases : phases[p] # "pending" => PriorDone(phases, p)

\* One pass that looks at the rows as they were, not as they are recomputed.
MutantOnePass(tasks, phases) ==
  [p \in Phases |->
     IF PriorDone(phases, p) THEN RecomputedPhase(tasks, p, phases[p]) ELSE "pending"]
RepairedPhases(tasks, phases) ==
  LET recomputed == [p \in Phases |-> RecomputedPhase(tasks, p, phases[p])]
  IN  [p \in Phases |-> IF PriorDone(recomputed, p) THEN recomputed[p] ELSE "pending"]
=============================================================================
