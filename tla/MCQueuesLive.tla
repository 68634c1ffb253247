---------------------------- MODULE MCQueuesLive ----------------------------
(***************************************************************************)
(* What the queues of technical tasks and of retests settle, under the     *)
(* fairness of both.  They share no row, so the run follows one at a time; *)
(* the other is at rest, where its workers find nothing to do and its      *)
(* fairness asks for no step.                                              *)
(***************************************************************************)
EXTENDS MCVerificationQueue

CONSTANTS Tasks, Targets, NPhases, PhaseOf, NoWorker, MaxSubs, Slots

VARIABLES role, task, phase, qpolled, qseen, qbatch, run, direct, subs, launches
queueVars == <<task, phase, qpolled, qseen, qbatch, run, direct, subs, launches>>

Q == INSTANCE MCAssessmentQueue WITH polled <- qpolled, seen <- qseen, batch <- qbatch

FirstPhase == [t \in Tasks |-> 1]

AllInit == role \in {"tasks", "retests"} /\ Init /\ Q!Init
AllNext ==
  /\ UNCHANGED role
  /\ \/ role = "tasks" /\ Q!QueueNext /\ UNCHANGED vars
     \/ role = "retests" /\ Next /\ UNCHANGED queueVars
AllSpec == AllInit /\ [][AllNext]_<<role, vars, queueVars>> /\ Fairness /\ Q!WorkerFairness

QueuedIsSettled == Q!QueuedIsSettled
=============================================================================
