-------------------------- MODULE MCAssessmentQueue --------------------------
(***************************************************************************)
(* Instances of AssessmentQueue for TLC, and the parts of its next-state   *)
(* relation that the runs with more tasks or with fairness look at.        *)
(***************************************************************************)
EXTENDS AssessmentQueue, TLC

OnePhase == [t \in Tasks |-> 1]
WorkerSymmetry == Permutations(Workers)

\* Users who only start and stop tasks through the queue.
QueueNext ==
  \/ \E t \in Tasks : StartTask(t) \/ StopTask(t)
  \/ WorkerNext

QueueSpec == Init /\ [][QueueNext]_vars
FairQueueSpec == QueueSpec /\ WorkerFairness

=============================================================================
