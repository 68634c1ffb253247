-------------------------- MODULE RemoteNodesProofs --------------------------
(***************************************************************************)
(* Theorems about RemoteNodes for any number of nodes, jobs and slots, any *)
(* capacity, and any number of faults and changes; about ToolCalls for any *)
(* plan and any number of attempts, tries and lost messages; and about     *)
(* MCRemoteNodes, the run of both.                                         *)
(***************************************************************************)
EXTENDS MCRemoteNodes, FiniteSetTheorems, TLAPS

USE RemoteAssumption

\* Every set of jobs is finite.
LEMMA JobsFinite ==
  ASSUME NEW J \in SUBSET Jobs
  PROVE  IsFiniteSet(J) /\ Cardinality(J) \in Nat
BY FS_Subset, FS_CardinalityType

-----------------------------------------------------------------------------
(* Types.                                                                   *)

\* The columns that a new job gets.
LEMMA NewRowType == NewRow \in JobRow /\ NewRow.status = "queued"
<1>1. Cardinality({k \in Jobs : call[k] \notin {"idle", "chosen"}}) \in Nat
  BY JobsFinite
<1>. QED
  BY <1>1 DEF NewRow, JobRow, ActiveStatus

\* The rows, tasks and processes a step may leave.
LEMMA Typed ==
  /\ NoNode \in NodeRow /\ NoRow \in JobRow /\ NoTask \in Execution
  /\ NoTask.phase = "free" /\ NoTask.job = "none" /\ ~NoTask.monitored
  /\ NoRow.status = "none" /\ NoNode.state = "absent"
BY DEF NoNode, NodeRow, NoRow, JobRow, NoTask, Execution, TERMINAL_JOB_STATUSES, ActiveStatus

\* The assignments to columns keep a row of a job a row.
LEMMA RowEdits ==
  ASSUME NEW row \in JobRow
  PROVE  /\ [row EXCEPT !.cancel = TRUE] \in JobRow
         /\ \A b \in BOOLEAN : [row EXCEPT !.expired = b] \in JobRow
         /\ [row EXCEPT !.status = "queued", !.expired = FALSE] \in JobRow
         /\ [row EXCEPT !.status = "running", !.expired = FALSE] \in JobRow
         /\ \A st \in TERMINAL_JOB_STATUSES, b \in BOOLEAN : Ended(row, st, b) \in JobRow
BY DEF JobRow, Ended, ActiveStatus

\* What these assignments leave in the columns.
LEMMA RowColumns ==
  ASSUME NEW row \in JobRow
  PROVE  /\ [row EXCEPT !.cancel = TRUE].status = row.status
         /\ [row EXCEPT !.cancel = TRUE].expired = row.expired
         /\ \A b : [row EXCEPT !.expired = b].status = row.status
         /\ \A b : [row EXCEPT !.expired = b].expired = b
         /\ [row EXCEPT !.status = "queued", !.expired = FALSE].status = "queued"
         /\ [row EXCEPT !.status = "running", !.expired = FALSE].status = "running"
         /\ [row EXCEPT !.status = "running", !.expired = FALSE].expired = FALSE
         /\ \A st, b : Ended(row, st, b).status = st
BY DEF JobRow, Ended

\* The assignments to columns keep a row of a node a row.
LEMMA NodeEdits ==
  ASSUME NEW row \in NodeRow, NEW b \in BOOLEAN, NEW c \in BOOLEAN
  PROVE  /\ [row EXCEPT !.enabled = b, !.matches = c] \in NodeRow
         /\ [row EXCEPT !.offered = b, !.token = c] \in NodeRow
         /\ [row EXCEPT !.state = "deleted"] \in NodeRow
         /\ [row EXCEPT !.state = "deleted"].state = "deleted"
         /\ [row EXCEPT !.enabled = b, !.matches = c].max = row.max
         /\ [row EXCEPT !.offered = b, !.token = c].max = row.max
         /\ [row EXCEPT !.enabled = b, !.matches = c].state = row.state
         /\ [row EXCEPT !.offered = b, !.token = c].state = row.state
BY DEF NodeRow

\* A created node.
LEMMA CreatedType ==
  ASSUME NEW b \in BOOLEAN, NEW c \in 1 .. MaxConcurrency
  PROVE  [NoNode EXCEPT !.state = "present", !.enabled = TRUE, !.matches = b,
                        !.offered = TRUE, !.max = c] \in NodeRow
BY DEF NoNode, NodeRow

\* A deleted node.
LEMMA Deleted ==
  /\ [NoNode EXCEPT !.state = "deleted"] \in NodeRow
  /\ [NoNode EXCEPT !.state = "deleted"].state = "deleted"
BY Typed, NodeEdits

\* The assignments to a process and to a task keep their type.
LEMMA ProcessEdits ==
  ASSUME NEW p \in Process, NEW J \in SUBSET Jobs
  PROVE  /\ \A i \in {"none", "current", "revoked"} : [p EXCEPT !.identity = i] \in Process
         /\ [p EXCEPT !.running = J] \in Process
         /\ [identity |-> "none", running |-> {}] \in Process
         /\ p.running \in SUBSET Jobs
         /\ p.identity \in {"none", "current", "revoked"}
BY DEF Process

LEMMA TaskEdits ==
  ASSUME NEW e \in Execution
  PROVE  /\ [e EXCEPT !.monitored = FALSE] \in Execution
         /\ [e EXCEPT !.alive = FALSE] \in Execution
         /\ \A st \in TERMINAL_JOB_STATUSES :
              [e EXCEPT !.phase = st, !.monitored = FALSE] \in Execution
BY DEF Execution

\* Putting the lapsed jobs back keeps the table of rows.
LEMMA RequeuedType ==
  ASSUME TypeOK, NEW n \in Nodes
  PROVE  Requeued(n) \in [Jobs -> JobRow]
<1>1. \A j \in Jobs : job[j] \in JobRow
  BY DEF TypeOK
<1>2. \A j \in Jobs : [job[j] EXCEPT !.status = "queued", !.expired = FALSE] \in JobRow
  BY <1>1, RowEdits
<1>. QED
  BY <1>1, <1>2 DEF Requeued

\* What a report makes of its task.
LEMMA PostedIs ==
  ASSUME TypeOK, NEW n \in Nodes, NEW s \in Slots, NEW op \in {"completed", "failed"}
  PROVE  \/ Posted(n, s, op) = NoTask
         \/ \E st \in TERMINAL_JOB_STATUSES :
              /\ Posted(n, s, op) = [exec[n][s] EXCEPT !.phase = st, !.monitored = FALSE]
              /\ st = "completed" => op = "completed"
<1>. DEFINE st == IF job[exec[n][s].job].cancel THEN "cancelled" ELSE op
<1>1. st \in TERMINAL_JOB_STATUSES /\ (st = "completed" => op = "completed")
  BY DEF TERMINAL_JOB_STATUSES
<1>2. \/ Posted(n, s, op) = NoTask
      \/ Posted(n, s, op) = [exec[n][s] EXCEPT !.phase = st, !.monitored = FALSE]
  BY DEF Posted
<1>. HIDE DEF st
<1>. QED
  BY <1>1, <1>2

\* A slot that holds a job has a job of the table.
LEMMA PostedType ==
  ASSUME TypeOK, NEW n \in Nodes, NEW s \in Slots, NEW op \in {"completed", "failed"}
  PROVE  Posted(n, s, op) \in Execution
<1>. DEFINE st == IF job[exec[n][s].job].cancel THEN "cancelled" ELSE op
<1>1. st \in TERMINAL_JOB_STATUSES
  BY DEF TERMINAL_JOB_STATUSES
<1>2. \/ Posted(n, s, op) = NoTask
      \/ Posted(n, s, op) = [exec[n][s] EXCEPT !.phase = st, !.monitored = FALSE]
  BY DEF Posted
<1>3. exec[n][s] \in Execution
  BY DEF TypeOK
<1>. HIDE DEF st
<1>4. [exec[n][s] EXCEPT !.phase = st, !.monitored = FALSE] \in Execution
  BY <1>1, <1>3, TaskEdits
<1>. QED
  BY <1>2, <1>4, Typed

\* The tasks after a change of one slot, and the dictionary.
LEMMA BecomesType ==
  ASSUME TypeOK, NEW n \in Nodes, NEW s \in Slots, NEW e \in Execution, Becomes(n, s, e)
  PROVE  proc' \in [Nodes -> Process] /\ exec' \in [Nodes -> [Slots -> Execution]]
<1>1. exec' \in [Nodes -> [Slots -> Execution]]
  BY DEF TypeOK, Becomes
<1>2. proc[n] \in Process
  BY DEF TypeOK
<1>3. proc[n].running \ {exec[n][s].job} \in SUBSET Jobs
  BY <1>2, ProcessEdits
<1>4. [proc[n] EXCEPT !.running = proc[n].running \ {exec[n][s].job}] \in Process
  BY <1>2, <1>3, ProcessEdits
<1>. QED
  BY <1>1, <1>4 DEF TypeOK, Becomes

\* The same after a report.
LEMMA PostsType ==
  ASSUME TypeOK, NEW n \in Nodes, NEW s \in Slots, NEW op \in {"completed", "failed"},
         Posts(n, s, op)
  PROVE  /\ proc' \in [Nodes -> Process] /\ exec' \in [Nodes -> [Slots -> Execution]]
         /\ events' \in 0 .. MaxEvents
<1>1. /\ Posted(n, s, op) \in Execution /\ Posted(n, s, "failed") \in Execution
      /\ NoTask \in Execution
  BY PostedType, Typed
<1>2. events' \in 0 .. MaxEvents
  BY DEF Posts, Event, TypeOK
<1>3. (IF op = "completed" THEN Posted(n, s, "failed") ELSE NoTask) \in Execution
  BY <1>1
<1>. QED
  BY <1>1, <1>2, <1>3, BecomesType DEF Posts

\* What a report may leave of its task: nothing, or the handler that will write.
Reported(e, f, op) ==
  \/ f = NoTask
  \/ /\ f.job = e.job /\ f.phase \in TERMINAL_JOB_STATUSES /\ ~f.monitored
     /\ f.phase = "completed" => op = "completed"

LEMMA PostsStep ==
  ASSUME TypeOK, NEW n \in Nodes, NEW s \in Slots, NEW op \in {"completed", "failed"},
         Posts(n, s, op)
  PROVE  \A m \in Nodes, t \in Slots :
           \/ exec'[m][t] = exec[m][t]
           \/ m = n /\ t = s /\ Reported(exec[n][s], exec'[n][s], op)
<1>1. exec[n][s] \in Execution /\ exec \in [Nodes -> [Slots -> Execution]]
  BY DEF TypeOK
<1>2. \A st : LET f == [exec[n][s] EXCEPT !.phase = st, !.monitored = FALSE]
             IN  f.job = exec[n][s].job /\ f.phase = st /\ f.monitored = FALSE
  BY <1>1 DEF Execution
<1>3. ASSUME NEW o \in {"completed", "failed"}, o = "completed" => op = "completed"
      PROVE  Reported(exec[n][s], Posted(n, s, o), op)
  <2>. DEFINE st == IF job[exec[n][s].job].cancel THEN "cancelled" ELSE o
  <2>1. st \in TERMINAL_JOB_STATUSES /\ (st = "completed" => o = "completed")
    BY DEF TERMINAL_JOB_STATUSES
  <2>2. \/ Posted(n, s, o) = NoTask
        \/ Posted(n, s, o) = [exec[n][s] EXCEPT !.phase = st, !.monitored = FALSE]
    BY DEF Posted
  <2>. HIDE DEF st
  <2>. QED
    BY <1>2, <1>3, <2>1, <2>2 DEF Reported
<1>4. Reported(exec[n][s], NoTask, op)
  BY DEF Reported
<1>5. \E e : exec' = [exec EXCEPT ![n][s] = e] /\ Reported(exec[n][s], e, op)
  BY <1>3, <1>4 DEF Posts, Becomes
<1>. QED
  BY <1>1, <1>5

\* What a claim does to the rows: the lapsed jobs are queued again, and one job runs.
LEMMA RequeuedIs ==
  ASSUME TypeOK, NEW n \in Nodes, NEW k \in Jobs
  PROVE  /\ k \in Lapsed(n) => Requeued(n)[k].status = "queued"
         /\ k \notin Lapsed(n) => Requeued(n)[k] = job[k]
<1>1. job[k] \in JobRow
  BY DEF TypeOK
<1>2. [job[k] EXCEPT !.status = "queued", !.expired = FALSE].status = "queued"
  BY <1>1, RowColumns
<1>. QED
  BY <1>2 DEF Requeued

Fresh(j) == [job |-> j, phase |-> "working", monitored |-> TRUE, alive |-> TRUE]

LEMMA ClaimStep ==
  ASSUME TypeOK, NEW n \in Nodes, NEW j \in Jobs, Claim(n, j)
  PROVE  /\ target[j] = n /\ job[j].status \in {"queued", "running"}
         /\ job[j].status = "running" => job[j].expired
         /\ Cardinality(RunningAt(n) \ Lapsed(n)) < node[n].max
         /\ \A k \in Jobs :
              \/ k = j /\ job'[k].status = "running" /\ ~job'[k].expired
              \/ k # j /\ k \in Lapsed(n) /\ job'[k].status = "queued"
              \/ k # j /\ k \notin Lapsed(n) /\ job'[k] = job[k]
         /\ \/ UNCHANGED exec
            \/ \E s \in Slots :
                 exec[n][s] = NoTask /\ exec' = [exec EXCEPT ![n][s] = Fresh(j)]
         /\ UNCHANGED <<node, call, target, ran>>
<1>1. j \in Claimable(n) /\ Cardinality(RunningAt(n) \ Lapsed(n)) < node[n].max
  BY DEF Claim, Oldest, Room
<1>2. /\ target[j] = n /\ job[j].status \in {"queued", "running"}
      /\ job[j].status = "running" => job[j].expired
  BY <1>1 DEF Claimable, Lapsed, JobsAt, RunningAt
<1>3. Requeued(n)[j] \in JobRow /\ DOMAIN Requeued(n) = Jobs
  BY RequeuedType
<1>4. \A k \in Jobs :
        \/ k = j /\ job'[k].status = "running" /\ ~job'[k].expired
        \/ k # j /\ job'[k] = Requeued(n)[k]
  BY <1>3, RowColumns DEF Claim
<1>5. \/ UNCHANGED exec
      \/ \E s \in Slots : exec[n][s] = NoTask /\ exec' = [exec EXCEPT ![n][s] = Fresh(j)]
  BY DEF Claim, Fresh
<1>6. UNCHANGED <<node, call, target, ran>>
  BY DEF Claim
<1>. QED
  BY <1>1, <1>2, <1>4, <1>5, <1>6, RequeuedIs

LEMMA ClaimNothingStep ==
  ASSUME TypeOK, NEW n \in Nodes, ClaimNothing(n)
  PROVE  /\ \A k \in Jobs : \/ k \in Lapsed(n) /\ job'[k].status = "queued"
                            \/ k \notin Lapsed(n) /\ job'[k] = job[k]
         /\ UNCHANGED <<node, call, target, exec, ran>>
BY RequeuedIs DEF ClaimNothing

\* At most one slot changes, and takes the job.
LEMMA ClaimTask ==
  ASSUME TypeOK, NEW n \in Nodes, NEW j \in Jobs, Claim(n, j)
  PROVE  \E f : \A m \in Nodes, t \in Slots :
           exec'[m][t] = exec[m][t] \/ (<<m, t>> = f /\ exec'[m][t] = Fresh(j))
<1>1. CASE UNCHANGED exec
  BY <1>1
<1>2. CASE ~ UNCHANGED exec
  <2>1. PICK s \in Slots : exec' = [exec EXCEPT ![n][s] = Fresh(j)]
    BY <1>2 DEF Claim, Fresh
  <2>2. \A m \in Nodes, t \in Slots :
          exec'[m][t] = exec[m][t] \/ (<<m, t>> = <<n, s>> /\ exec'[m][t] = Fresh(j))
    BY <2>1 DEF TypeOK
  <2>. QED
    BY <2>2
<1>. QED
  BY <1>1, <1>2

\* The rows after a job was asked to stop, was renewed or was reported.
LEMMA CancelRows ==
  ASSUME TypeOK, NEW j \in Jobs, Cancel(j) \/ Interrupt(j)
  PROVE  \A k \in Jobs : job'[k].status = job[k].status /\ job'[k].expired = job[k].expired
<1>1. job[j] \in JobRow
  BY DEF TypeOK
<1>2. /\ [job[j] EXCEPT !.cancel = TRUE].status = job[j].status
      /\ [job[j] EXCEPT !.cancel = TRUE].expired = job[j].expired
  BY <1>1, RowColumns
<1>. QED
  BY <1>2 DEF Cancel, Interrupt, TypeOK

LEMMA BeatRows ==
  ASSUME TypeOK, NEW n \in Nodes, NEW s \in Slots, JobBeat(n, s), UNCHANGED exec
  PROVE  \A k \in Jobs :
           job'[k] = job[k] \/ (job'[k].status = job[k].status /\ ~job'[k].expired)
<1>1. \A k \in Jobs : job[k] \in JobRow
  BY DEF TypeOK
<1>3. \A k \in Jobs : job'[k] = job[k] \/ job'[k] = [job[k] EXCEPT !.expired = FALSE]
  BY DEF JobBeat, TypeOK
<1>4. \A k \in Jobs : job'[k] = [job[k] EXCEPT !.expired = FALSE] =>
        job'[k].status = job[k].status /\ ~job'[k].expired
  BY <1>1 DEF JobRow
<1>. QED
  BY <1>3, <1>4

LEMMA ReportRows ==
  ASSUME TypeOK, NEW n \in Nodes, NEW s \in Slots, WriteReport(n, s)
  PROVE  \A k \in Jobs :
           \/ job'[k] = job[k]
           \/ /\ k = exec[n][s].job /\ job'[k].status = exec[n][s].phase
              /\ job'[k].status \in TERMINAL_JOB_STATUSES /\ There(k)
<1>1. \A k \in Jobs : job[k] \in JobRow
  BY DEF TypeOK
<1>2. \A k \in Jobs : Ended(job[k], exec[n][s].phase, FALSE).status = exec[n][s].phase
  BY <1>1 DEF Ended, JobRow
<1>3. \A k \in Jobs :
        \/ job'[k] = job[k]
        \/ /\ k = exec[n][s].job /\ There(k)
           /\ job'[k] = Ended(job[k], exec[n][s].phase, FALSE)
  BY DEF WriteReport, TypeOK
<1>4. exec[n][s].phase \in TERMINAL_JOB_STATUSES
  BY DEF WriteReport
<1>. QED
  BY <1>2, <1>3, <1>4

\* A job that a task works on is in the table (the tasks are typed).
Busy == \A n \in Nodes, s \in Slots : exec[n][s].phase # "free" => exec[n][s].job \in Jobs

LEMMA TypeInit == Init => TypeOK /\ Busy
BY Typed DEF Init, TypeOK, Call, Process, Busy, NoTask

\* Every step keeps the types.
LEMMA TypeNext == TypeOK /\ Busy /\ [Next]_vars => TypeOK'
<1>. SUFFICES ASSUME TypeOK, Busy, [Next]_vars PROVE TypeOK'
  OBVIOUS
<1>1. ASSUME NEW n \in Nodes, CreateNode(n) PROVE TypeOK'
  <2>1. PICK b \in BOOLEAN, m \in 1 .. MaxConcurrency :
          node' = [node EXCEPT ![n] = [NoNode EXCEPT !.state = "present", !.enabled = TRUE,
                                         !.matches = b, !.offered = TRUE, !.max = m]]
    BY <1>1 DEF CreateNode
  <2>2. node' \in [Nodes -> NodeRow]
    BY <2>1, CreatedType DEF TypeOK
  <2>. QED
    BY <1>1, <2>2 DEF CreateNode, TypeOK
<1>2. ASSUME NEW n \in Nodes, UpdateNode(n) PROVE TypeOK'
  <2>1. PICK b, m \in BOOLEAN :
          node' = [node EXCEPT ![n] = [@ EXCEPT !.enabled = b, !.matches = m]]
    BY <1>2 DEF UpdateNode
  <2>2. node[n] \in NodeRow
    BY DEF TypeOK
  <2>3. node' \in [Nodes -> NodeRow]
    BY <2>1, <2>2, NodeEdits DEF TypeOK
  <2>. QED
    BY <1>2, <2>3 DEF UpdateNode, Event, TypeOK
<1>3. ASSUME NEW n \in Nodes, TestIdle(n) PROVE TypeOK'
  BY <1>3 DEF TestIdle, TypeOK, Event
<1>4. ASSUME NEW n \in Nodes, Rotate(n) PROVE TypeOK'
  <2>1. node[n] \in NodeRow /\ proc[n] \in Process /\ {} \in SUBSET Jobs
    BY DEF TypeOK
  <2>2. node' \in [Nodes -> NodeRow]
    BY <1>4, <2>1, NodeEdits DEF Rotate, TypeOK
  <2>3. proc' \in [Nodes -> Process]
    BY <1>4, <2>1, ProcessEdits DEF Rotate, TypeOK
  <2>. QED
    BY <1>4, <2>2, <2>3 DEF Rotate, TypeOK
<1>5. ASSUME NEW n \in Nodes, DeleteNode(n) PROVE TypeOK'
  <2>1. [NoNode EXCEPT !.state = "deleted"] \in NodeRow
    BY Deleted
  <2>. QED
    BY <1>5, <2>1, Typed DEF DeleteNode, TypeOK
<1>6. ASSUME NEW n \in Nodes, Enrol(n) PROVE TypeOK'
  <2>1. node[n] \in NodeRow /\ proc[n] \in Process /\ {} \in SUBSET Jobs
    BY DEF TypeOK
  <2>2. node' \in [Nodes -> NodeRow]
    BY <1>6, <2>1, NodeEdits DEF Enrol, TypeOK
  <2>3. proc' \in [Nodes -> Process]
    BY <1>6, <2>1, ProcessEdits DEF Enrol, TypeOK
  <2>. QED
    BY <1>6, <2>2, <2>3 DEF Enrol, Event, TypeOK
<1>7. ASSUME NEW n \in Nodes, ClearIdentity(n) PROVE TypeOK'
  <2>1. [s \in Slots |-> NoTask] \in [Slots -> Execution]
    BY Typed
  <2>2. proc[n] \in Process /\ {} \in SUBSET Jobs
    BY DEF TypeOK
  <2>3. proc' \in [Nodes -> Process]
    BY <1>7, <2>2, ProcessEdits DEF ClearIdentity, TypeOK
  <2>. QED
    BY <1>7, <2>1, <2>3 DEF ClearIdentity, TypeOK
<1>8. ASSUME NEW n \in Nodes, Restart(n) PROVE TypeOK'
  <2>12. \A s \in Slots : exec[n][s] \in Execution
    BY DEF TypeOK
  <2>1. \A s \in Slots : exec[n][s] \in Execution /\ [exec[n][s] EXCEPT !.alive = FALSE] \in Execution
    BY <2>12, TaskEdits, Zenon
  <2>11. Orphaned(exec[n]) \in [Slots -> Execution]
    BY <2>1, Typed DEF Orphaned
  <2>2. proc[n] \in Process /\ {} \in SUBSET Jobs
    BY DEF TypeOK
  <2>3. proc' \in [Nodes -> Process]
    BY <1>8, <2>2, ProcessEdits DEF Restart, TypeOK
  <2>. QED
    BY <1>8, <2>11, <2>3 DEF Restart, Event, TypeOK
<1>9. ASSUME NEW n \in Nodes, ClaimNothing(n) PROVE TypeOK'
  BY <1>9, RequeuedType DEF ClaimNothing, TypeOK
<1>10. ASSUME NEW j \in Jobs, Choose(j) PROVE TypeOK'
  <2>1. call' \in [Jobs -> Call]
    BY <1>10 DEF Choose, TypeOK, Call, Waiting
  <2>2. target' \in [Jobs -> Nodes \cup {"none"}]
    BY <1>10 DEF Choose, TypeOK, Matching
  <2>. QED
    BY <1>10, <2>1, <2>2 DEF Choose, TypeOK
<1>11. ASSUME NEW j \in Jobs, Insert(j) PROVE TypeOK'
  <2>1. job' \in [Jobs -> JobRow]
    BY <1>11, NewRowType DEF Insert, TypeOK
  <2>. QED
    BY <1>11, <2>1 DEF Insert, TypeOK, Call, Waiting
<1>12. ASSUME NEW j \in Jobs, InterruptInsert(j) PROVE TypeOK'
  <2>1. job' \in [Jobs -> JobRow]
    BY <1>12, NewRowType DEF InterruptInsert, TypeOK
  <2>. QED
    BY <1>12, <2>1 DEF InterruptInsert, TypeOK, Call, Waiting
<1>13. ASSUME NEW j \in Jobs, Poll(j) PROVE TypeOK'
  BY <1>13 DEF Poll, TypeOK, Call, Waiting
<1>14. ASSUME NEW j \in Jobs, TimeOut(j) PROVE TypeOK'
  BY <1>14 DEF TimeOut, TypeOK, Call, Waiting
<1>15. ASSUME NEW j \in Jobs, TimeOutWrites(j) PROVE TypeOK'
  <2>1. job[j] \in JobRow
    BY DEF TypeOK
  <2>2. job' \in [Jobs -> JobRow]
    BY <1>15, <2>1, RowEdits DEF TimeOutWrites, TypeOK, TERMINAL_JOB_STATUSES
  <2>. QED
    BY <1>15, <2>2 DEF TimeOutWrites, TypeOK, Call, Waiting
<1>16. ASSUME NEW j \in Jobs, Interrupt(j) PROVE TypeOK'
  <2>1. job[j] \in JobRow
    BY DEF TypeOK
  <2>2. job' \in [Jobs -> JobRow]
    BY <1>16, <2>1, RowEdits DEF Interrupt, TypeOK
  <2>. QED
    BY <1>16, <2>2 DEF Interrupt, TypeOK, Call, Waiting
<1>17. ASSUME NEW j \in Jobs, DispatcherDies(j) PROVE TypeOK'
  BY <1>17 DEF DispatcherDies, TypeOK, Call, Event
<1>18. ASSUME NEW j \in Jobs, Cancel(j) PROVE TypeOK'
  <2>1. job[j] \in JobRow
    BY DEF TypeOK
  <2>2. job' \in [Jobs -> JobRow]
    BY <1>18, <2>1, RowEdits DEF Cancel, TypeOK
  <2>. QED
    BY <1>18, <2>2 DEF Cancel, TypeOK, Call, Waiting
<1>19. ASSUME NEW j \in Jobs, CancelWrites(j) PROVE TypeOK'
  <2>1. job[j] \in JobRow
    BY DEF TypeOK
  <2>2. job' \in [Jobs -> JobRow]
    BY <1>19, <2>1, RowEdits DEF CancelWrites, TypeOK, TERMINAL_JOB_STATUSES
  <2>. QED
    BY <1>19, <2>2 DEF CancelWrites, TypeOK, Call, Waiting
<1>20. ASSUME NEW j \in Jobs, LeaseExpires(j) PROVE TypeOK'
  <2>1. job[j] \in JobRow
    BY DEF TypeOK
  <2>2. job' \in [Jobs -> JobRow]
    BY <1>20, <2>1, RowEdits DEF LeaseExpires, TypeOK
  <2>. QED
    BY <1>20, <2>2 DEF LeaseExpires, TypeOK, Call, Waiting
<1>21. ASSUME NEW n \in Nodes, NEW j \in Jobs, Claim(n, j) PROVE TypeOK'
  <2>1. job' \in [Jobs -> JobRow]
    BY <1>21, RequeuedType, RowEdits DEF Claim
  <2>2. CASE Event /\ UNCHANGED <<proc, exec>>
    BY <1>21, <2>1, <2>2 DEF Claim, Event, TypeOK
  <2>3. CASE ~(Event /\ UNCHANGED <<proc, exec>>)
    <3>1. PICK s \in Slots :
            /\ proc' = [proc EXCEPT ![n].running = @ \cup {j}]
            /\ exec' = [exec EXCEPT ![n][s] = [job |-> j, phase |-> "working",
                                               monitored |-> TRUE, alive |-> TRUE]]
            /\ UNCHANGED events
      BY <1>21, <2>3 DEF Claim
    <3>2. proc[n] \in Process /\ proc[n].running \cup {j} \in SUBSET Jobs
      BY ProcessEdits DEF TypeOK
    <3>6. [proc[n] EXCEPT !.running = proc[n].running \cup {j}] \in Process
      BY <3>2, ProcessEdits
    <3>3. proc' \in [Nodes -> Process]
      BY <3>1, <3>6 DEF TypeOK
    <3>4. [job |-> j, phase |-> "working", monitored |-> TRUE, alive |-> TRUE] \in Execution
      BY DEF Execution
    <3>5. exec' \in [Nodes -> [Slots -> Execution]]
      BY <3>1, <3>4 DEF TypeOK
    <3>. QED
      BY <1>21, <2>1, <3>1, <3>3, <3>5 DEF Claim, TypeOK
  <2>. QED
    BY <2>2, <2>3
<1>22. ASSUME NEW n \in Nodes, NEW s \in Slots, Refuse(n, s) PROVE TypeOK'
  <2>1. /\ proc' \in [Nodes -> Process] /\ exec' \in [Nodes -> [Slots -> Execution]]
        /\ events' \in 0 .. MaxEvents
    BY <1>22, PostsType DEF Refuse
  <2>. QED
    BY <1>22, <2>1 DEF Refuse, TypeOK, Busy
<1>23. ASSUME NEW n \in Nodes, NEW s \in Slots, ToolReturns(n, s) PROVE TypeOK'
  <2>1. /\ proc' \in [Nodes -> Process] /\ exec' \in [Nodes -> [Slots -> Execution]]
        /\ events' \in 0 .. MaxEvents
    BY <1>23, PostsType DEF ToolReturns
  <2>. QED
    BY <1>23, <2>1 DEF ToolReturns, TypeOK, Busy
<1>24. ASSUME NEW n \in Nodes, NEW s \in Slots, ToolRaises(n, s) PROVE TypeOK'
  <2>1. /\ proc' \in [Nodes -> Process] /\ exec' \in [Nodes -> [Slots -> Execution]]
        /\ events' \in 0 .. MaxEvents
    BY <1>24, PostsType DEF ToolRaises
  <2>. QED
    BY <1>24, <2>1 DEF ToolRaises, TypeOK, Busy
<1>25. ASSUME NEW n \in Nodes, NEW s \in Slots, JobBeat(n, s) PROVE TypeOK'
  <2>1. CASE job[exec[n][s].job].cancel
    <3>1. /\ proc' \in [Nodes -> Process] /\ exec' \in [Nodes -> [Slots -> Execution]]
          /\ events' \in 0 .. MaxEvents
      BY <1>25, <2>1, PostsType DEF JobBeat
    <3>. QED
      BY <1>25, <2>1, <3>1 DEF JobBeat, TypeOK
  <2>2. CASE ~job[exec[n][s].job].cancel
    <3>1. exec[n][s].job \in Jobs /\ job[exec[n][s].job] \in JobRow
      BY <1>25 DEF JobBeat, TypeOK, Busy
    <3>3. [job[exec[n][s].job] EXCEPT !.expired = FALSE] \in JobRow
      BY <3>1, RowEdits
    <3>2. job' \in [Jobs -> JobRow]
      BY <1>25, <2>2, <3>1, <3>3 DEF JobBeat, TypeOK
    <3>. QED
      BY <1>25, <2>2, <3>2 DEF JobBeat, TypeOK
  <2>. QED
    BY <2>1, <2>2
<1>26. ASSUME NEW n \in Nodes, NEW s \in Slots, MonitorEnds(n, s) PROVE TypeOK'
  <2>1. exec[n][s] \in Execution
    BY DEF TypeOK
  <2>2. exec' \in [Nodes -> [Slots -> Execution]]
    BY <1>26, <2>1, TaskEdits DEF MonitorEnds, TypeOK
  <2>. QED
    BY <1>26, <2>2 DEF MonitorEnds, Event, TypeOK
<1>27. ASSUME NEW n \in Nodes, NEW s \in Slots, WriteReport(n, s) PROVE TypeOK'
  <2>1. proc' \in [Nodes -> Process] /\ exec' \in [Nodes -> [Slots -> Execution]]
    BY <1>27, BecomesType, Typed DEF WriteReport
  <2>2. exec[n][s].job \in Jobs /\ job[exec[n][s].job] \in JobRow
    BY <1>27 DEF WriteReport, TypeOK, Busy, TERMINAL_JOB_STATUSES
  <2>3. job' \in [Jobs -> JobRow]
    BY <1>27, <2>2, RowEdits DEF WriteReport, TypeOK
  <2>. QED
    BY <1>27, <2>1, <2>3 DEF WriteReport, TypeOK
<1>28. ASSUME UNCHANGED vars PROVE TypeOK'
  BY <1>28 DEF vars, TypeOK
<1>. QED
  BY <1>1, <1>2, <1>3, <1>4, <1>5, <1>6, <1>7, <1>8, <1>9, <1>10, <1>11, <1>12, <1>13,
      <1>14, <1>15, <1>16, <1>17, <1>18, <1>19, <1>20, <1>21, <1>22, <1>23, <1>24, <1>25,
      <1>26, <1>27, <1>28 DEF Next, Admin, Dispatcher, NodeProcess, Task

LEMMA BusyNext == TypeOK /\ Busy /\ [Next]_vars => Busy'
<1>. SUFFICES ASSUME TypeOK, Busy, [Next]_vars PROVE Busy'
  OBVIOUS
<1>0. \A n \in Nodes, s \in Slots : exec[n][s] \in Execution
  BY DEF TypeOK
<1>1. ASSUME NEW n \in Nodes, CreateNode(n) PROVE Busy'
  BY <1>1, <1>0 DEF CreateNode, NoNode, TypeOK, Busy
<1>2. ASSUME NEW n \in Nodes, UpdateNode(n) PROVE Busy'
  BY <1>2, <1>0 DEF UpdateNode, Event, Present, TypeOK, Busy
<1>3. ASSUME NEW n \in Nodes, TestIdle(n) PROVE Busy'
  BY <1>3, <1>0 DEF TestIdle, Event, Present, TypeOK, Busy
<1>4. ASSUME NEW n \in Nodes, Rotate(n) PROVE Busy'
  BY <1>4, <1>0 DEF Rotate, TypeOK, Busy
<1>5. ASSUME NEW n \in Nodes, DeleteNode(n) PROVE Busy'
  BY <1>5, <1>0 DEF DeleteNode, NoNode, NoRow, TypeOK, Busy
<1>6. ASSUME NEW n \in Nodes, Enrol(n) PROVE Busy'
  BY <1>6, <1>0 DEF Enrol, Event, Present, TypeOK, Busy
<1>7. ASSUME NEW n \in Nodes, ClearIdentity(n) PROVE Busy'
  BY <1>7, <1>0 DEF ClearIdentity, NoTask, TypeOK, Busy
<1>8. ASSUME NEW n \in Nodes, Restart(n) PROVE Busy'
  BY <1>8, <1>0 DEF Restart, Event, Orphaned, NoTask, TypeOK, Busy
<1>9. ASSUME NEW n \in Nodes, ClaimNothing(n) PROVE Busy'
  BY <1>9, <1>0, ClaimNothingStep DEF Lapsed, RunningAt, JobsAt, Busy
<1>10. ASSUME NEW j \in Jobs, Choose(j) PROVE Busy'
  BY <1>10, <1>0 DEF Choose, Waiting, TypeOK, Busy
<1>11. ASSUME NEW j \in Jobs, Insert(j) PROVE Busy'
  BY <1>11, <1>0 DEF Insert, NewRow, Present, TypeOK, Busy
<1>12. ASSUME NEW j \in Jobs, InterruptInsert(j) PROVE Busy'
  BY <1>12, <1>0 DEF InterruptInsert, NewRow, Present, TypeOK, Busy
<1>13. ASSUME NEW j \in Jobs, Poll(j) PROVE Busy'
  BY <1>13, <1>0 DEF Poll, Active, TypeOK, Busy
<1>14. ASSUME NEW j \in Jobs, TimeOut(j) PROVE Busy'
  BY <1>14, <1>0 DEF TimeOut, Active, TypeOK, Busy
<1>15. ASSUME NEW j \in Jobs, TimeOutWrites(j) PROVE Busy'
  BY <1>15, <1>0 DEF TimeOutWrites, Ended, There, TypeOK, Busy
<1>16. ASSUME NEW j \in Jobs, Interrupt(j) PROVE Busy'
  BY <1>16, <1>0 DEF Interrupt, Active, TypeOK, Busy
<1>17. ASSUME NEW j \in Jobs, DispatcherDies(j) PROVE Busy'
  BY <1>17, <1>0 DEF DispatcherDies, Event, Waiting, TypeOK, Busy
<1>18. ASSUME NEW j \in Jobs, Cancel(j) PROVE Busy'
  BY <1>18, <1>0 DEF Cancel, TypeOK, Busy
<1>19. ASSUME NEW j \in Jobs, CancelWrites(j) PROVE Busy'
  BY <1>19, <1>0 DEF CancelWrites, Ended, There, TypeOK, Busy
<1>20. ASSUME NEW j \in Jobs, LeaseExpires(j) PROVE Busy'
  BY <1>20, <1>0 DEF LeaseExpires, TypeOK, Busy
<1>21. ASSUME NEW n \in Nodes, NEW j \in Jobs, Claim(n, j) PROVE Busy'
  <2>0. /\ target[j] = n /\ job[j].status \in {"queued", "running"}
        /\ job[j].status = "running" => job[j].expired
        /\ \A k \in Jobs :
              \/ k = j /\ job'[k].status = "running" /\ ~job'[k].expired
              \/ k # j /\ k \in Lapsed(n) /\ job'[k].status = "queued"
              \/ k # j /\ k \notin Lapsed(n) /\ job'[k] = job[k]
        /\ UNCHANGED <<node, call, target, ran>>
    BY <1>21, ClaimStep
  <2>1. CASE UNCHANGED exec
    BY <1>0, <2>0, <2>1 DEF Lapsed, RunningAt, JobsAt, Busy
  <2>2. CASE ~ UNCHANGED exec
    <3>1. PICK s \in Slots : exec[n][s] = NoTask /\ exec' = [exec EXCEPT ![n][s] = Fresh(j)]
      BY <1>21, <2>2, ClaimStep
    <3>. QED
      BY <1>0, <2>0, <3>1 DEF Lapsed, RunningAt, JobsAt, Fresh, NoTask, TypeOK, Busy
  <2>. QED
    BY <2>1, <2>2
<1>22. ASSUME NEW n \in Nodes, NEW s \in Slots, Refuse(n, s) PROVE Busy'
  <2>1. \A m \in Nodes, t \in Slots :
          \/ exec'[m][t] = exec[m][t]
          \/ m = n /\ t = s /\ Reported(exec[n][s], exec'[n][s], "failed")
    BY <1>22, PostsStep DEF Refuse
  <2>. QED
    BY <1>22, <1>0, <2>1 DEF Refuse, Reported, NoTask, TERMINAL_JOB_STATUSES, Busy
<1>23. ASSUME NEW n \in Nodes, NEW s \in Slots, ToolReturns(n, s) PROVE Busy'
  <2>1. \A m \in Nodes, t \in Slots :
          \/ exec'[m][t] = exec[m][t]
          \/ m = n /\ t = s /\ Reported(exec[n][s], exec'[n][s], "completed")
    BY <1>23, PostsStep DEF ToolReturns
  <2>. QED
    BY <1>23, <1>0, <2>1 DEF ToolReturns, Reported, NoTask, TERMINAL_JOB_STATUSES, Busy
<1>24. ASSUME NEW n \in Nodes, NEW s \in Slots, ToolRaises(n, s) PROVE Busy'
  <2>1. \A m \in Nodes, t \in Slots :
          \/ exec'[m][t] = exec[m][t]
          \/ m = n /\ t = s /\ Reported(exec[n][s], exec'[n][s], "failed")
    BY <1>24, PostsStep DEF ToolRaises
  <2>. QED
    BY <1>24, <1>0, <2>1 DEF ToolRaises, Reported, NoTask, TERMINAL_JOB_STATUSES, Busy
<1>25. ASSUME NEW n \in Nodes, NEW s \in Slots, JobBeat(n, s) PROVE Busy'
  <2>1. CASE UNCHANGED exec
    BY <1>25, <1>0, <2>1 DEF JobBeat, There, TypeOK, Busy
  <2>2. CASE ~ UNCHANGED exec
    <3>1. UNCHANGED job /\ Posts(n, s, "failed")
      BY <1>25, <2>2 DEF JobBeat
    <3>2. \A m \in Nodes, t \in Slots :
            \/ exec'[m][t] = exec[m][t]
            \/ m = n /\ t = s /\ Reported(exec[n][s], exec'[n][s], "failed")
      BY <3>1, PostsStep
    <3>. QED
      BY <1>25, <1>0, <3>1, <3>2 DEF JobBeat, Reported, NoTask, TERMINAL_JOB_STATUSES, Busy
  <2>. QED
    BY <2>1, <2>2
<1>26. ASSUME NEW n \in Nodes, NEW s \in Slots, MonitorEnds(n, s) PROVE Busy'
  BY <1>26, <1>0 DEF MonitorEnds, Event, TypeOK, Busy
<1>27. ASSUME NEW n \in Nodes, NEW s \in Slots, WriteReport(n, s) PROVE Busy'
  <2>1. exec' = [exec EXCEPT ![n][s] = NoTask]
    BY <1>27 DEF WriteReport, Becomes
  <2>. QED
    BY <1>27, <1>0, <2>1 DEF WriteReport, NoTask, TypeOK, Ended, There, Busy
<1>28. ASSUME UNCHANGED vars PROVE Busy'
  BY <1>28 DEF vars, TypeOK, Busy
<1>. QED
  BY <1>1, <1>2, <1>3, <1>4, <1>5, <1>6, <1>7, <1>8, <1>9, <1>10, <1>11, <1>12, <1>13,
      <1>14, <1>15, <1>16, <1>17, <1>18, <1>19, <1>20, <1>21, <1>22, <1>23, <1>24, <1>25,
      <1>26, <1>27, <1>28 DEF Next, Admin, Dispatcher, NodeProcess, Task

-----------------------------------------------------------------------------
(* Where the rows and the tasks of a call may be.                           *)

\* A call that was not sent has no row and no node, and a row has a node.
Placed ==
  /\ \A j \in Jobs :
       /\ call[j] \in {"idle", "local", "chosen"} => job[j].status = "none"
       /\ call[j] \in {"idle", "local"} => target[j] = "none"
       /\ call[j] = "chosen" => target[j] \in Nodes
       /\ target[j] = "none" => job[j].status = "none"
  /\ \A n \in Nodes : node[n].state = "absent" => \A j \in Jobs : target[j] # n

LEMMA PlacedNext == TypeOK /\ Busy /\ Placed /\ [Next]_vars => Placed'
<1>. SUFFICES ASSUME TypeOK, Busy, Placed, [Next]_vars PROVE Placed'
  OBVIOUS
<1>0. /\ \A n \in Nodes, s \in Slots : exec[n][s] \in Execution
      /\ \A j \in Jobs : job[j] \in JobRow
      /\ \A n \in Nodes : node[n] \in NodeRow
      /\ "none" \notin Nodes
  BY DEF TypeOK
<1>1. ASSUME NEW n \in Nodes, CreateNode(n) PROVE Placed'
  BY <1>1, <1>0, RowColumns DEF CreateNode, NoNode, TypeOK, Placed
<1>2. ASSUME NEW n \in Nodes, UpdateNode(n) PROVE Placed'
  BY <1>2, <1>0, RowColumns DEF UpdateNode, Event, Present, TypeOK, Placed
<1>3. ASSUME NEW n \in Nodes, TestIdle(n) PROVE Placed'
  BY <1>3, <1>0, RowColumns DEF TestIdle, Event, Present, TypeOK, Placed
<1>4. ASSUME NEW n \in Nodes, Rotate(n) PROVE Placed'
  BY <1>4, <1>0, RowColumns DEF Rotate, TypeOK, Placed
<1>5. ASSUME NEW n \in Nodes, DeleteNode(n) PROVE Placed'
  BY <1>5, <1>0, RowColumns DEF DeleteNode, NoNode, NoRow, TypeOK, Placed
<1>6. ASSUME NEW n \in Nodes, Enrol(n) PROVE Placed'
  BY <1>6, <1>0, RowColumns DEF Enrol, Event, Present, TypeOK, Placed
<1>7. ASSUME NEW n \in Nodes, ClearIdentity(n) PROVE Placed'
  BY <1>7, <1>0, RowColumns DEF ClearIdentity, NoTask, TypeOK, Placed
<1>8. ASSUME NEW n \in Nodes, Restart(n) PROVE Placed'
  BY <1>8, <1>0, RowColumns DEF Restart, Event, Orphaned, NoTask, TypeOK, Placed
<1>9. ASSUME NEW n \in Nodes, ClaimNothing(n) PROVE Placed'
  BY <1>9, <1>0, ClaimNothingStep DEF Lapsed, RunningAt, JobsAt, Placed
<1>10. ASSUME NEW j \in Jobs, Choose(j) PROVE Placed'
  <2>1. call' = [call EXCEPT ![j] = call'[j]] /\ UNCHANGED <<node, job>>
    BY <1>10 DEF Choose, TypeOK
  <2>2. CASE UNCHANGED target
    <3>1. target[j] = "none" /\ job[j].status = "none"
      BY <1>10 DEF Choose, Placed
    <3>2. call'[j] \in {"local", "error"}
      BY <1>10, <1>0, <2>2, <3>1 DEF Choose, TypeOK, Matching
    <3>. QED
      BY <2>1, <2>2, <3>1, <3>2 DEF TypeOK, Placed
  <2>3. CASE ~ UNCHANGED target
    <3>1. PICK n \in Matching : target' = [target EXCEPT ![j] = n] /\ call'[j] = "chosen"
      BY <1>10, <2>3 DEF Choose, TypeOK
    <3>2. n \in Nodes /\ node[n].state # "absent"
      BY <3>1 DEF Matching, Present
    <3>. QED
      BY <1>10, <1>0, <2>1, <3>1, <3>2 DEF Choose, TypeOK, Placed
  <2>. QED
    BY <2>2, <2>3
<1>11. ASSUME NEW j \in Jobs, Insert(j) PROVE Placed'
  BY <1>11, <1>0, RowColumns DEF Insert, NewRow, Present, TypeOK, Placed
<1>12. ASSUME NEW j \in Jobs, InterruptInsert(j) PROVE Placed'
  BY <1>12, <1>0, RowColumns DEF InterruptInsert, NewRow, Present, TypeOK, Placed
<1>13. ASSUME NEW j \in Jobs, Poll(j) PROVE Placed'
  BY <1>13, <1>0, RowColumns DEF Poll, Active, TypeOK, Placed
<1>14. ASSUME NEW j \in Jobs, TimeOut(j) PROVE Placed'
  BY <1>14, <1>0, RowColumns DEF TimeOut, Active, TypeOK, Placed
<1>15. ASSUME NEW j \in Jobs, TimeOutWrites(j) PROVE Placed'
  BY <1>15, <1>0, RowColumns DEF TimeOutWrites, Ended, There, TypeOK, Placed
<1>16. ASSUME NEW j \in Jobs, Interrupt(j) PROVE Placed'
  BY <1>16, <1>0, RowColumns DEF Interrupt, Active, TypeOK, Placed
<1>17. ASSUME NEW j \in Jobs, DispatcherDies(j) PROVE Placed'
  BY <1>17, <1>0, RowColumns DEF DispatcherDies, Event, Waiting, TypeOK, Placed
<1>18. ASSUME NEW j \in Jobs, Cancel(j) PROVE Placed'
  BY <1>18, <1>0, RowColumns DEF Cancel, TypeOK, Placed
<1>19. ASSUME NEW j \in Jobs, CancelWrites(j) PROVE Placed'
  BY <1>19, <1>0, RowColumns DEF CancelWrites, Ended, There, TypeOK, Placed
<1>20. ASSUME NEW j \in Jobs, LeaseExpires(j) PROVE Placed'
  BY <1>20, <1>0, RowColumns DEF LeaseExpires, TypeOK, Placed
<1>21. ASSUME NEW n \in Nodes, NEW j \in Jobs, Claim(n, j) PROVE Placed'
  <2>0. /\ target[j] = n /\ job[j].status \in {"queued", "running"}
        /\ job[j].status = "running" => job[j].expired
        /\ \A k \in Jobs :
              \/ k = j /\ job'[k].status = "running" /\ ~job'[k].expired
              \/ k # j /\ k \in Lapsed(n) /\ job'[k].status = "queued"
              \/ k # j /\ k \notin Lapsed(n) /\ job'[k] = job[k]
        /\ UNCHANGED <<node, call, target, ran>>
    BY <1>21, ClaimStep
  <2>1. CASE UNCHANGED exec
    BY <1>0, <2>0, <2>1 DEF Lapsed, RunningAt, JobsAt, Placed
  <2>2. CASE ~ UNCHANGED exec
    <3>1. PICK s \in Slots : exec[n][s] = NoTask /\ exec' = [exec EXCEPT ![n][s] = Fresh(j)]
      BY <1>21, <2>2, ClaimStep
    <3>. QED
      BY <1>0, <2>0, <3>1 DEF Lapsed, RunningAt, JobsAt, Fresh, NoTask, TypeOK, Placed
  <2>. QED
    BY <2>1, <2>2
<1>22. ASSUME NEW n \in Nodes, NEW s \in Slots, Refuse(n, s) PROVE Placed'
  <2>1. \A m \in Nodes, t \in Slots :
          \/ exec'[m][t] = exec[m][t]
          \/ m = n /\ t = s /\ Reported(exec[n][s], exec'[n][s], "failed")
    BY <1>22, PostsStep DEF Refuse
  <2>. QED
    BY <1>22, <1>0, <2>1 DEF Refuse, Reported, NoTask, TERMINAL_JOB_STATUSES, Placed
<1>23. ASSUME NEW n \in Nodes, NEW s \in Slots, ToolReturns(n, s) PROVE Placed'
  <2>1. \A m \in Nodes, t \in Slots :
          \/ exec'[m][t] = exec[m][t]
          \/ m = n /\ t = s /\ Reported(exec[n][s], exec'[n][s], "completed")
    BY <1>23, PostsStep DEF ToolReturns
  <2>. QED
    BY <1>23, <1>0, <2>1 DEF ToolReturns, Reported, NoTask, TERMINAL_JOB_STATUSES, Placed
<1>24. ASSUME NEW n \in Nodes, NEW s \in Slots, ToolRaises(n, s) PROVE Placed'
  <2>1. \A m \in Nodes, t \in Slots :
          \/ exec'[m][t] = exec[m][t]
          \/ m = n /\ t = s /\ Reported(exec[n][s], exec'[n][s], "failed")
    BY <1>24, PostsStep DEF ToolRaises
  <2>. QED
    BY <1>24, <1>0, <2>1 DEF ToolRaises, Reported, NoTask, TERMINAL_JOB_STATUSES, Placed
<1>25. ASSUME NEW n \in Nodes, NEW s \in Slots, JobBeat(n, s) PROVE Placed'
  <2>1. CASE UNCHANGED exec
    BY <1>25, <1>0, <2>1 DEF JobBeat, There, TypeOK, Placed
  <2>2. CASE ~ UNCHANGED exec
    <3>1. UNCHANGED job /\ Posts(n, s, "failed")
      BY <1>25, <2>2 DEF JobBeat
    <3>2. \A m \in Nodes, t \in Slots :
            \/ exec'[m][t] = exec[m][t]
            \/ m = n /\ t = s /\ Reported(exec[n][s], exec'[n][s], "failed")
      BY <3>1, PostsStep
    <3>. QED
      BY <1>25, <1>0, <3>1, <3>2 DEF JobBeat, Reported, NoTask, TERMINAL_JOB_STATUSES, Placed
  <2>. QED
    BY <2>1, <2>2
<1>26. ASSUME NEW n \in Nodes, NEW s \in Slots, MonitorEnds(n, s) PROVE Placed'
  BY <1>26, <1>0, RowColumns DEF MonitorEnds, Event, TypeOK, Placed
<1>27. ASSUME NEW n \in Nodes, NEW s \in Slots, WriteReport(n, s) PROVE Placed'
  <2>1. exec' = [exec EXCEPT ![n][s] = NoTask]
    BY <1>27 DEF WriteReport, Becomes
  <2>. QED
    BY <1>27, <1>0, <2>1 DEF WriteReport, NoTask, TypeOK, Ended, There, Placed
<1>28. ASSUME UNCHANGED vars PROVE Placed'
  BY <1>28 DEF vars, TypeOK, Placed
<1>. QED
  BY <1>1, <1>2, <1>3, <1>4, <1>5, <1>6, <1>7, <1>8, <1>9, <1>10, <1>11, <1>12, <1>13,
      <1>14, <1>15, <1>16, <1>17, <1>18, <1>19, <1>20, <1>21, <1>22, <1>23, <1>24, <1>25,
      <1>26, <1>27, <1>28 DEF Next, Admin, Dispatcher, NodeProcess, Task

\* A task works for a call that was sent to its node.
Tasked ==
  \A n \in Nodes, s \in Slots :
    LET j == exec[n][s].job
    IN  j # "none" => target[j] = n /\ call[j] \notin {"idle", "local", "chosen"}

LEMMA TaskedNext == TypeOK /\ Placed /\ Tasked /\ [Next]_vars => Tasked'
<1>. SUFFICES ASSUME TypeOK, Placed, Tasked, [Next]_vars PROVE Tasked'
  OBVIOUS
<1>0. /\ \A n \in Nodes, s \in Slots : exec[n][s] \in Execution
      /\ \A n \in Nodes, s \in Slots : exec[n][s].job \in Jobs \cup {"none"}
      /\ \A j \in Jobs : job[j] \in JobRow
  BY DEF TypeOK, Execution
<1>1. ASSUME NEW n \in Nodes, CreateNode(n) PROVE Tasked'
  BY <1>1, <1>0 DEF CreateNode, NoNode, TypeOK, Tasked
<1>2. ASSUME NEW n \in Nodes, UpdateNode(n) PROVE Tasked'
  BY <1>2, <1>0 DEF UpdateNode, Event, Present, TypeOK, Tasked
<1>3. ASSUME NEW n \in Nodes, TestIdle(n) PROVE Tasked'
  BY <1>3, <1>0 DEF TestIdle, Event, Present, TypeOK, Tasked
<1>4. ASSUME NEW n \in Nodes, Rotate(n) PROVE Tasked'
  BY <1>4, <1>0 DEF Rotate, TypeOK, Tasked
<1>5. ASSUME NEW n \in Nodes, DeleteNode(n) PROVE Tasked'
  BY <1>5, <1>0 DEF DeleteNode, NoNode, NoRow, TypeOK, Tasked
<1>6. ASSUME NEW n \in Nodes, Enrol(n) PROVE Tasked'
  BY <1>6, <1>0 DEF Enrol, Event, Present, TypeOK, Tasked
<1>7. ASSUME NEW n \in Nodes, ClearIdentity(n) PROVE Tasked'
  BY <1>7, <1>0 DEF ClearIdentity, NoTask, TypeOK, Tasked
<1>8. ASSUME NEW n \in Nodes, Restart(n) PROVE Tasked'
  BY <1>8, <1>0 DEF Restart, Event, Orphaned, NoTask, TypeOK, Tasked
<1>9. ASSUME NEW n \in Nodes, ClaimNothing(n) PROVE Tasked'
  BY <1>9, <1>0, ClaimNothingStep DEF Lapsed, RunningAt, JobsAt, Tasked, Placed
<1>10. ASSUME NEW j \in Jobs, Choose(j) PROVE Tasked'
  BY <1>10, <1>0 DEF Choose, Waiting, TypeOK, Tasked
<1>11. ASSUME NEW j \in Jobs, Insert(j) PROVE Tasked'
  BY <1>11, <1>0 DEF Insert, NewRow, Present, TypeOK, Tasked
<1>12. ASSUME NEW j \in Jobs, InterruptInsert(j) PROVE Tasked'
  BY <1>12, <1>0 DEF InterruptInsert, NewRow, Present, TypeOK, Tasked
<1>13. ASSUME NEW j \in Jobs, Poll(j) PROVE Tasked'
  BY <1>13, <1>0 DEF Poll, Active, TypeOK, Tasked
<1>14. ASSUME NEW j \in Jobs, TimeOut(j) PROVE Tasked'
  BY <1>14, <1>0 DEF TimeOut, Active, TypeOK, Tasked
<1>15. ASSUME NEW j \in Jobs, TimeOutWrites(j) PROVE Tasked'
  BY <1>15, <1>0 DEF TimeOutWrites, Ended, There, TypeOK, Tasked
<1>16. ASSUME NEW j \in Jobs, Interrupt(j) PROVE Tasked'
  BY <1>16, <1>0 DEF Interrupt, Active, TypeOK, Tasked
<1>17. ASSUME NEW j \in Jobs, DispatcherDies(j) PROVE Tasked'
  BY <1>17, <1>0 DEF DispatcherDies, Event, Waiting, TypeOK, Tasked
<1>18. ASSUME NEW j \in Jobs, Cancel(j) PROVE Tasked'
  BY <1>18, <1>0 DEF Cancel, TypeOK, Tasked
<1>19. ASSUME NEW j \in Jobs, CancelWrites(j) PROVE Tasked'
  BY <1>19, <1>0 DEF CancelWrites, Ended, There, TypeOK, Tasked
<1>20. ASSUME NEW j \in Jobs, LeaseExpires(j) PROVE Tasked'
  BY <1>20, <1>0 DEF LeaseExpires, TypeOK, Tasked
<1>21. ASSUME NEW n \in Nodes, NEW j \in Jobs, Claim(n, j) PROVE Tasked'
  <2>0. /\ target[j] = n /\ job[j].status \in {"queued", "running"}
        /\ job[j].status = "running" => job[j].expired
        /\ \A k \in Jobs :
              \/ k = j /\ job'[k].status = "running" /\ ~job'[k].expired
              \/ k # j /\ k \in Lapsed(n) /\ job'[k].status = "queued"
              \/ k # j /\ k \notin Lapsed(n) /\ job'[k] = job[k]
        /\ UNCHANGED <<node, call, target, ran>>
    BY <1>21, ClaimStep
  <2>1. CASE UNCHANGED exec
    BY <1>0, <2>0, <2>1 DEF Lapsed, RunningAt, JobsAt, Tasked, Placed
  <2>2. CASE ~ UNCHANGED exec
    <3>1. PICK s \in Slots : exec[n][s] = NoTask /\ exec' = [exec EXCEPT ![n][s] = Fresh(j)]
      BY <1>21, <2>2, ClaimStep
    <3>. QED
      BY <1>0, <2>0, <3>1 DEF Lapsed, RunningAt, JobsAt, Fresh, NoTask, TypeOK, Tasked, Placed
  <2>. QED
    BY <2>1, <2>2
<1>22. ASSUME NEW n \in Nodes, NEW s \in Slots, Refuse(n, s) PROVE Tasked'
  <2>1. \A m \in Nodes, t \in Slots :
          \/ exec'[m][t] = exec[m][t]
          \/ m = n /\ t = s /\ Reported(exec[n][s], exec'[n][s], "failed")
    BY <1>22, PostsStep DEF Refuse
  <2>. QED
    BY <1>22, <1>0, <2>1 DEF Refuse, Reported, NoTask, TERMINAL_JOB_STATUSES, Tasked, Placed
<1>23. ASSUME NEW n \in Nodes, NEW s \in Slots, ToolReturns(n, s) PROVE Tasked'
  <2>1. \A m \in Nodes, t \in Slots :
          \/ exec'[m][t] = exec[m][t]
          \/ m = n /\ t = s /\ Reported(exec[n][s], exec'[n][s], "completed")
    BY <1>23, PostsStep DEF ToolReturns
  <2>. QED
    BY <1>23, <1>0, <2>1 DEF ToolReturns, Reported, NoTask, TERMINAL_JOB_STATUSES, Tasked, Placed
<1>24. ASSUME NEW n \in Nodes, NEW s \in Slots, ToolRaises(n, s) PROVE Tasked'
  <2>1. \A m \in Nodes, t \in Slots :
          \/ exec'[m][t] = exec[m][t]
          \/ m = n /\ t = s /\ Reported(exec[n][s], exec'[n][s], "failed")
    BY <1>24, PostsStep DEF ToolRaises
  <2>. QED
    BY <1>24, <1>0, <2>1 DEF ToolRaises, Reported, NoTask, TERMINAL_JOB_STATUSES, Tasked, Placed
<1>25. ASSUME NEW n \in Nodes, NEW s \in Slots, JobBeat(n, s) PROVE Tasked'
  <2>1. CASE UNCHANGED exec
    BY <1>25, <1>0, <2>1 DEF JobBeat, There, TypeOK, Tasked, Placed
  <2>2. CASE ~ UNCHANGED exec
    <3>1. UNCHANGED job /\ Posts(n, s, "failed")
      BY <1>25, <2>2 DEF JobBeat
    <3>2. \A m \in Nodes, t \in Slots :
            \/ exec'[m][t] = exec[m][t]
            \/ m = n /\ t = s /\ Reported(exec[n][s], exec'[n][s], "failed")
      BY <3>1, PostsStep
    <3>. QED
      BY <1>25, <1>0, <3>1, <3>2 DEF JobBeat, Reported, NoTask, TERMINAL_JOB_STATUSES, Tasked, Placed
  <2>. QED
    BY <2>1, <2>2
<1>26. ASSUME NEW n \in Nodes, NEW s \in Slots, MonitorEnds(n, s) PROVE Tasked'
  BY <1>26, <1>0 DEF MonitorEnds, Event, TypeOK, Tasked
<1>27. ASSUME NEW n \in Nodes, NEW s \in Slots, WriteReport(n, s) PROVE Tasked'
  <2>1. exec' = [exec EXCEPT ![n][s] = NoTask]
    BY <1>27 DEF WriteReport, Becomes
  <2>. QED
    BY <1>27, <1>0, <2>1 DEF WriteReport, NoTask, TypeOK, Ended, There, Tasked, Placed
<1>28. ASSUME UNCHANGED vars PROVE Tasked'
  BY <1>28 DEF vars, TypeOK, Tasked
<1>. QED
  BY <1>1, <1>2, <1>3, <1>4, <1>5, <1>6, <1>7, <1>8, <1>9, <1>10, <1>11, <1>12, <1>13,
      <1>14, <1>15, <1>16, <1>17, <1>18, <1>19, <1>20, <1>21, <1>22, <1>23, <1>24, <1>25,
      <1>26, <1>27, <1>28 DEF Next, Admin, Dispatcher, NodeProcess, Task

-----------------------------------------------------------------------------
(* Leases.                                                                  *)

\* A lease that is renewed belongs to a job that is neither queued nor expired.
Leased ==
  \A n \in Nodes, s \in Slots, j \in Jobs :
    Renews(exec[n][s], j) => /\ job[j].status # "queued"
                             /\ job[j].status = "running" => ~job[j].expired

LEMMA LeasedNext ==
  TypeOK /\ Placed /\ Tasked /\ Leased /\ [Next]_vars => Leased'
<1>. SUFFICES ASSUME TypeOK, Placed, Tasked, Leased, [Next]_vars PROVE Leased'
  OBVIOUS
<1>0. /\ \A n \in Nodes, s \in Slots : exec[n][s] \in Execution
      /\ \A j \in Jobs : job[j] \in JobRow
      /\ "none" \notin Jobs
  BY DEF TypeOK
<1>1. ASSUME NEW n \in Nodes, CreateNode(n) PROVE Leased'
  BY <1>1 DEF CreateNode, Leased, Renews
<1>2. ASSUME NEW n \in Nodes, UpdateNode(n) PROVE Leased'
  BY <1>2 DEF UpdateNode, Leased, Renews
<1>3. ASSUME NEW n \in Nodes, TestIdle(n) PROVE Leased'
  BY <1>3 DEF TestIdle, Leased, Renews
<1>4. ASSUME NEW n \in Nodes, Rotate(n) PROVE Leased'
  BY <1>4 DEF Rotate, Leased, Renews
<1>5. ASSUME NEW n \in Nodes, DeleteNode(n) PROVE Leased'
  <2>1. \A k \in Jobs : job'[k] = job[k] \/ job'[k].status = "none"
    BY <1>5, Typed DEF DeleteNode
  <2>. QED
    BY <1>5, <2>1 DEF DeleteNode, Leased, Renews
<1>6. ASSUME NEW n \in Nodes, Enrol(n) PROVE Leased'
  BY <1>6 DEF Enrol, Leased, Renews
<1>7. ASSUME NEW n \in Nodes, ClearIdentity(n) PROVE Leased'
  <2>1. \A m \in Nodes, s \in Slots, j \in Jobs : Renews(exec'[m][s], j) => Renews(exec[m][s], j)
    BY <1>7, Typed DEF ClearIdentity, TypeOK, Renews
  <2>. QED
    BY <1>7, <2>1 DEF ClearIdentity, Leased
<1>8. ASSUME NEW n \in Nodes, Restart(n) PROVE Leased'
  <2>1. \A m \in Nodes, s \in Slots, j \in Jobs : Renews(exec'[m][s], j) => Renews(exec[m][s], j)
    BY <1>8, <1>0, Typed DEF Restart, Orphaned, TypeOK, Renews, TERMINAL_JOB_STATUSES, NoTask
  <2>. QED
    BY <1>8, <2>1 DEF Restart, Leased
<1>9. ASSUME NEW n \in Nodes, ClaimNothing(n) PROVE Leased'
  BY <1>9, <1>0, ClaimNothingStep DEF Lapsed, RunningAt, JobsAt, Leased, Renews
<1>10. ASSUME NEW j \in Jobs, Choose(j) PROVE Leased'
  BY <1>10 DEF Choose, Leased, Renews
<1>11. ASSUME NEW j \in Jobs, Insert(j) PROVE Leased'
  <2>1. \A n \in Nodes, s \in Slots : ~Renews(exec[n][s], j)
    BY <1>11, <1>0 DEF Insert, Tasked, Renews
  <2>. QED
    BY <1>11, <1>0, <2>1 DEF Insert, TypeOK, Leased, Renews
<1>12. ASSUME NEW j \in Jobs, InterruptInsert(j) PROVE Leased'
  <2>1. \A n \in Nodes, s \in Slots : ~Renews(exec[n][s], j)
    BY <1>12, <1>0 DEF InterruptInsert, Tasked, Renews
  <2>. QED
    BY <1>12, <1>0, <2>1 DEF InterruptInsert, TypeOK, Leased, Renews
<1>13. ASSUME NEW j \in Jobs, Poll(j) PROVE Leased'
  BY <1>13 DEF Poll, Leased, Renews
<1>14. ASSUME NEW j \in Jobs, TimeOut(j) PROVE Leased'
  BY <1>14 DEF TimeOut, Leased, Renews
<1>15. ASSUME NEW j \in Jobs, TimeOutWrites(j) PROVE Leased'
  BY <1>15, <1>0, RowColumns DEF TimeOutWrites, Ended, There, TypeOK, Leased, Renews
<1>16. ASSUME NEW j \in Jobs, Interrupt(j) PROVE Leased'
  <2>1. \A k \in Jobs : job'[k].status = job[k].status /\ job'[k].expired = job[k].expired
    BY <1>16, CancelRows
  <2>. QED
    BY <1>16, <2>1 DEF Interrupt, Leased, Renews
<1>17. ASSUME NEW j \in Jobs, DispatcherDies(j) PROVE Leased'
  BY <1>17 DEF DispatcherDies, Leased, Renews
<1>18. ASSUME NEW j \in Jobs, Cancel(j) PROVE Leased'
  <2>1. \A k \in Jobs : job'[k].status = job[k].status /\ job'[k].expired = job[k].expired
    BY <1>18, CancelRows
  <2>. QED
    BY <1>18, <2>1 DEF Cancel, Leased, Renews
<1>19. ASSUME NEW j \in Jobs, CancelWrites(j) PROVE Leased'
  BY <1>19, <1>0, RowColumns DEF CancelWrites, Ended, There, TypeOK, Leased, Renews
<1>20. ASSUME NEW j \in Jobs, LeaseExpires(j) PROVE Leased'
  BY <1>20, <1>0, RowColumns DEF LeaseExpires, TypeOK, Leased, Renews
<1>21. ASSUME NEW n \in Nodes, NEW j \in Jobs, Claim(n, j) PROVE Leased'
  <2>0. /\ target[j] = n /\ job[j].status \in {"queued", "running"}
        /\ job[j].status = "running" => job[j].expired
        /\ \A k \in Jobs :
              \/ k = j /\ job'[k].status = "running" /\ ~job'[k].expired
              \/ k # j /\ k \in Lapsed(n) /\ job'[k].status = "queued"
              \/ k # j /\ k \notin Lapsed(n) /\ job'[k] = job[k]
        /\ UNCHANGED <<node, call, target, ran>>
    BY <1>21, ClaimStep
  <2>1. PICK f : \A m \in Nodes, t \in Slots :
            exec'[m][t] = exec[m][t] \/ (<<m, t>> = f /\ exec'[m][t] = Fresh(j))
    BY <1>21, ClaimTask
  <2>2. \A k \in Lapsed(n) : job[k].status = "running" /\ job[k].expired
    BY DEF Lapsed, RunningAt
  <2>3. ASSUME NEW m \in Nodes, NEW t \in Slots, NEW k \in Jobs, Renews(exec'[m][t], k)
        PROVE  job'[k].status # "queued" /\ (job'[k].status = "running" => ~job'[k].expired)
    <3>1. CASE k = j
      BY <2>0, <3>1
    <3>2. CASE k # j
      <4>1. Renews(exec[m][t], k)
        BY <2>1, <2>3, <3>2 DEF Fresh, Renews
      <4>2. k \notin Lapsed(n)
        BY <2>2, <4>1 DEF Leased
      <4>. QED
        BY <2>0, <3>2, <4>1, <4>2 DEF Leased
    <3>. QED
      BY <3>1, <3>2
  <2>. QED
    BY <2>3 DEF Leased
<1>22. ASSUME NEW n \in Nodes, NEW s \in Slots, Refuse(n, s) PROVE Leased'
  <2>1. \A m \in Nodes, t \in Slots :
          \/ exec'[m][t] = exec[m][t]
          \/ m = n /\ t = s /\ Reported(exec[n][s], exec'[n][s], "failed")
    BY <1>22, PostsStep DEF Refuse
  <2>. QED
    BY <1>22, <1>0, <2>1 DEF Refuse, Reported, NoTask, TERMINAL_JOB_STATUSES, Leased, Renews
<1>23. ASSUME NEW n \in Nodes, NEW s \in Slots, ToolReturns(n, s) PROVE Leased'
  <2>1. \A m \in Nodes, t \in Slots :
          \/ exec'[m][t] = exec[m][t]
          \/ m = n /\ t = s /\ Reported(exec[n][s], exec'[n][s], "completed")
    BY <1>23, PostsStep DEF ToolReturns
  <2>. QED
    BY <1>23, <1>0, <2>1 DEF ToolReturns, Reported, NoTask, TERMINAL_JOB_STATUSES, Leased, Renews
<1>24. ASSUME NEW n \in Nodes, NEW s \in Slots, ToolRaises(n, s) PROVE Leased'
  <2>1. \A m \in Nodes, t \in Slots :
          \/ exec'[m][t] = exec[m][t]
          \/ m = n /\ t = s /\ Reported(exec[n][s], exec'[n][s], "failed")
    BY <1>24, PostsStep DEF ToolRaises
  <2>. QED
    BY <1>24, <1>0, <2>1 DEF ToolRaises, Reported, NoTask, TERMINAL_JOB_STATUSES, Leased, Renews
<1>25. ASSUME NEW n \in Nodes, NEW s \in Slots, JobBeat(n, s) PROVE Leased'
  <2>1. CASE UNCHANGED exec
    <3>1. \A k \in Jobs :
            job'[k] = job[k] \/ (job'[k].status = job[k].status /\ ~job'[k].expired)
      BY <1>25, <2>1, BeatRows
    <3>. QED
      BY <2>1, <3>1 DEF Leased, Renews
  <2>2. CASE ~ UNCHANGED exec
    <3>1. UNCHANGED job /\ Posts(n, s, "failed")
      BY <1>25, <2>2 DEF JobBeat
    <3>2. \A m \in Nodes, t \in Slots :
            \/ exec'[m][t] = exec[m][t]
            \/ m = n /\ t = s /\ Reported(exec[n][s], exec'[n][s], "failed")
      BY <3>1, PostsStep
    <3>. QED
      BY <1>0, <3>1, <3>2 DEF Reported, NoTask, TERMINAL_JOB_STATUSES, Leased, Renews
  <2>. QED
    BY <2>1, <2>2
<1>26. ASSUME NEW n \in Nodes, NEW s \in Slots, MonitorEnds(n, s) PROVE Leased'
  BY <1>26, <1>0, RowColumns DEF MonitorEnds, Event, TypeOK, Leased, Renews
<1>27. ASSUME NEW n \in Nodes, NEW s \in Slots, WriteReport(n, s) PROVE Leased'
  <2>1. exec' = [exec EXCEPT ![n][s] = NoTask]
    BY <1>27 DEF WriteReport, Becomes
  <2>2. \A k \in Jobs : job'[k] = job[k] \/ job'[k].status \in TERMINAL_JOB_STATUSES
    BY <1>27, ReportRows
  <2>3. \A m \in Nodes, t \in Slots, k \in Jobs : Renews(exec'[m][t], k) => Renews(exec[m][t], k)
    BY <2>1, Typed DEF TypeOK, Renews
  <2>. QED
    BY <2>2, <2>3 DEF Leased, TERMINAL_JOB_STATUSES
<1>28. ASSUME UNCHANGED vars PROVE Leased'
  BY <1>28 DEF vars, TypeOK, Leased, Renews
<1>. QED
  BY <1>1, <1>2, <1>3, <1>4, <1>5, <1>6, <1>7, <1>8, <1>9, <1>10, <1>11, <1>12, <1>13,
      <1>14, <1>15, <1>16, <1>17, <1>18, <1>19, <1>20, <1>21, <1>22, <1>23, <1>24, <1>25,
      <1>26, <1>27, <1>28 DEF Next, Admin, Dispatcher, NodeProcess, Task

\* Only one task renews the lease of a job.
LEMMA MonitoredNext ==
  TypeOK /\ Leased /\ OneMonitoredTask /\ [Next]_vars => OneMonitoredTask'
<1>. SUFFICES ASSUME TypeOK, Leased, OneMonitoredTask, [Next]_vars PROVE OneMonitoredTask'
  OBVIOUS
<1>0. /\ \A n \in Nodes, s \in Slots : exec[n][s] \in Execution
      /\ \A j \in Jobs : job[j] \in JobRow
      /\ "none" \notin Jobs
  BY DEF TypeOK
<1>1. ASSUME NEW n \in Nodes, CreateNode(n) PROVE OneMonitoredTask'
  BY <1>1, <1>0 DEF CreateNode, NoNode, TypeOK, OneMonitoredTask, Renews
<1>2. ASSUME NEW n \in Nodes, UpdateNode(n) PROVE OneMonitoredTask'
  BY <1>2, <1>0 DEF UpdateNode, Event, Present, TypeOK, OneMonitoredTask, Renews
<1>3. ASSUME NEW n \in Nodes, TestIdle(n) PROVE OneMonitoredTask'
  BY <1>3, <1>0 DEF TestIdle, Event, Present, TypeOK, OneMonitoredTask, Renews
<1>4. ASSUME NEW n \in Nodes, Rotate(n) PROVE OneMonitoredTask'
  BY <1>4, <1>0 DEF Rotate, TypeOK, OneMonitoredTask, Renews
<1>5. ASSUME NEW n \in Nodes, DeleteNode(n) PROVE OneMonitoredTask'
  BY <1>5, <1>0 DEF DeleteNode, NoNode, NoRow, TypeOK, OneMonitoredTask, Renews
<1>6. ASSUME NEW n \in Nodes, Enrol(n) PROVE OneMonitoredTask'
  BY <1>6, <1>0 DEF Enrol, Event, Present, TypeOK, OneMonitoredTask, Renews
<1>7. ASSUME NEW n \in Nodes, ClearIdentity(n) PROVE OneMonitoredTask'
  BY <1>7, <1>0 DEF ClearIdentity, NoTask, TypeOK, OneMonitoredTask, Renews
<1>8. ASSUME NEW n \in Nodes, Restart(n) PROVE OneMonitoredTask'
  BY <1>8, <1>0 DEF Restart, Event, Orphaned, NoTask, TypeOK, OneMonitoredTask, Renews
<1>9. ASSUME NEW n \in Nodes, ClaimNothing(n) PROVE OneMonitoredTask'
  BY <1>9, <1>0, ClaimNothingStep DEF Lapsed, RunningAt, JobsAt, OneMonitoredTask, Leased, Renews
<1>10. ASSUME NEW j \in Jobs, Choose(j) PROVE OneMonitoredTask'
  BY <1>10, <1>0 DEF Choose, Waiting, TypeOK, OneMonitoredTask, Renews
<1>11. ASSUME NEW j \in Jobs, Insert(j) PROVE OneMonitoredTask'
  BY <1>11, <1>0 DEF Insert, NewRow, Present, TypeOK, OneMonitoredTask, Renews
<1>12. ASSUME NEW j \in Jobs, InterruptInsert(j) PROVE OneMonitoredTask'
  BY <1>12, <1>0 DEF InterruptInsert, NewRow, Present, TypeOK, OneMonitoredTask, Renews
<1>13. ASSUME NEW j \in Jobs, Poll(j) PROVE OneMonitoredTask'
  BY <1>13, <1>0 DEF Poll, Active, TypeOK, OneMonitoredTask, Renews
<1>14. ASSUME NEW j \in Jobs, TimeOut(j) PROVE OneMonitoredTask'
  BY <1>14, <1>0 DEF TimeOut, Active, TypeOK, OneMonitoredTask, Renews
<1>15. ASSUME NEW j \in Jobs, TimeOutWrites(j) PROVE OneMonitoredTask'
  BY <1>15, <1>0 DEF TimeOutWrites, Ended, There, TypeOK, OneMonitoredTask, Renews
<1>16. ASSUME NEW j \in Jobs, Interrupt(j) PROVE OneMonitoredTask'
  BY <1>16, <1>0 DEF Interrupt, Active, TypeOK, OneMonitoredTask, Renews
<1>17. ASSUME NEW j \in Jobs, DispatcherDies(j) PROVE OneMonitoredTask'
  BY <1>17, <1>0 DEF DispatcherDies, Event, Waiting, TypeOK, OneMonitoredTask, Renews
<1>18. ASSUME NEW j \in Jobs, Cancel(j) PROVE OneMonitoredTask'
  BY <1>18, <1>0 DEF Cancel, TypeOK, OneMonitoredTask, Renews
<1>19. ASSUME NEW j \in Jobs, CancelWrites(j) PROVE OneMonitoredTask'
  BY <1>19, <1>0 DEF CancelWrites, Ended, There, TypeOK, OneMonitoredTask, Renews
<1>20. ASSUME NEW j \in Jobs, LeaseExpires(j) PROVE OneMonitoredTask'
  BY <1>20, <1>0 DEF LeaseExpires, TypeOK, OneMonitoredTask, Renews
<1>21. ASSUME NEW n \in Nodes, NEW j \in Jobs, Claim(n, j) PROVE OneMonitoredTask'
  <2>0. /\ target[j] = n /\ job[j].status \in {"queued", "running"}
        /\ job[j].status = "running" => job[j].expired
        /\ \A k \in Jobs :
              \/ k = j /\ job'[k].status = "running" /\ ~job'[k].expired
              \/ k # j /\ k \in Lapsed(n) /\ job'[k].status = "queued"
              \/ k # j /\ k \notin Lapsed(n) /\ job'[k] = job[k]
        /\ UNCHANGED <<node, call, target, ran>>
    BY <1>21, ClaimStep
  <2>1. PICK f : \A m \in Nodes, t \in Slots :
            exec'[m][t] = exec[m][t] \/ (<<m, t>> = f /\ exec'[m][t] = Fresh(j))
    BY <1>21, ClaimTask
  <2>2. \A m \in Nodes, t \in Slots : ~Renews(exec[m][t], j)
    BY <2>0 DEF Leased
  <2>3. \A m \in Nodes, t \in Slots, k \in Jobs :
          Renews(exec'[m][t], k) => IF k = j THEN <<m, t>> = f ELSE Renews(exec[m][t], k)
    BY <2>1, <2>2 DEF Fresh, Renews
  <2>. QED
    BY <2>3 DEF OneMonitoredTask
<1>22. ASSUME NEW n \in Nodes, NEW s \in Slots, Refuse(n, s) PROVE OneMonitoredTask'
  <2>1. \A m \in Nodes, t \in Slots :
          \/ exec'[m][t] = exec[m][t]
          \/ m = n /\ t = s /\ Reported(exec[n][s], exec'[n][s], "failed")
    BY <1>22, PostsStep DEF Refuse
  <2>. QED
    BY <1>22, <1>0, <2>1 DEF Refuse, Reported, NoTask, TERMINAL_JOB_STATUSES, OneMonitoredTask, Leased, Renews
<1>23. ASSUME NEW n \in Nodes, NEW s \in Slots, ToolReturns(n, s) PROVE OneMonitoredTask'
  <2>1. \A m \in Nodes, t \in Slots :
          \/ exec'[m][t] = exec[m][t]
          \/ m = n /\ t = s /\ Reported(exec[n][s], exec'[n][s], "completed")
    BY <1>23, PostsStep DEF ToolReturns
  <2>. QED
    BY <1>23, <1>0, <2>1 DEF ToolReturns, Reported, NoTask, TERMINAL_JOB_STATUSES, OneMonitoredTask, Leased, Renews
<1>24. ASSUME NEW n \in Nodes, NEW s \in Slots, ToolRaises(n, s) PROVE OneMonitoredTask'
  <2>1. \A m \in Nodes, t \in Slots :
          \/ exec'[m][t] = exec[m][t]
          \/ m = n /\ t = s /\ Reported(exec[n][s], exec'[n][s], "failed")
    BY <1>24, PostsStep DEF ToolRaises
  <2>. QED
    BY <1>24, <1>0, <2>1 DEF ToolRaises, Reported, NoTask, TERMINAL_JOB_STATUSES, OneMonitoredTask, Leased, Renews
<1>25. ASSUME NEW n \in Nodes, NEW s \in Slots, JobBeat(n, s) PROVE OneMonitoredTask'
  <2>1. CASE UNCHANGED exec
    BY <1>25, <1>0, <2>1 DEF JobBeat, There, TypeOK, OneMonitoredTask, Leased, Renews
  <2>2. CASE ~ UNCHANGED exec
    <3>1. UNCHANGED job /\ Posts(n, s, "failed")
      BY <1>25, <2>2 DEF JobBeat
    <3>2. \A m \in Nodes, t \in Slots :
            \/ exec'[m][t] = exec[m][t]
            \/ m = n /\ t = s /\ Reported(exec[n][s], exec'[n][s], "failed")
      BY <3>1, PostsStep
    <3>. QED
      BY <1>25, <1>0, <3>1, <3>2 DEF JobBeat, Reported, NoTask, TERMINAL_JOB_STATUSES, OneMonitoredTask, Leased, Renews
  <2>. QED
    BY <2>1, <2>2
<1>26. ASSUME NEW n \in Nodes, NEW s \in Slots, MonitorEnds(n, s) PROVE OneMonitoredTask'
  BY <1>26, <1>0 DEF MonitorEnds, Event, TypeOK, OneMonitoredTask, Renews
<1>27. ASSUME NEW n \in Nodes, NEW s \in Slots, WriteReport(n, s) PROVE OneMonitoredTask'
  <2>1. exec' = [exec EXCEPT ![n][s] = NoTask]
    BY <1>27 DEF WriteReport, Becomes
  <2>. QED
    BY <1>27, <1>0, <2>1 DEF WriteReport, NoTask, TypeOK, Ended, There, OneMonitoredTask, Leased, Renews
<1>28. ASSUME UNCHANGED vars PROVE OneMonitoredTask'
  BY <1>28 DEF vars, TypeOK, OneMonitoredTask, Renews
<1>. QED
  BY <1>1, <1>2, <1>3, <1>4, <1>5, <1>6, <1>7, <1>8, <1>9, <1>10, <1>11, <1>12, <1>13,
      <1>14, <1>15, <1>16, <1>17, <1>18, <1>19, <1>20, <1>21, <1>22, <1>23, <1>24, <1>25,
      <1>26, <1>27, <1>28 DEF Next, Admin, Dispatcher, NodeProcess, Task

\* A result stands for an execution that ran to its end.
Delivered ==
  /\ \A j \in Jobs : job[j].status = "completed" \/ call[j] = "result" => j \in ran
  /\ \A n \in Nodes, s \in Slots : exec[n][s].phase = "completed" => exec[n][s].job \in ran

LEMMA DeliveredNext == TypeOK /\ Busy /\ Delivered /\ [Next]_vars => Delivered'
<1>. SUFFICES ASSUME TypeOK, Busy, Delivered, [Next]_vars PROVE Delivered'
  OBVIOUS
<1>0. /\ \A n \in Nodes, s \in Slots : exec[n][s] \in Execution
      /\ \A j \in Jobs : job[j] \in JobRow
  BY DEF TypeOK
<1>1. ASSUME NEW n \in Nodes, CreateNode(n) PROVE Delivered'
  BY <1>1, <1>0, RowColumns DEF CreateNode, NoNode, TypeOK, Delivered
<1>2. ASSUME NEW n \in Nodes, UpdateNode(n) PROVE Delivered'
  BY <1>2, <1>0, RowColumns DEF UpdateNode, Event, Present, TypeOK, Delivered
<1>3. ASSUME NEW n \in Nodes, TestIdle(n) PROVE Delivered'
  BY <1>3, <1>0, RowColumns DEF TestIdle, Event, Present, TypeOK, Delivered
<1>4. ASSUME NEW n \in Nodes, Rotate(n) PROVE Delivered'
  BY <1>4, <1>0, RowColumns DEF Rotate, TypeOK, Delivered
<1>5. ASSUME NEW n \in Nodes, DeleteNode(n) PROVE Delivered'
  BY <1>5, <1>0, RowColumns DEF DeleteNode, NoNode, NoRow, TypeOK, Delivered
<1>6. ASSUME NEW n \in Nodes, Enrol(n) PROVE Delivered'
  BY <1>6, <1>0, RowColumns DEF Enrol, Event, Present, TypeOK, Delivered
<1>7. ASSUME NEW n \in Nodes, ClearIdentity(n) PROVE Delivered'
  BY <1>7, <1>0, RowColumns DEF ClearIdentity, NoTask, TypeOK, Delivered
<1>8. ASSUME NEW n \in Nodes, Restart(n) PROVE Delivered'
  BY <1>8, <1>0, RowColumns DEF Restart, Event, Orphaned, NoTask, TypeOK, Delivered
<1>9. ASSUME NEW n \in Nodes, ClaimNothing(n) PROVE Delivered'
  BY <1>9, <1>0, ClaimNothingStep, RowColumns DEF Lapsed, RunningAt, JobsAt, Delivered, Busy
<1>10. ASSUME NEW j \in Jobs, Choose(j) PROVE Delivered'
  BY <1>10, <1>0, RowColumns DEF Choose, Waiting, TypeOK, Delivered
<1>11. ASSUME NEW j \in Jobs, Insert(j) PROVE Delivered'
  BY <1>11, <1>0, RowColumns DEF Insert, NewRow, Present, TypeOK, Delivered
<1>12. ASSUME NEW j \in Jobs, InterruptInsert(j) PROVE Delivered'
  BY <1>12, <1>0, RowColumns DEF InterruptInsert, NewRow, Present, TypeOK, Delivered
<1>13. ASSUME NEW j \in Jobs, Poll(j) PROVE Delivered'
  BY <1>13, <1>0, RowColumns DEF Poll, Active, TypeOK, Delivered
<1>14. ASSUME NEW j \in Jobs, TimeOut(j) PROVE Delivered'
  BY <1>14, <1>0, RowColumns DEF TimeOut, Active, TypeOK, Delivered
<1>15. ASSUME NEW j \in Jobs, TimeOutWrites(j) PROVE Delivered'
  BY <1>15, <1>0, RowColumns DEF TimeOutWrites, Ended, There, TypeOK, Delivered
<1>16. ASSUME NEW j \in Jobs, Interrupt(j) PROVE Delivered'
  <2>1. \A k \in Jobs : job'[k].status = job[k].status
    BY <1>16, CancelRows
  <2>. QED
    BY <1>16, <2>1 DEF Interrupt, Delivered
<1>17. ASSUME NEW j \in Jobs, DispatcherDies(j) PROVE Delivered'
  BY <1>17, <1>0, RowColumns DEF DispatcherDies, Event, Waiting, TypeOK, Delivered
<1>18. ASSUME NEW j \in Jobs, Cancel(j) PROVE Delivered'
  <2>1. \A k \in Jobs : job'[k].status = job[k].status
    BY <1>18, CancelRows
  <2>. QED
    BY <1>18, <2>1 DEF Cancel, Delivered
<1>19. ASSUME NEW j \in Jobs, CancelWrites(j) PROVE Delivered'
  BY <1>19, <1>0, RowColumns DEF CancelWrites, Ended, There, TypeOK, Delivered
<1>20. ASSUME NEW j \in Jobs, LeaseExpires(j) PROVE Delivered'
  BY <1>20, <1>0, RowColumns DEF LeaseExpires, TypeOK, Delivered
<1>21. ASSUME NEW n \in Nodes, NEW j \in Jobs, Claim(n, j) PROVE Delivered'
  <2>0. /\ target[j] = n /\ job[j].status \in {"queued", "running"}
        /\ job[j].status = "running" => job[j].expired
        /\ \A k \in Jobs :
              \/ k = j /\ job'[k].status = "running" /\ ~job'[k].expired
              \/ k # j /\ k \in Lapsed(n) /\ job'[k].status = "queued"
              \/ k # j /\ k \notin Lapsed(n) /\ job'[k] = job[k]
        /\ UNCHANGED <<node, call, target, ran>>
    BY <1>21, ClaimStep
  <2>1. PICK f : \A m \in Nodes, t \in Slots :
            exec'[m][t] = exec[m][t] \/ (<<m, t>> = f /\ exec'[m][t] = Fresh(j))
    BY <1>21, ClaimTask
  <2>2. \A k \in Jobs : job'[k].status = "completed" => job[k].status = "completed"
    BY <2>0
  <2>3. \A m \in Nodes, t \in Slots : exec'[m][t].phase = "completed" => exec'[m][t] = exec[m][t]
    BY <2>1 DEF Fresh
  <2>. QED
    BY <2>0, <2>2, <2>3 DEF Delivered
<1>22. ASSUME NEW n \in Nodes, NEW s \in Slots, Refuse(n, s) PROVE Delivered'
  <2>1. \A m \in Nodes, t \in Slots :
          \/ exec'[m][t] = exec[m][t]
          \/ m = n /\ t = s /\ Reported(exec[n][s], exec'[n][s], "failed")
    BY <1>22, PostsStep DEF Refuse
  <2>. QED
    BY <1>22, <1>0, <2>1, RowColumns DEF Refuse, Reported, NoTask, TERMINAL_JOB_STATUSES, Delivered, Busy
<1>23. ASSUME NEW n \in Nodes, NEW s \in Slots, ToolReturns(n, s) PROVE Delivered'
  <2>1. \A m \in Nodes, t \in Slots :
          \/ exec'[m][t] = exec[m][t]
          \/ m = n /\ t = s /\ Reported(exec[n][s], exec'[n][s], "completed")
    BY <1>23, PostsStep DEF ToolReturns
  <2>. QED
    BY <1>23, <1>0, <2>1, RowColumns DEF ToolReturns, Reported, NoTask, TERMINAL_JOB_STATUSES, Delivered, Busy
<1>24. ASSUME NEW n \in Nodes, NEW s \in Slots, ToolRaises(n, s) PROVE Delivered'
  <2>1. \A m \in Nodes, t \in Slots :
          \/ exec'[m][t] = exec[m][t]
          \/ m = n /\ t = s /\ Reported(exec[n][s], exec'[n][s], "failed")
    BY <1>24, PostsStep DEF ToolRaises
  <2>. QED
    BY <1>24, <1>0, <2>1, RowColumns DEF ToolRaises, Reported, NoTask, TERMINAL_JOB_STATUSES, Delivered, Busy
<1>25. ASSUME NEW n \in Nodes, NEW s \in Slots, JobBeat(n, s) PROVE Delivered'
  <2>1. CASE UNCHANGED exec
    <3>1. \A k \in Jobs :
            job'[k] = job[k] \/ (job'[k].status = job[k].status /\ ~job'[k].expired)
      BY <1>25, <2>1, BeatRows
    <3>. QED
      BY <1>25, <2>1, <3>1 DEF JobBeat, Delivered
  <2>2. CASE ~ UNCHANGED exec
    <3>1. UNCHANGED job /\ Posts(n, s, "failed")
      BY <1>25, <2>2 DEF JobBeat
    <3>2. \A m \in Nodes, t \in Slots :
            \/ exec'[m][t] = exec[m][t]
            \/ m = n /\ t = s /\ Reported(exec[n][s], exec'[n][s], "failed")
      BY <3>1, PostsStep
    <3>. QED
      BY <1>25, <1>0, <3>1, <3>2 DEF JobBeat, Reported, NoTask, TERMINAL_JOB_STATUSES, Delivered
  <2>. QED
    BY <2>1, <2>2
<1>26. ASSUME NEW n \in Nodes, NEW s \in Slots, MonitorEnds(n, s) PROVE Delivered'
  BY <1>26, <1>0, RowColumns DEF MonitorEnds, Event, TypeOK, Delivered
<1>27. ASSUME NEW n \in Nodes, NEW s \in Slots, WriteReport(n, s) PROVE Delivered'
  <2>1. exec' = [exec EXCEPT ![n][s] = NoTask]
    BY <1>27 DEF WriteReport, Becomes
  <2>. QED
    BY <1>27, <1>0, <2>1, RowColumns DEF WriteReport, NoTask, TypeOK, Ended, There, Delivered, Busy
<1>28. ASSUME UNCHANGED vars PROVE Delivered'
  BY <1>28 DEF vars, TypeOK, Delivered
<1>. QED
  BY <1>1, <1>2, <1>3, <1>4, <1>5, <1>6, <1>7, <1>8, <1>9, <1>10, <1>11, <1>12, <1>13,
      <1>14, <1>15, <1>16, <1>17, <1>18, <1>19, <1>20, <1>21, <1>22, <1>23, <1>24, <1>25,
      <1>26, <1>27, <1>28 DEF Next, Admin, Dispatcher, NodeProcess, Task

-----------------------------------------------------------------------------
(* Capacity.                                                                *)

\* A step that adds no running job to a node keeps its capacity.
LEMMA CapacityKept ==
  ASSUME CapacityRespected, NEW n \in Nodes,
         Present(n)' => Present(n) /\ node'[n].max = node[n].max,
         RunningAt(n)' \subseteq RunningAt(n),
         node[n].max \in Nat
  PROVE  Present(n)' => Cardinality(RunningAt(n)') <= node'[n].max
<1>1. IsFiniteSet(RunningAt(n)) /\ Cardinality(RunningAt(n)) \in Nat
  BY JobsFinite DEF RunningAt, JobsAt
<1>2. Cardinality(RunningAt(n)') <= Cardinality(RunningAt(n)) /\ Cardinality(RunningAt(n)') \in Nat
  BY <1>1, FS_Subset, FS_CardinalityType
<1>. QED
  BY <1>1, <1>2 DEF CapacityRespected

\* Jobs that are queued or claimed fill a node up to its capacity only.
LEMMA CapacityNext ==
  TypeOK /\ Busy /\ Placed /\ CapacityRespected /\ [Next]_vars => CapacityRespected'
<1>. SUFFICES ASSUME TypeOK, Busy, Placed, CapacityRespected, [Next]_vars,
                     NEW m \in Nodes, Present(m)'
              PROVE  Cardinality(RunningAt(m)') <= node'[m].max
  BY DEF CapacityRespected
<1>0. node[m] \in NodeRow /\ node[m].max \in Nat /\ MaxConcurrency \in Nat
  BY DEF TypeOK, NodeRow
<1>a. ASSUME Present(m), node'[m].max = node[m].max, RunningAt(m)' \subseteq RunningAt(m)
      PROVE  Cardinality(RunningAt(m)') <= node'[m].max
  BY <1>a, <1>0, CapacityKept
<1>1. ASSUME NEW n \in Nodes, CreateNode(n) PROVE Cardinality(RunningAt(m)') <= node'[m].max
  <2>1. CASE m = n
    <3>1. RunningAt(m)' = {}
      BY <1>1, <2>1 DEF CreateNode, Placed, RunningAt, JobsAt
    <3>2. node'[m].max \in Nat
      BY <1>1, TypeNext DEF TypeOK, NodeRow
    <3>. QED
      BY <3>1, <3>2, FS_EmptySet
  <2>2. CASE m # n
    <3>1. node'[m] = node[m]
      BY <1>1, <2>2 DEF CreateNode, TypeOK
    <3>. QED
      BY <1>1, <1>a, <3>1 DEF CreateNode, Present, RunningAt, JobsAt
  <2>. QED
    BY <2>1, <2>2
<1>2. ASSUME NEW n \in Nodes, UpdateNode(n) PROVE Cardinality(RunningAt(m)') <= node'[m].max
  <2>0. node[n] \in NodeRow
    BY DEF TypeOK
  <2>1. PICK b, c \in BOOLEAN : node' = [node EXCEPT ![n] = [@ EXCEPT !.enabled = b, !.matches = c]]
    BY <1>2 DEF UpdateNode
  <2>2. /\ [node[n] EXCEPT !.enabled = b, !.matches = c].state = node[n].state
        /\ [node[n] EXCEPT !.enabled = b, !.matches = c].max = node[n].max
    BY <2>0, NodeEdits
  <2>3. Present(m) /\ node'[m].max = node[m].max
    BY <2>1, <2>2 DEF Present, TypeOK
  <2>. QED
    BY <1>2, <1>a, <2>3 DEF UpdateNode, RunningAt, JobsAt
<1>3. ASSUME NEW n \in Nodes, TestIdle(n) PROVE Cardinality(RunningAt(m)') <= node'[m].max
  BY <1>3, <1>a DEF TestIdle, Present, RunningAt, JobsAt
<1>4. ASSUME NEW n \in Nodes, Rotate(n) PROVE Cardinality(RunningAt(m)') <= node'[m].max
  <2>0. node[n] \in NodeRow
    BY DEF TypeOK
  <2>1. /\ [node[n] EXCEPT !.offered = TRUE, !.token = FALSE].state = node[n].state
        /\ [node[n] EXCEPT !.offered = TRUE, !.token = FALSE].max = node[n].max
    BY <2>0, NodeEdits
  <2>2. Present(m) /\ node'[m].max = node[m].max
    BY <1>4, <2>1 DEF Rotate, Present, TypeOK
  <2>. QED
    BY <1>4, <1>a, <2>2 DEF Rotate, RunningAt, JobsAt
<1>5. ASSUME NEW n \in Nodes, DeleteNode(n) PROVE Cardinality(RunningAt(m)') <= node'[m].max
  <2>1. m # n /\ node'[m] = node[m]
    BY <1>5, Deleted DEF DeleteNode, Present, TypeOK
  <2>2. RunningAt(m)' \subseteq RunningAt(m)
    BY <1>5, <2>1, Typed DEF DeleteNode, RunningAt, JobsAt
  <2>. QED
    BY <1>a, <2>1, <2>2 DEF Present
<1>6. ASSUME NEW n \in Nodes, Enrol(n) PROVE Cardinality(RunningAt(m)') <= node'[m].max
  <2>0. node[n] \in NodeRow
    BY DEF TypeOK
  <2>1. /\ [node[n] EXCEPT !.offered = FALSE, !.token = TRUE].state = node[n].state
        /\ [node[n] EXCEPT !.offered = FALSE, !.token = TRUE].max = node[n].max
    BY <2>0, NodeEdits
  <2>2. Present(m) /\ node'[m].max = node[m].max
    BY <1>6, <2>1 DEF Enrol, Present, TypeOK
  <2>. QED
    BY <1>6, <1>a, <2>2 DEF Enrol, RunningAt, JobsAt
<1>7. ASSUME NEW n \in Nodes, ClearIdentity(n) PROVE Cardinality(RunningAt(m)') <= node'[m].max
  BY <1>7, <1>a DEF ClearIdentity, Present, RunningAt, JobsAt
<1>8. ASSUME NEW n \in Nodes, Restart(n) PROVE Cardinality(RunningAt(m)') <= node'[m].max
  BY <1>8, <1>a DEF Restart, Present, RunningAt, JobsAt
<1>9. ASSUME NEW n \in Nodes, ClaimNothing(n) PROVE Cardinality(RunningAt(m)') <= node'[m].max
  <2>1. RunningAt(m)' \subseteq RunningAt(m)
    BY <1>9, ClaimNothingStep DEF RunningAt, JobsAt
  <2>. QED
    BY <1>9, <1>a, <2>1 DEF ClaimNothing, Present
<1>10. ASSUME NEW j \in Jobs, Choose(j) PROVE Cardinality(RunningAt(m)') <= node'[m].max
  <2>1. job[j].status = "none"
    BY <1>10 DEF Choose, Placed
  <2>2. RunningAt(m)' \subseteq RunningAt(m)
    <3>. SUFFICES ASSUME NEW k \in Jobs, target'[k] = m, job[k].status = "running"
                  PROVE  target[k] = m
      BY <1>10 DEF Choose, RunningAt, JobsAt
    <3>1. k # j
      BY <2>1
    <3>. QED
      BY <1>10, <3>1 DEF Choose, TypeOK
  <2>. QED
    BY <1>10, <1>a, <2>2 DEF Choose, Present
<1>11. ASSUME NEW j \in Jobs, Insert(j) PROVE Cardinality(RunningAt(m)') <= node'[m].max
  <2>1. RunningAt(m)' \subseteq RunningAt(m)
    BY <1>11, NewRowType DEF Insert, RunningAt, JobsAt, TypeOK
  <2>. QED
    BY <1>11, <1>a, <2>1 DEF Insert, Present
<1>12. ASSUME NEW j \in Jobs, InterruptInsert(j) PROVE Cardinality(RunningAt(m)') <= node'[m].max
  <2>1. RunningAt(m)' \subseteq RunningAt(m)
    BY <1>12, NewRowType DEF InterruptInsert, RunningAt, JobsAt, TypeOK
  <2>. QED
    BY <1>12, <1>a, <2>1 DEF InterruptInsert, Present
<1>13. ASSUME NEW j \in Jobs, Poll(j) PROVE Cardinality(RunningAt(m)') <= node'[m].max
  BY <1>13, <1>a DEF Poll, Present, RunningAt, JobsAt
<1>14. ASSUME NEW j \in Jobs, TimeOut(j) PROVE Cardinality(RunningAt(m)') <= node'[m].max
  BY <1>14, <1>a DEF TimeOut, Present, RunningAt, JobsAt
<1>15. ASSUME NEW j \in Jobs, TimeOutWrites(j) PROVE Cardinality(RunningAt(m)') <= node'[m].max
  <2>1. job[j] \in JobRow
    BY DEF TypeOK
  <2>2. /\ Ended(job[j], "failed", TRUE).status = "failed"
        /\ Ended(job[j], "cancelled", TRUE).status = "cancelled"
    BY <2>1 DEF Ended, JobRow
  <2>3. RunningAt(m)' \subseteq RunningAt(m)
    BY <1>15, <2>2 DEF TimeOutWrites, RunningAt, JobsAt, TypeOK
  <2>. QED
    BY <1>15, <1>a, <2>3 DEF TimeOutWrites, Present
<1>16. ASSUME NEW j \in Jobs, Interrupt(j) PROVE Cardinality(RunningAt(m)') <= node'[m].max
  <2>1. RunningAt(m)' \subseteq RunningAt(m)
    BY <1>16, CancelRows DEF Interrupt, RunningAt, JobsAt
  <2>. QED
    BY <1>16, <1>a, <2>1 DEF Interrupt, Present
<1>17. ASSUME NEW j \in Jobs, DispatcherDies(j) PROVE Cardinality(RunningAt(m)') <= node'[m].max
  BY <1>17, <1>a DEF DispatcherDies, Present, RunningAt, JobsAt
<1>18. ASSUME NEW j \in Jobs, Cancel(j) PROVE Cardinality(RunningAt(m)') <= node'[m].max
  <2>1. RunningAt(m)' \subseteq RunningAt(m)
    BY <1>18, CancelRows DEF Cancel, RunningAt, JobsAt
  <2>. QED
    BY <1>18, <1>a, <2>1 DEF Cancel, Present
<1>19. ASSUME NEW j \in Jobs, CancelWrites(j) PROVE Cardinality(RunningAt(m)') <= node'[m].max
  <2>1. job[j] \in JobRow
    BY DEF TypeOK
  <2>2. /\ Ended(job[j], "failed", TRUE).status = "failed"
        /\ Ended(job[j], "cancelled", TRUE).status = "cancelled"
    BY <2>1 DEF Ended, JobRow
  <2>3. RunningAt(m)' \subseteq RunningAt(m)
    BY <1>19, <2>2 DEF CancelWrites, RunningAt, JobsAt, TypeOK
  <2>. QED
    BY <1>19, <1>a, <2>3 DEF CancelWrites, Present
<1>20. ASSUME NEW j \in Jobs, LeaseExpires(j) PROVE Cardinality(RunningAt(m)') <= node'[m].max
  <2>1. job[j] \in JobRow
    BY DEF TypeOK
  <2>2. RunningAt(m)' \subseteq RunningAt(m)
    BY <1>20, <2>1 DEF LeaseExpires, RunningAt, JobsAt, TypeOK
  <2>. QED
    BY <1>20, <1>a, <2>2 DEF LeaseExpires, Present
<1>21. ASSUME NEW n \in Nodes, NEW j \in Jobs, Claim(n, j) PROVE Cardinality(RunningAt(m)') <= node'[m].max
  <2>0. /\ target[j] = n
        /\ Cardinality(RunningAt(n) \ Lapsed(n)) < node[n].max
        /\ \A k \in Jobs :
              \/ k = j /\ job'[k].status = "running"
              \/ k # j /\ k \in Lapsed(n) /\ job'[k].status = "queued"
              \/ k # j /\ k \notin Lapsed(n) /\ job'[k] = job[k]
        /\ UNCHANGED <<node, target>>
    BY <1>21, ClaimStep
  <2>1. CASE m # n
    <3>1. RunningAt(m)' \subseteq RunningAt(m)
      BY <2>0, <2>1 DEF RunningAt, JobsAt
    <3>. QED
      BY <1>a, <2>0, <3>1 DEF Present
  <2>2. CASE m = n
    <3>. DEFINE R == RunningAt(n) \ Lapsed(n)
    <3>1. RunningAt(n)' \subseteq R \cup {j}
      BY <2>0 DEF RunningAt, JobsAt
    <3>2. R \in SUBSET Jobs
      BY DEF RunningAt, JobsAt
    <3>. HIDE DEF R
    <3>3. IsFiniteSet(R) /\ Cardinality(R) \in Nat
      BY <3>2, JobsFinite
    <3>4. Cardinality(R \cup {j}) <= Cardinality(R) + 1 /\ IsFiniteSet(R \cup {j})
      <4>1. /\ IsFiniteSet(R \cup {j})
            /\ Cardinality(R \cup {j}) = IF j \in R THEN Cardinality(R) ELSE Cardinality(R) + 1
        BY <3>3, FS_AddElement, Zenon
      <4>. QED
        BY <3>3, <4>1
    <3>5. Cardinality(RunningAt(n)') <= Cardinality(R \cup {j})
      BY <3>1, <3>4, FS_Subset
    <3>6. Cardinality(RunningAt(n)') \in Nat /\ Cardinality(R \cup {j}) \in Nat
      BY <3>1, <3>4, FS_Subset, FS_CardinalityType
    <3>7. Cardinality(R) < node[n].max
      BY <2>0 DEF R
    <3>. QED
      BY <1>0, <2>0, <2>2, <3>3, <3>4, <3>5, <3>6, <3>7
  <2>. QED
    BY <2>1, <2>2
<1>22. ASSUME NEW n \in Nodes, NEW s \in Slots, Refuse(n, s) PROVE Cardinality(RunningAt(m)') <= node'[m].max
  BY <1>22, <1>a DEF Refuse, Present, RunningAt, JobsAt
<1>23. ASSUME NEW n \in Nodes, NEW s \in Slots, ToolReturns(n, s) PROVE Cardinality(RunningAt(m)') <= node'[m].max
  BY <1>23, <1>a DEF ToolReturns, Present, RunningAt, JobsAt
<1>24. ASSUME NEW n \in Nodes, NEW s \in Slots, ToolRaises(n, s) PROVE Cardinality(RunningAt(m)') <= node'[m].max
  BY <1>24, <1>a DEF ToolRaises, Present, RunningAt, JobsAt
<1>25. ASSUME NEW n \in Nodes, NEW s \in Slots, JobBeat(n, s) PROVE Cardinality(RunningAt(m)') <= node'[m].max
  <2>1. CASE UNCHANGED exec
    <3>1. RunningAt(m)' \subseteq RunningAt(m)
      BY <1>25, <2>1, BeatRows DEF JobBeat, RunningAt, JobsAt
    <3>. QED
      BY <1>25, <1>a, <3>1 DEF JobBeat, Present
  <2>2. CASE ~ UNCHANGED exec
    <3>1. UNCHANGED <<job, node, target>>
      BY <1>25, <2>2 DEF JobBeat
    <3>. QED
      BY <1>a, <3>1 DEF Present, RunningAt, JobsAt
  <2>. QED
    BY <2>1, <2>2
<1>26. ASSUME NEW n \in Nodes, NEW s \in Slots, MonitorEnds(n, s) PROVE Cardinality(RunningAt(m)') <= node'[m].max
  BY <1>26, <1>a DEF MonitorEnds, Present, RunningAt, JobsAt
<1>27. ASSUME NEW n \in Nodes, NEW s \in Slots, WriteReport(n, s) PROVE Cardinality(RunningAt(m)') <= node'[m].max
  <2>1. RunningAt(m)' \subseteq RunningAt(m)
    BY <1>27, ReportRows DEF WriteReport, RunningAt, JobsAt, TERMINAL_JOB_STATUSES
  <2>. QED
    BY <1>27, <1>a, <2>1 DEF WriteReport, Present
<1>28. ASSUME UNCHANGED vars PROVE Cardinality(RunningAt(m)') <= node'[m].max
  BY <1>28, <1>a DEF vars, Present, RunningAt, JobsAt
<1>. QED
  BY <1>1, <1>2, <1>3, <1>4, <1>5, <1>6, <1>7, <1>8, <1>9, <1>10, <1>11, <1>12, <1>13,
      <1>14, <1>15, <1>16, <1>17, <1>18, <1>19, <1>20, <1>21, <1>22, <1>23, <1>24, <1>25,
      <1>26, <1>27, <1>28 DEF Next, Admin, Dispatcher, NodeProcess, Task

-----------------------------------------------------------------------------
(* The invariant and the theorems.                                          *)

IInv ==
  /\ TypeOK /\ Busy /\ Placed /\ Tasked /\ Leased
  /\ OneMonitoredTask /\ CapacityRespected /\ Delivered

LEMMA IInvInit == Init => IInv
<1>. SUFFICES ASSUME Init PROVE IInv
  OBVIOUS
<1>1. TypeOK /\ Busy
  BY TypeInit
<1>2. Placed
  BY DEF Init, Placed, NoRow
<1>3. Tasked /\ Leased /\ OneMonitoredTask
  BY Typed DEF Init, Tasked, Leased, OneMonitoredTask, Renews
<1>4. CapacityRespected
  BY Typed DEF Init, CapacityRespected, Present
<1>5. Delivered
  BY Typed DEF Init, Delivered, NoRow
<1>. QED
  BY <1>1, <1>2, <1>3, <1>4, <1>5 DEF IInv

LEMMA IInvNext == IInv /\ [Next]_vars => IInv'
BY TypeNext, BusyNext, PlacedNext, TaskedNext, LeasedNext, MonitoredNext, CapacityNext,
   DeliveredNext DEF IInv

LEMMA Inductive == Spec => []IInv
BY IInvInit, IInvNext, PTL DEF Spec

\* Every variable keeps its type, for any number of nodes, jobs and slots.
THEOREM RemoteTypeCorrect == Spec => []TypeOK
BY Inductive, PTL DEF IInv

\* No two tasks renew the lease of one job, on one node or on two.
THEOREM OneMonitor == Spec => []OneMonitoredTask
BY Inductive, PTL DEF IInv

\* The rows never count more running jobs on a node than it may run.
THEOREM CapacityHolds == Spec => []CapacityRespected
BY Inductive, PTL DEF IInv

\* No step brings a job that has ended back to the queue.
LEMMA RevivedNext ==
  IInv /\ [Next]_vars =>
    \A j \in Jobs : Terminal(j) => job'[j].status \in TERMINAL_JOB_STATUSES \cup {"none"}
<1>. SUFFICES ASSUME TypeOK, Placed, [Next]_vars, NEW k \in Jobs,
                     job[k].status \in TERMINAL_JOB_STATUSES
              PROVE  job'[k].status \in TERMINAL_JOB_STATUSES \cup {"none"}
  BY DEF IInv, Terminal
<1>1. ASSUME NEW n \in Nodes, CreateNode(n) PROVE job'[k].status \in TERMINAL_JOB_STATUSES \cup {"none"}
  BY <1>1 DEF CreateNode
<1>2. ASSUME NEW n \in Nodes, UpdateNode(n) PROVE job'[k].status \in TERMINAL_JOB_STATUSES \cup {"none"}
  BY <1>2 DEF UpdateNode
<1>3. ASSUME NEW n \in Nodes, TestIdle(n) PROVE job'[k].status \in TERMINAL_JOB_STATUSES \cup {"none"}
  BY <1>3 DEF TestIdle
<1>4. ASSUME NEW n \in Nodes, Rotate(n) PROVE job'[k].status \in TERMINAL_JOB_STATUSES \cup {"none"}
  BY <1>4 DEF Rotate
<1>5. ASSUME NEW n \in Nodes, DeleteNode(n) PROVE job'[k].status \in TERMINAL_JOB_STATUSES \cup {"none"}
  BY <1>5, Typed DEF DeleteNode
<1>6. ASSUME NEW n \in Nodes, Enrol(n) PROVE job'[k].status \in TERMINAL_JOB_STATUSES \cup {"none"}
  BY <1>6 DEF Enrol
<1>7. ASSUME NEW n \in Nodes, ClearIdentity(n) PROVE job'[k].status \in TERMINAL_JOB_STATUSES \cup {"none"}
  BY <1>7 DEF ClearIdentity
<1>8. ASSUME NEW n \in Nodes, Restart(n) PROVE job'[k].status \in TERMINAL_JOB_STATUSES \cup {"none"}
  BY <1>8 DEF Restart
<1>9. ASSUME NEW n \in Nodes, ClaimNothing(n) PROVE job'[k].status \in TERMINAL_JOB_STATUSES \cup {"none"}
  <2>1. k \notin Lapsed(n)
    BY DEF Lapsed, RunningAt, TERMINAL_JOB_STATUSES
  <2>. QED
    BY <1>9, <2>1, ClaimNothingStep
<1>10. ASSUME NEW j \in Jobs, Choose(j) PROVE job'[k].status \in TERMINAL_JOB_STATUSES \cup {"none"}
  BY <1>10 DEF Choose
<1>11. ASSUME NEW j \in Jobs, Insert(j) PROVE job'[k].status \in TERMINAL_JOB_STATUSES \cup {"none"}
  <2>1. k # j
    BY <1>11 DEF Insert, Placed, TERMINAL_JOB_STATUSES
  <2>. QED
    BY <1>11, <2>1 DEF Insert, TypeOK
<1>12. ASSUME NEW j \in Jobs, InterruptInsert(j) PROVE job'[k].status \in TERMINAL_JOB_STATUSES \cup {"none"}
  <2>1. k # j
    BY <1>12 DEF InterruptInsert, Placed, TERMINAL_JOB_STATUSES
  <2>. QED
    BY <1>12, <2>1 DEF InterruptInsert, TypeOK
<1>13. ASSUME NEW j \in Jobs, Poll(j) PROVE job'[k].status \in TERMINAL_JOB_STATUSES \cup {"none"}
  BY <1>13 DEF Poll
<1>14. ASSUME NEW j \in Jobs, TimeOut(j) PROVE job'[k].status \in TERMINAL_JOB_STATUSES \cup {"none"}
  BY <1>14 DEF TimeOut
<1>15. ASSUME NEW j \in Jobs, TimeOutWrites(j) PROVE job'[k].status \in TERMINAL_JOB_STATUSES \cup {"none"}
  <2>1. job[j] \in JobRow
    BY DEF TypeOK
  <2>2. /\ Ended(job[j], "failed", TRUE).status \in TERMINAL_JOB_STATUSES
        /\ Ended(job[j], "cancelled", TRUE).status \in TERMINAL_JOB_STATUSES
    BY <2>1 DEF Ended, JobRow, TERMINAL_JOB_STATUSES
  <2>. QED
    BY <1>15, <2>2 DEF TimeOutWrites, TypeOK
<1>16. ASSUME NEW j \in Jobs, Interrupt(j) PROVE job'[k].status \in TERMINAL_JOB_STATUSES \cup {"none"}
  BY <1>16, CancelRows
<1>17. ASSUME NEW j \in Jobs, DispatcherDies(j) PROVE job'[k].status \in TERMINAL_JOB_STATUSES \cup {"none"}
  BY <1>17 DEF DispatcherDies
<1>18. ASSUME NEW j \in Jobs, Cancel(j) PROVE job'[k].status \in TERMINAL_JOB_STATUSES \cup {"none"}
  BY <1>18, CancelRows
<1>19. ASSUME NEW j \in Jobs, CancelWrites(j) PROVE job'[k].status \in TERMINAL_JOB_STATUSES \cup {"none"}
  <2>1. job[j] \in JobRow
    BY DEF TypeOK
  <2>2. /\ Ended(job[j], "failed", TRUE).status \in TERMINAL_JOB_STATUSES
        /\ Ended(job[j], "cancelled", TRUE).status \in TERMINAL_JOB_STATUSES
    BY <2>1 DEF Ended, JobRow, TERMINAL_JOB_STATUSES
  <2>. QED
    BY <1>19, <2>2 DEF CancelWrites, TypeOK
<1>20. ASSUME NEW j \in Jobs, LeaseExpires(j) PROVE job'[k].status \in TERMINAL_JOB_STATUSES \cup {"none"}
  <2>1. k # j
    BY <1>20 DEF LeaseExpires, TERMINAL_JOB_STATUSES
  <2>. QED
    BY <1>20, <2>1 DEF LeaseExpires, TypeOK
<1>21. ASSUME NEW n \in Nodes, NEW j \in Jobs, Claim(n, j) PROVE job'[k].status \in TERMINAL_JOB_STATUSES \cup {"none"}
  <2>1. k \notin Lapsed(n) /\ k # j
    BY <1>21, ClaimStep DEF Lapsed, RunningAt, TERMINAL_JOB_STATUSES
  <2>. QED
    BY <1>21, <2>1, ClaimStep
<1>22. ASSUME NEW n \in Nodes, NEW s \in Slots, Refuse(n, s) PROVE job'[k].status \in TERMINAL_JOB_STATUSES \cup {"none"}
  BY <1>22 DEF Refuse
<1>23. ASSUME NEW n \in Nodes, NEW s \in Slots, ToolReturns(n, s) PROVE job'[k].status \in TERMINAL_JOB_STATUSES \cup {"none"}
  BY <1>23 DEF ToolReturns
<1>24. ASSUME NEW n \in Nodes, NEW s \in Slots, ToolRaises(n, s) PROVE job'[k].status \in TERMINAL_JOB_STATUSES \cup {"none"}
  BY <1>24 DEF ToolRaises
<1>25. ASSUME NEW n \in Nodes, NEW s \in Slots, JobBeat(n, s) PROVE job'[k].status \in TERMINAL_JOB_STATUSES \cup {"none"}
  <2>1. CASE UNCHANGED exec
    BY <1>25, <2>1, BeatRows
  <2>2. CASE ~ UNCHANGED exec
    BY <1>25, <2>2 DEF JobBeat
  <2>. QED
    BY <2>1, <2>2
<1>26. ASSUME NEW n \in Nodes, NEW s \in Slots, MonitorEnds(n, s) PROVE job'[k].status \in TERMINAL_JOB_STATUSES \cup {"none"}
  BY <1>26 DEF MonitorEnds
<1>27. ASSUME NEW n \in Nodes, NEW s \in Slots, WriteReport(n, s) PROVE job'[k].status \in TERMINAL_JOB_STATUSES \cup {"none"}
  BY <1>27, ReportRows
<1>28. ASSUME UNCHANGED vars PROVE job'[k].status \in TERMINAL_JOB_STATUSES \cup {"none"}
  BY <1>28 DEF vars
<1>. QED
  BY <1>1, <1>2, <1>3, <1>4, <1>5, <1>6, <1>7, <1>8, <1>9, <1>10, <1>11, <1>12, <1>13,
      <1>14, <1>15, <1>16, <1>17, <1>18, <1>19, <1>20, <1>21, <1>22, <1>23, <1>24, <1>25,
      <1>26, <1>27, <1>28 DEF Next, Admin, Dispatcher, NodeProcess, Task

\* An ended job stays ended, whatever arrives late.
THEOREM EndedStays == Spec => NeverRevived
<1>1. IInv /\ [Next]_vars => [EndedStaysEnded]_vars
  BY RevivedNext DEF EndedStaysEnded
<1>. QED
  BY IInvInit, IInvNext, <1>1, PTL DEF Spec, NeverRevived

\* What the caller of a job knows.
Out == [j \in Jobs |-> IF call[j] \in Waiting THEN "sent" ELSE call[j]]

\* Every step is a step of RemoteCalls, or changes nothing it shows.
LEMMA CallsStep == IInv /\ [Next]_vars => [Calls!Next]_(Calls!vars)
<1>. SUFFICES ASSUME TypeOK, Busy, Tasked, Delivered, [Next]_vars
              PROVE  [Calls!Next]_(Calls!vars)
  BY DEF IInv
<1>0. Out \in [Jobs -> {"sent"} \cup Call]
  BY DEF Out, TypeOK
<1>1. ASSUME NEW n \in Nodes, CreateNode(n) PROVE [Calls!Next]_(Calls!vars)
  BY <1>1 DEF CreateNode, Calls!vars
<1>2. ASSUME NEW n \in Nodes, UpdateNode(n) PROVE [Calls!Next]_(Calls!vars)
  BY <1>2 DEF UpdateNode, Calls!vars
<1>3. ASSUME NEW n \in Nodes, TestIdle(n) PROVE [Calls!Next]_(Calls!vars)
  BY <1>3 DEF TestIdle, Calls!vars
<1>4. ASSUME NEW n \in Nodes, Rotate(n) PROVE [Calls!Next]_(Calls!vars)
  BY <1>4 DEF Rotate, Calls!vars
<1>5. ASSUME NEW n \in Nodes, DeleteNode(n) PROVE [Calls!Next]_(Calls!vars)
  BY <1>5 DEF DeleteNode, Calls!vars
<1>6. ASSUME NEW n \in Nodes, Enrol(n) PROVE [Calls!Next]_(Calls!vars)
  BY <1>6 DEF Enrol, Calls!vars
<1>7. ASSUME NEW n \in Nodes, ClearIdentity(n) PROVE [Calls!Next]_(Calls!vars)
  BY <1>7 DEF ClearIdentity, Calls!vars
<1>8. ASSUME NEW n \in Nodes, Restart(n) PROVE [Calls!Next]_(Calls!vars)
  BY <1>8 DEF Restart, Calls!vars
<1>9. ASSUME NEW n \in Nodes, ClaimNothing(n) PROVE [Calls!Next]_(Calls!vars)
  BY <1>9 DEF ClaimNothing, Calls!vars
<1>10. ASSUME NEW j \in Jobs, Choose(j) PROVE [Calls!Next]_(Calls!vars)
  <2>1. call[j] = "idle" /\ ran' = ran /\ call' \in [Jobs -> Call]
    BY <1>10, TypeNext DEF Choose, TypeOK
  <2>2. \E c \in {"local", "error", "chosen"} : call' = [call EXCEPT ![j] = c]
    BY <1>10 DEF Choose
  <2>3. \E o \in {"sent", "local", "error"} : Out' = [Out EXCEPT ![j] = o]
    <3>1. CASE call' = [call EXCEPT ![j] = "chosen"]
      <4>. Out' = [Out EXCEPT ![j] = "sent"]
        BY <3>1 DEF Out, Waiting, TypeOK
      <4>. QED
        OBVIOUS
    <3>2. ASSUME NEW c \in {"local", "error"}, call' = [call EXCEPT ![j] = c]
          PROVE  Out' = [Out EXCEPT ![j] = c]
      BY <3>2 DEF Out, Waiting, TypeOK
    <3>. QED
      BY <2>2, <3>1, <3>2
  <2>4. Out[j] = "idle"
    BY <2>1 DEF Out, Waiting
  <2>. QED
    BY <2>1, <2>3, <2>4 DEF Calls!Next, Calls!Send, Out
<1>11. ASSUME NEW j \in Jobs, Insert(j) PROVE [Calls!Next]_(Calls!vars)
  <2>1. CASE call' = [call EXCEPT ![j] = "waiting"]
    <3>1. Out' = Out
      BY <1>11, <2>1 DEF Insert, Out, Waiting, TypeOK
    <3>. QED
      BY <1>11, <3>1 DEF Insert, Calls!vars, Out
  <2>2. CASE call' = [call EXCEPT ![j] = "error"]
    <3>2. Out[j] = "sent" /\ ran' = ran
      BY <1>11 DEF Insert, Out, Waiting
    <3>3. Out' = [Out EXCEPT ![j] = "error"]
      BY <2>2 DEF Out, Waiting, TypeOK
    <3>. QED
      BY <3>2, <3>3 DEF Calls!Next, Calls!End, Out
  <2>. QED
    BY <1>11, <2>1, <2>2 DEF Insert
<1>12. ASSUME NEW j \in Jobs, InterruptInsert(j) PROVE [Calls!Next]_(Calls!vars)
  <2>2. Out[j] = "sent" /\ ran' = ran
    BY <1>12 DEF InterruptInsert, Out, Waiting
  <2>3. \E o \in {"error", "gone"} : Out' = [Out EXCEPT ![j] = o]
    BY <1>12, <1>0 DEF InterruptInsert, Out, Waiting, TypeOK
  <2>. QED
    BY <2>2, <2>3 DEF Calls!Next, Calls!End, Out
<1>13. ASSUME NEW j \in Jobs, Poll(j) PROVE [Calls!Next]_(Calls!vars)
  <2>1. Out[j] = "sent" /\ ran' = ran
    BY <1>13 DEF Poll, Out, Waiting
  <2>2. \E o \in {"error", "gone"} \cup (IF j \in ran THEN {"result"} ELSE {}) :
          call' = [call EXCEPT ![j] = o]
    <3>1. CASE job[j].status = "completed"
      BY <1>13, <3>1 DEF Poll, Delivered
    <3>2. CASE job[j].status = "cancelled"
      BY <1>13, <3>2 DEF Poll
    <3>3. CASE job[j].status \notin {"completed", "cancelled"}
      BY <1>13, <3>3 DEF Poll
    <3>. QED
      BY <3>1, <3>2, <3>3
  <2>3. \E o \in {"error", "gone"} \cup (IF j \in ran THEN {"result"} ELSE {}) :
          Out' = [Out EXCEPT ![j] = o]
    BY <2>2 DEF Out, Waiting, TypeOK
  <2>. QED
    BY <2>1, <2>3 DEF Calls!Next, Calls!End, Out
<1>14. ASSUME NEW j \in Jobs, TimeOut(j) PROVE [Calls!Next]_(Calls!vars)
  <2>1. CASE call' = [call EXCEPT ![j] = "expiring"]
    <3>1. Out' = Out
      BY <1>14, <2>1 DEF TimeOut, Out, Waiting, TypeOK
    <3>. QED
      BY <1>14, <3>1 DEF TimeOut, Calls!vars, Out
  <2>2. CASE call' = [call EXCEPT ![j] = "error"]
    <3>2. Out[j] = "sent" /\ ran' = ran
      BY <1>14 DEF TimeOut, Out, Waiting
    <3>3. Out' = [Out EXCEPT ![j] = "error"]
      BY <2>2 DEF Out, Waiting, TypeOK
    <3>. QED
      BY <3>2, <3>3 DEF Calls!Next, Calls!End, Out
  <2>. QED
    BY <1>14, <2>1, <2>2 DEF TimeOut
<1>15. ASSUME NEW j \in Jobs, TimeOutWrites(j) PROVE [Calls!Next]_(Calls!vars)
  <2>2. Out[j] = "sent" /\ ran' = ran
    BY <1>15 DEF TimeOutWrites, Out, Waiting
  <2>3. \E o \in {"error", "gone"} : Out' = [Out EXCEPT ![j] = o]
    BY <1>15, <1>0 DEF TimeOutWrites, Out, Waiting, TypeOK
  <2>. QED
    BY <2>2, <2>3 DEF Calls!Next, Calls!End, Out
<1>16. ASSUME NEW j \in Jobs, Interrupt(j) PROVE [Calls!Next]_(Calls!vars)
  <2>2. Out[j] = "sent" /\ ran' = ran
    BY <1>16 DEF Interrupt, Out, Waiting
  <2>3. \E o \in {"error", "gone"} : Out' = [Out EXCEPT ![j] = o]
    BY <1>16, <1>0 DEF Interrupt, Out, Waiting, TypeOK
  <2>. QED
    BY <2>2, <2>3 DEF Calls!Next, Calls!End, Out
<1>17. ASSUME NEW j \in Jobs, DispatcherDies(j) PROVE [Calls!Next]_(Calls!vars)
  <2>2. Out[j] = "sent" /\ ran' = ran
    BY <1>17 DEF DispatcherDies, Out, Waiting
  <2>3. \E o \in {"error", "gone"} : Out' = [Out EXCEPT ![j] = o]
    BY <1>17, <1>0 DEF DispatcherDies, Out, Waiting, TypeOK
  <2>. QED
    BY <2>2, <2>3 DEF Calls!Next, Calls!End, Out
<1>18. ASSUME NEW j \in Jobs, Cancel(j) PROVE [Calls!Next]_(Calls!vars)
  BY <1>18 DEF Cancel, Calls!vars
<1>19. ASSUME NEW j \in Jobs, CancelWrites(j) PROVE [Calls!Next]_(Calls!vars)
  BY <1>19 DEF CancelWrites, Calls!vars
<1>20. ASSUME NEW j \in Jobs, LeaseExpires(j) PROVE [Calls!Next]_(Calls!vars)
  BY <1>20 DEF LeaseExpires, Calls!vars
<1>21. ASSUME NEW n \in Nodes, NEW j \in Jobs, Claim(n, j) PROVE [Calls!Next]_(Calls!vars)
  BY <1>21 DEF Claim, Calls!vars
<1>22. ASSUME NEW n \in Nodes, NEW s \in Slots, Refuse(n, s) PROVE [Calls!Next]_(Calls!vars)
  BY <1>22 DEF Refuse, Calls!vars
<1>23. ASSUME NEW n \in Nodes, NEW s \in Slots, ToolReturns(n, s) PROVE [Calls!Next]_(Calls!vars)
  <2>. DEFINE j == exec[n][s].job
  <2>1. j \in Jobs /\ call[j] \notin {"idle", "local", "chosen"}
    BY <1>23 DEF ToolReturns, Busy, Tasked
  <2>2. Out[j] \notin {"idle", "local"}
    BY <2>1 DEF Out, Waiting
  <2>3. ran' = ran \cup {j} /\ Out' = Out
    BY <1>23 DEF ToolReturns, Out
  <2>. QED
    BY <2>1, <2>2, <2>3 DEF Calls!Next, Calls!Run, Out
<1>24. ASSUME NEW n \in Nodes, NEW s \in Slots, ToolRaises(n, s) PROVE [Calls!Next]_(Calls!vars)
  BY <1>24 DEF ToolRaises, Calls!vars
<1>25. ASSUME NEW n \in Nodes, NEW s \in Slots, JobBeat(n, s) PROVE [Calls!Next]_(Calls!vars)
  BY <1>25 DEF JobBeat, Calls!vars
<1>26. ASSUME NEW n \in Nodes, NEW s \in Slots, MonitorEnds(n, s) PROVE [Calls!Next]_(Calls!vars)
  BY <1>26 DEF MonitorEnds, Calls!vars
<1>27. ASSUME NEW n \in Nodes, NEW s \in Slots, WriteReport(n, s) PROVE [Calls!Next]_(Calls!vars)
  BY <1>27 DEF WriteReport, Calls!vars
<1>28. ASSUME UNCHANGED vars PROVE [Calls!Next]_(Calls!vars)
  BY <1>28 DEF vars, Calls!vars
<1>. QED
  BY <1>1, <1>2, <1>3, <1>4, <1>5, <1>6, <1>7, <1>8, <1>9, <1>10, <1>11, <1>12, <1>13,
      <1>14, <1>15, <1>16, <1>17, <1>18, <1>19, <1>20, <1>21, <1>22, <1>23, <1>24, <1>25,
      <1>26, <1>27, <1>28 DEF Next, Admin, Dispatcher, NodeProcess, Task

\* Every call ends in one way, and with a result only after its tool ran to its end.
THEOREM CallsKept == Spec => KeepsCallPromise
<1>1. Init => Calls!Init
  BY DEF Init, Calls!Init, Waiting
<1>. QED
  BY <1>1, IInvInit, IInvNext, CallsStep, PTL DEF Spec, KeepsCallPromise, Calls!Spec

-----------------------------------------------------------------------------
(* The steps of a plan (ToolCalls).  A step that gives up on an answer asks  *)
(* again while the tool may still run, so what bounds the executions is that *)
(* each is counted as a try of an attempt before the next is asked for.      *)

\* The tries of n attempts, and the executions that earlier tries may have left behind.
TriesOf(n) == n * Tries
SpentBy(row, c) ==
  IF c \in Long THEN row.attempt - 1 ELSE TriesOf(row.attempt - 1) + row.try - 1

\* No more executions than tries; a step that waits has an execution to wait for, and each
\* kind of tool is waited for in its own way.
StepSound(row, runs, c) ==
  /\ Len(runs) <= SpentBy(row, c) + IF row.pc \in {"new", "ready"} THEN 0 ELSE 1
  /\ row.pc \in {"calling", "starting", "polling", "fetching", "cancelling"} => runs # <<>>
  /\ row.pc = "calling" => c \notin Long
  /\ row.pc \in {"starting", "polling", "fetching", "cancelling"} => c \in Long

\* The semaphore of execute_plan_concurrent.
Concurrency ==
  LET now == {c \in Steps : Admitted(c)} IN IsFiniteSet(now) /\ Cardinality(now) <= Limit

StepsSound == \A c \in Steps : StepSound(step[c], started[c], c)

\* A long tool is started once an attempt, a short one once a try.
LaunchesBounded ==
  \A c \in Steps : Len(started[c]) <= IF c \in Long THEN Attempts ELSE Attempts * Tries

\* What a step of the plan finds.
LEMMA ToolTyped ==
  ASSUME ToolTypeOK, NEW c \in Steps
  PROVE  /\ step[c] \in ToolStep /\ started[c] \in Seq(ToolRun)
         /\ step[c].attempt \in 1 .. Attempts /\ step[c].try \in 1 .. Tries
         /\ Limit \in Nat \ {0} /\ Attempts \in Nat \ {0} /\ Tries \in Nat \ {0} /\ MaxTrouble \in Nat
BY ToolAssumption DEF ToolTypeOK, ToolStep

\* An attempt more is worth the tries of one attempt more.
LEMMA AttemptsAdd ==
  ASSUME NEW n \in 1 .. Attempts
  PROVE  /\ TriesOf(n - 1) \in Nat /\ TriesOf(n) \in Nat
         /\ TriesOf(n) = TriesOf(n - 1) + Tries
         /\ TriesOf(n) <= TriesOf(Attempts) /\ TriesOf(Attempts) \in Nat
<1>1. Tries \in Nat /\ Attempts \in Nat
  BY ToolAssumption
<1>2. PICK m \in Nat : n = m + 1
  <2>1. n - 1 \in Nat /\ n = (n - 1) + 1
    BY <1>1
  <2> QED BY <2>1
<1>3. m * Tries \in Nat /\ (m + 1) * Tries = m * Tries + Tries
  BY <1>1, <1>2
<1>4. n - 1 = m
  BY <1>2
<1>5. PICK d \in Nat : Attempts = n + d
  <2>1. Attempts - n \in Nat /\ Attempts = n + (Attempts - n)
    BY <1>1
  <2> QED BY <2>1
<1>6. n \in Nat /\ d * Tries \in Nat /\ (n + d) * Tries = n * Tries + d * Tries
  BY <1>1, <1>5
<1> QED BY <1>1, <1>2, <1>3, <1>4, <1>5, <1>6 DEF TriesOf

\* What a step has spent, and what the next attempt finds spent.
LEMMA SpentTyped ==
  ASSUME NEW row \in ToolStep, NEW c \in Steps
  PROVE  /\ SpentBy(row, c) \in Int /\ TriesOf(row.attempt) \in Nat /\ TriesOf(Attempts) \in Nat
         /\ TriesOf(row.attempt - 1) \in Nat
         /\ SpentBy(row, c) + 1 <= IF c \in Long THEN row.attempt ELSE TriesOf(row.attempt)
         /\ TriesOf(row.attempt) <= TriesOf(Attempts)
<1>1. row.attempt \in 1 .. Attempts /\ row.try \in 1 .. Tries /\ Attempts \in Nat /\ Tries \in Nat
  BY ToolAssumption DEF ToolStep
<1>2. /\ TriesOf(row.attempt - 1) \in Nat /\ TriesOf(row.attempt) \in Nat
      /\ TriesOf(row.attempt) = TriesOf(row.attempt - 1) + Tries
      /\ TriesOf(row.attempt) <= TriesOf(Attempts) /\ TriesOf(Attempts) \in Nat
  BY <1>1, AttemptsAdd
<1> QED BY <1>1, <1>2 DEF SpentBy

\* A caller that goes on elsewhere with the same try.
LEMMA GotoSound ==
  ASSUME ToolTypeOK, NEW c \in Steps, NEW pc, [step[c] EXCEPT !.pc = pc] \in ToolStep, Goto(c, pc)
  PROVE  \E row \in ToolStep : /\ step' = [step EXCEPT ![c] = row] /\ row.pc = pc
                               /\ SpentBy(row, c) = SpentBy(step[c], c)
<1> DEFINE row == [step[c] EXCEPT !.pc = pc]
<1>1. row.pc = pc /\ row.attempt = step[c].attempt /\ row.try = step[c].try
  BY ToolTyped DEF ToolStep
<1>2. step' = [step EXCEPT ![c] = row] /\ row \in ToolStep
  BY DEF Goto
<1> HIDE DEF row
<1> QED BY <1>1, <1>2 DEF SpentBy

\* A failed attempt of a step under way leaves it ready for the next, or failed.
LEMMA AttemptFailsSound ==
  ASSUME ToolTypeOK, NEW c \in Steps, StepSound(step[c], started[c], c), Admitted(c), AttemptFails(c)
  PROVE  \E row \in ToolStep : step' = [step EXCEPT ![c] = row] /\ StepSound(row, started[c], c)
<1>0. /\ step[c] \in ToolStep /\ step[c].attempt \in 1 .. Attempts /\ step[c].try \in 1 .. Tries
      /\ Attempts \in Nat /\ Tries \in Nat \ {0} /\ Len(started[c]) \in Nat
  BY ToolTyped
<1>1. CASE AttemptsLeft(c)
  <2> DEFINE row == [pc |-> "ready", attempt |-> step[c].attempt + 1, try |-> 1]
  <2>1. row \in ToolStep
    BY <1>0, <1>1 DEF ToolStep, AttemptsLeft
  <2>2. row.pc = "ready" /\ row.attempt - 1 = step[c].attempt /\ row.try = 1
    BY <1>0
  <2>3. step' = [step EXCEPT ![c] = row]
    BY <1>1 DEF AttemptFails
  <2> HIDE DEF row
  <2>4. SpentBy(row, c) = IF c \in Long THEN step[c].attempt ELSE TriesOf(step[c].attempt)
    BY <1>0, <2>2, SpentTyped DEF SpentBy
  <2>5. SpentBy(step[c], c) + 1 <= SpentBy(row, c) /\ SpentBy(row, c) \in Int /\ SpentBy(step[c], c) \in Int
    BY <1>0, <2>1, <2>4, SpentTyped
  <2>6. StepSound(row, started[c], c)
    BY <1>0, <2>2, <2>5 DEF StepSound
  <2> QED BY <2>1, <2>3, <2>6
<1>2. CASE ~AttemptsLeft(c)
  <2> DEFINE row == [step[c] EXCEPT !.pc = "failed"]
  <2>1. row \in ToolStep /\ row.pc = "failed" /\ row.attempt = step[c].attempt /\ row.try = step[c].try
    BY <1>0 DEF ToolStep, StepEnds
  <2>2. step' = [step EXCEPT ![c] = row]
    BY <1>2 DEF AttemptFails
  <2> HIDE DEF row
  <2>3. SpentBy(row, c) = SpentBy(step[c], c) /\ SpentBy(row, c) \in Int
    BY <1>0, <2>1, SpentTyped DEF SpentBy
  <2>4. StepSound(row, started[c], c)
    BY <1>0, <2>1, <2>3 DEF StepSound
  <2> QED BY <2>1, <2>2, <2>4
<1> QED BY <1>1, <1>2

\* So does a failed try of a short tool.
LEMMA TryFailsSound ==
  ASSUME ToolTypeOK, NEW c \in Steps \ Long, StepSound(step[c], started[c], c), Admitted(c), TryFails(c)
  PROVE  \E row \in ToolStep : step' = [step EXCEPT ![c] = row] /\ StepSound(row, started[c], c)
<1>0. /\ step[c] \in ToolStep /\ step[c].attempt \in 1 .. Attempts /\ step[c].try \in 1 .. Tries
      /\ Attempts \in Nat /\ Tries \in Nat \ {0} /\ Len(started[c]) \in Nat
  BY ToolTyped
<1>1. CASE step[c].try < Tries
  <2> DEFINE row == [step[c] EXCEPT !.pc = "ready", !.try = @ + 1]
  <2>1. /\ row \in ToolStep /\ row.pc = "ready"
        /\ row.attempt = step[c].attempt /\ row.try = step[c].try + 1
    <3>1. step[c].try + 1 \in 1 .. Tries
      BY <1>0, <1>1
    <3> QED BY <1>0, <3>1 DEF ToolStep
  <2>2. step' = [step EXCEPT ![c] = row]
    BY <1>1 DEF TryFails
  <2> HIDE DEF row
  <2>3. SpentBy(row, c) = SpentBy(step[c], c) + 1 /\ SpentBy(step[c], c) \in Int
    <3>1. TriesOf(step[c].attempt - 1) \in Nat
      BY <1>0, SpentTyped
    <3>2. SpentBy(step[c], c) = TriesOf(step[c].attempt - 1) + step[c].try - 1
      BY DEF SpentBy
    <3>3. SpentBy(row, c) = TriesOf(step[c].attempt - 1) + (step[c].try + 1) - 1
      BY <2>1 DEF SpentBy
    <3> QED BY <1>0, <3>1, <3>2, <3>3
  <2>4. StepSound(row, started[c], c)
    BY <1>0, <2>1, <2>3 DEF StepSound
  <2> QED BY <2>1, <2>2, <2>4
<1>2. CASE ~(step[c].try < Tries)
  BY <1>2, AttemptFailsSound DEF TryFails
<1> QED BY <1>1, <1>2

\* What a caller's step does to its plan step and the executions of it.
LEMMA CallerStep ==
  ASSUME ToolTypeOK, StepsSound, NEW c \in Steps, StepProgress(c)
  PROVE  \E row \in ToolStep, runs \in Seq(ToolRun) :
           /\ step' = [step EXCEPT ![c] = row] /\ started' = [started EXCEPT ![c] = runs]
           /\ StepSound(row, runs, c)
           /\ Admitted(c) \/ Cardinality({d \in Steps : Admitted(d)}) < Limit \/ row.pc \in StepEnds
<1>0. /\ step[c] \in ToolStep /\ started[c] \in Seq(ToolRun) /\ started \in [Steps -> Seq(ToolRun)]
      /\ Len(started[c]) \in Nat /\ StepSound(step[c], started[c], c)
      /\ [started EXCEPT ![c] = started[c]] = started
      /\ SpentBy(step[c], c) \in Int
  <2>1. SpentBy(step[c], c) \in Int
    BY ToolTyped, SpentTyped
  <2> QED BY <2>1, ToolTyped DEF ToolTypeOK, StepsSound
<1>1. ASSUME NEW pc \in {"ready", "calling", "starting", "polling", "fetching", "cancelling"} \cup StepEnds,
             Goto(c, pc), UNCHANGED started, pc = "ready" => step[c].pc = "new",
             pc \in {"calling", "starting", "polling", "fetching", "cancelling"} => started[c] # <<>>,
             pc = "calling" => c \notin Long, pc \in {"starting", "polling", "fetching", "cancelling"} => c \in Long
      PROVE  \E row \in ToolStep : /\ step' = [step EXCEPT ![c] = row] /\ row.pc = pc
                                   /\ StepSound(row, started[c], c)
  <2>1. [step[c] EXCEPT !.pc = pc] \in ToolStep
    BY <1>0 DEF ToolStep
  <2>2. PICK row \in ToolStep : /\ step' = [step EXCEPT ![c] = row] /\ row.pc = pc
                                /\ SpentBy(row, c) = SpentBy(step[c], c)
    BY <1>1, <2>1, GotoSound
  <2>3. StepSound(row, started[c], c)
    BY <1>0, <1>1, <2>2 DEF StepSound, StepEnds
  <2> QED BY <2>2, <2>3
<1>2. ASSUME NEW pc \in {"calling", "starting"}, Goto(c, pc), Launch(c), InPc(c, "ready"),
             pc = "calling" => c \notin Long, pc = "starting" => c \in Long
      PROVE  \E row \in ToolStep, runs \in Seq(ToolRun) :
               /\ step' = [step EXCEPT ![c] = row] /\ started' = [started EXCEPT ![c] = runs]
               /\ StepSound(row, runs, c)
  <2>1. [step[c] EXCEPT !.pc = pc] \in ToolStep
    BY <1>0 DEF ToolStep
  <2>2. PICK row \in ToolStep : /\ step' = [step EXCEPT ![c] = row] /\ row.pc = pc
                                /\ SpentBy(row, c) = SpentBy(step[c], c)
    BY <1>2, <2>1, GotoSound
  <2> DEFINE new == [status |-> "running", alive |-> TRUE]
             runs == Append(started[c], new)
  <2>3. new \in ToolRun
    BY DEF ToolRun
  <2>4. started' = [started EXCEPT ![c] = runs]
    BY <1>2 DEF Launch
  <2> HIDE DEF new
  <2>5. runs \in Seq(ToolRun) /\ Len(runs) = Len(started[c]) + 1 /\ runs # <<>>
    BY <1>0, <2>3
  <2> HIDE DEF runs
  <2>6. StepSound(row, runs, c)
    BY <1>0, <1>2, <2>2, <2>5 DEF StepSound, InPc
  <2> QED BY <2>2, <2>4, <2>5, <2>6
<1>3. ASSUME Admitted(c), AttemptFails(c) \/ (c \notin Long /\ TryFails(c)), UNCHANGED started
      PROVE  \E row \in ToolStep : step' = [step EXCEPT ![c] = row] /\ StepSound(row, started[c], c)
  BY <1>0, <1>3, AttemptFailsSound, TryFailsSound
<1>4. CASE Admit(c)
  <2>1. CASE Goto(c, "cancelled")
    <3>1. PICK row \in ToolStep : step' = [step EXCEPT ![c] = row] /\ row.pc = "cancelled" /\ StepSound(row, started[c], c)
      BY <1>1, <1>4, <2>1 DEF Admit, StepEnds
    <3> QED BY <1>0, <1>4, <3>1 DEF Admit, StepEnds
  <2>2. CASE Goto(c, "ready") /\ Cardinality({d \in Steps : Admitted(d)}) < Limit
    <3>1. PICK row \in ToolStep : step' = [step EXCEPT ![c] = row] /\ StepSound(row, started[c], c)
      BY <1>1, <1>4, <2>2 DEF Admit, InPc
    <3> QED BY <1>0, <1>4, <2>2, <3>1 DEF Admit
  <2> QED BY <1>4, <2>1, <2>2 DEF Admit
<1>5. ASSUME Admitted(c), UNCHANGED started,
             \E row \in ToolStep : step' = [step EXCEPT ![c] = row] /\ StepSound(row, started[c], c)
      PROVE  \E row \in ToolStep, runs \in Seq(ToolRun) :
               /\ step' = [step EXCEPT ![c] = row] /\ started' = [started EXCEPT ![c] = runs]
               /\ StepSound(row, runs, c)
  BY <1>0, <1>5
<1>6. CASE ~Admit(c)
  <2>1. Admitted(c)
    BY <1>6 DEF StepProgress, SendCall, CallAnswered, CallTimesOut, SendStart, StartAnswered, PollTask, PollStale,
         Fetch, HearStop, SendCancel, InPc, Admitted, StepEnds
  <2>2. CASE SendCall(c) \/ SendStart(c)
    <3>1. CASE Launch(c)
      <4>1. \E pc \in {"calling", "starting"} :
              Goto(c, pc) /\ (pc = "calling" => c \notin Long) /\ (pc = "starting" => c \in Long)
        BY <2>2, <3>1, <1>0 DEF SendCall, SendStart, Launch
      <4>2. InPc(c, "ready")
        BY <2>2 DEF SendCall, SendStart
      <4> QED BY <1>2, <2>1, <3>1, <4>1, <4>2
    <3>2. CASE ~Launch(c)
      BY <1>3, <1>5, <2>1, <2>2, <3>2 DEF SendCall, SendStart
    <3> QED BY <3>1, <3>2
  <2>3. CASE CallAnswered(c) \/ CallTimesOut(c)
    <3>1. step[c].pc = "calling" /\ c \notin Long
      BY <1>0, <2>3 DEF CallAnswered, CallTimesOut, InPc, StepSound
    <3> QED BY <1>1, <1>3, <1>5, <2>1, <2>3, <3>1 DEF CallAnswered, CallTimesOut, StepEnds
  <2>4. CASE StartAnswered(c) \/ PollTask(c) \/ PollStale(c) \/ Fetch(c) \/ HearStop(c)
    <3>1. (started[c] # <<>> /\ c \in Long) \/ (HearStop(c) /\ step[c].pc \notin {"polling", "fetching"})
      BY <1>0, <2>4 DEF StartAnswered, PollTask, PollStale, Fetch, HearStop, InPc, StepSound
    <3>2. UNCHANGED started
      BY <2>4 DEF StartAnswered, PollTask, PollStale, Fetch, HearStop
    <3>3. CASE AttemptFails(c)
      BY <1>3, <1>5, <2>1, <3>2, <3>3
    <3>4. CASE ~AttemptFails(c)
      <4>1. \E pc \in {"polling", "fetching", "ok", "cancelling", "cancelled"} :
              Goto(c, pc) /\ (pc \in {"polling", "fetching", "cancelling"} => started[c] # <<>> /\ c \in Long)
        BY <2>4, <3>1, <3>4 DEF StartAnswered, PollTask, PollStale, Fetch, HearStop
      <4> QED BY <1>1, <1>5, <2>1, <3>2, <4>1 DEF StepEnds
    <3> QED BY <3>3, <3>4
  <2>5. CASE SendCancel(c)
    <3> DEFINE n == Len(started[c])
               runs == [started[c] EXCEPT ![n].status = IF @ = "running" THEN "cancelled" ELSE @]
    <3>1. step[c].pc = "cancelling" /\ started[c] # <<>>
      BY <1>0, <2>5 DEF SendCancel, InPc, StepSound
    <3>2. UNCHANGED started \/ started' = [started EXCEPT ![c] = runs]
      BY <2>5 DEF SendCancel
    <3>3. \A k \in DOMAIN started[c] : runs[k] \in ToolRun
      <4> SUFFICES ASSUME NEW k \in DOMAIN started[c] PROVE runs[k] \in ToolRun
        OBVIOUS
      <4>1. started[c][k] \in ToolRun
        BY <1>0
      <4>2. runs[k] = IF k = n THEN [started[c][n] EXCEPT !.status = IF @ = "running" THEN "cancelled" ELSE @]
                               ELSE started[c][k]
        BY <1>0
      <4> QED BY <4>1, <4>2 DEF ToolRun
    <3>4. DOMAIN runs = DOMAIN started[c] /\ runs = [k \in DOMAIN started[c] |-> runs[k]]
      OBVIOUS
    <3> HIDE DEF runs
    <3>5. runs \in Seq(ToolRun) /\ Len(runs) = Len(started[c])
      <4>1. DOMAIN started[c] = 1 .. Len(started[c])
        BY <1>0
      <4> QED BY <1>0, <3>3, <3>4, <4>1
    <3>6. [step[c] EXCEPT !.pc = "cancelled"] \in ToolStep
      BY <1>0 DEF ToolStep, StepEnds
    <3>7. PICK row \in ToolStep : /\ step' = [step EXCEPT ![c] = row] /\ row.pc = "cancelled"
                                  /\ SpentBy(row, c) = SpentBy(step[c], c)
      BY <2>5, <3>6, GotoSound DEF SendCancel
    <3>8. StepSound(row, runs, c) /\ StepSound(row, started[c], c)
      BY <1>0, <3>1, <3>5, <3>7 DEF StepSound
    <3> QED BY <1>0, <2>1, <3>2, <3>5, <3>7, <3>8
  <2> QED BY <1>6, <2>1, <2>2, <2>3, <2>4, <2>5 DEF StepProgress
<1> QED BY <1>4, <1>6

\* What any step does to the executions and the callers.
LEMMA ToolStepKeeps ==
  ToolTypeOK /\ StepsSound /\ Concurrency /\ [ToolNext]_toolVars => ToolTypeOK' /\ StepsSound' /\ Concurrency'
<1> SUFFICES ASSUME ToolTypeOK, StepsSound, Concurrency, [ToolNext]_toolVars
             PROVE  ToolTypeOK' /\ StepsSound' /\ Concurrency'
  OBVIOUS
<1>0. /\ step \in [Steps -> ToolStep] /\ started \in [Steps -> Seq(ToolRun)] /\ stopped \in BOOLEAN
      /\ trouble \in 0 .. MaxTrouble /\ MaxTrouble \in Nat /\ Limit \in Nat
  BY ToolAssumption DEF ToolTypeOK
<1> DEFINE now == {c \in Steps : Admitted(c)}
<1>1. /\ IsFiniteSet(now) /\ Cardinality(now) \in Nat /\ Cardinality(now) <= Limit
  BY FS_CardinalityType DEF Concurrency
<1>2. stopped' \in BOOLEAN /\ trouble' \in 0 .. MaxTrouble
  <2>1. stopped' \in {stopped, TRUE}
    BY DEF ToolNext, StepProgress, Admit, SendCall, CallAnswered, CallTimesOut, SendStart, StartAnswered,
       PollTask, PollStale, Fetch, HearStop, SendCancel, ToolEnds, ServerRestarts, StopPlan, CallerDies, toolVars
  <2>2. UNCHANGED trouble \/ Trouble
    BY DEF ToolNext, StepProgress, Admit, SendCall, CallAnswered, CallTimesOut, SendStart, StartAnswered,
       PollTask, PollStale, Fetch, HearStop, SendCancel, ToolEnds, ServerRestarts, StopPlan, CallerDies,
       Silent, toolVars
  <2>3. stopped' \in BOOLEAN
    BY <1>0, <2>1
  <2>4. trouble' \in 0 .. MaxTrouble
    BY <1>0, <2>2 DEF Trouble
  <2> QED BY <2>3, <2>4
<1>3. ASSUME now' \subseteq now PROVE Concurrency'
  <2>1. IsFiniteSet(now') /\ Cardinality(now') <= Cardinality(now) /\ Cardinality(now') \in Nat
    BY <1>1, <1>3, FS_Subset, FS_CardinalityType
  <2> QED BY <1>0, <1>1, <2>1 DEF Concurrency
<1>4. ASSUME NEW c \in Steps, StepProgress(c) PROVE ToolTypeOK' /\ StepsSound' /\ Concurrency'
  <2>1. PICK row \in ToolStep, runs \in Seq(ToolRun) :
           /\ step' = [step EXCEPT ![c] = row] /\ started' = [started EXCEPT ![c] = runs]
           /\ StepSound(row, runs, c)
           /\ Admitted(c) \/ Cardinality(now) < Limit \/ row.pc \in StepEnds
    BY <1>4, CallerStep
  <2>2. ToolTypeOK'
    BY <1>0, <1>2, <2>1 DEF ToolTypeOK
  <2>3. StepsSound'
    BY <1>0, <2>1 DEF StepsSound
  <2>4. now' \subseteq now \cup {c}
    BY <1>0, <2>1 DEF Admitted
  <2>5. CASE now' \subseteq now
    BY <1>3, <2>2, <2>3, <2>5
  <2>6. CASE ~(now' \subseteq now)
    <3>1. Cardinality(now) < Limit /\ c \notin now
      BY <1>0, <2>1, <2>4, <2>6 DEF Admitted
    <3>2. IsFiniteSet(now \cup {c}) /\ Cardinality(now \cup {c}) = Cardinality(now) + 1
      BY <1>1, <3>1, FS_AddElement
    <3>3. IsFiniteSet(now') /\ Cardinality(now') <= Cardinality(now \cup {c}) /\ Cardinality(now') \in Nat
      BY <2>4, <3>2, FS_Subset, FS_CardinalityType
    <3>4. Concurrency'
      BY <1>0, <1>1, <3>1, <3>2, <3>3 DEF Concurrency
    <3> QED BY <2>2, <2>3, <3>4
  <2> QED BY <2>5, <2>6
<1>5. ASSUME UNCHANGED step, started' \in [Steps -> Seq(ToolRun)],
             \A c \in Steps : Len(started'[c]) = Len(started[c])
      PROVE  ToolTypeOK' /\ StepsSound' /\ Concurrency'
  <2>1. now' = now
    BY <1>5 DEF Admitted
  <2>2. ToolTypeOK'
    BY <1>0, <1>2, <1>5 DEF ToolTypeOK
  <2>3. \A c \in Steps : started[c] # <<>> => started'[c] # <<>>
    BY <1>0, <1>5
  <2>4. StepsSound'
    BY <1>5, <2>3 DEF StepsSound, StepSound, SpentBy
  <2> QED BY <1>3, <2>1, <2>2, <2>4
<1>6. ASSUME NEW c \in Steps, NEW k \in DOMAIN started[c], ToolEnds(c, k)
      PROVE  ToolTypeOK' /\ StepsSound' /\ Concurrency'
  <2>1. PICK status \in {"cancelled", "completed", "failed"} :
          started' = [started EXCEPT ![c] = [@ EXCEPT ![k] = [status |-> status, alive |-> FALSE]]]
    BY <1>6 DEF ToolEnds
  <2> DEFINE end == [status |-> status, alive |-> FALSE]
             runs == [started[c] EXCEPT ![k] = end]
  <2>2. end \in ToolRun
    BY DEF ToolRun
  <2>3. started' = [started EXCEPT ![c] = runs]
    BY <2>1
  <2> HIDE DEF end
  <2>4. runs \in Seq(ToolRun) /\ Len(runs) = Len(started[c])
    BY <1>0, <2>2
  <2> HIDE DEF runs
  <2> QED BY <1>0, <1>5, <1>6, <2>3, <2>4 DEF ToolEnds
<1>7. CASE ServerRestarts
  <2> DEFINE gone == [status |-> "forgotten", alive |-> FALSE]
  <2>1. gone \in ToolRun
    BY DEF ToolRun
  <2>2. started' = [c \in Steps |-> [k \in DOMAIN started[c] |-> gone]]
    BY <1>7 DEF ServerRestarts
  <2> HIDE DEF gone
  <2>3. ASSUME NEW c \in Steps
        PROVE  started'[c] \in Seq(ToolRun) /\ Len(started'[c]) = Len(started[c])
    <3>1. started'[c] = [k \in 1 .. Len(started[c]) |-> gone] /\ Len(started[c]) \in Nat
      BY <1>0, <2>2
    <3> QED BY <2>1, <3>1
  <2>4. started' \in [Steps -> Seq(ToolRun)]
    BY <2>2, <2>3
  <2> QED BY <1>5, <1>7, <2>3, <2>4 DEF ServerRestarts
<1>8. CASE StopPlan \/ UNCHANGED toolVars
  BY <1>0, <1>5, <1>8 DEF StopPlan, toolVars
<1>9. CASE CallerDies
  <2>1. ASSUME NEW c \in Steps, NEW row, row = [step[c] EXCEPT !.pc = "lost"]
        PROVE  row \in ToolStep /\ row.pc = "lost" /\ row.attempt = step[c].attempt /\ row.try = step[c].try
    BY <1>0, <2>1 DEF ToolStep, StepEnds
  <2>2. \A c \in Steps : \/ step'[c] = step[c] /\ step[c].pc \in StepEnds
                         \/ step'[c] = [step[c] EXCEPT !.pc = "lost"]
    BY <1>9 DEF CallerDies
  <2>3. step' \in [Steps -> ToolStep]
    BY <1>0, <1>9, <2>1 DEF CallerDies
  <2>4. ToolTypeOK'
    BY <1>0, <1>2, <1>9, <2>3 DEF ToolTypeOK, CallerDies
  <2>5. now' \subseteq now
    BY <2>1, <2>2 DEF Admitted, StepEnds
  <2>6. ASSUME NEW c \in Steps PROVE StepSound(step'[c], started'[c], c)
    <3>1. StepSound(step[c], started[c], c) /\ started'[c] = started[c] /\ Len(started[c]) \in Nat
      BY <1>0, <1>9 DEF StepsSound, CallerDies
    <3>2. CASE step'[c] = step[c]
      BY <3>1, <3>2
    <3>3. CASE step'[c] = [step[c] EXCEPT !.pc = "lost"]
      <4>1. step'[c].pc = "lost" /\ SpentBy(step'[c], c) = SpentBy(step[c], c)
        BY <2>1, <3>3 DEF SpentBy
      <4>2. SpentBy(step[c], c) \in Int
        BY ToolTyped, SpentTyped
      <4> QED BY <3>1, <4>1, <4>2 DEF StepSound
    <3> QED BY <2>2, <3>2, <3>3
  <2>7. StepsSound'
    BY <2>6 DEF StepsSound
  <2> QED BY <1>3, <2>4, <2>5, <2>7
<1> QED BY <1>4, <1>6, <1>7, <1>8, <1>9 DEF ToolNext

\* No step is admitted and nothing has been started.
LEMMA ToolStarts == ToolInit => ToolTypeOK /\ StepsSound /\ Concurrency
<1> SUFFICES ASSUME ToolInit PROVE ToolTypeOK /\ StepsSound /\ Concurrency
  OBVIOUS
<1> DEFINE row == [pc |-> "new", attempt |-> 1, try |-> 1]
<1>1. /\ row \in ToolStep /\ Limit \in Nat /\ Tries \in Nat /\ 0 \in 0 .. MaxTrouble
      /\ row.pc = "new" /\ row.attempt = 1 /\ row.try = 1
  BY ToolAssumption DEF ToolStep
<1>2. step = [c \in Steps |-> row] /\ started = [c \in Steps |-> <<>>] /\ stopped = FALSE /\ trouble = 0
  BY DEF ToolInit
<1> HIDE DEF row
<1>3. ToolTypeOK
  <2>1. <<>> \in Seq(ToolRun) /\ FALSE \in BOOLEAN
    OBVIOUS
  <2>2. step \in [Steps -> ToolStep] /\ started \in [Steps -> Seq(ToolRun)]
    BY <1>1, <1>2, <2>1
  <2>3. stopped \in BOOLEAN /\ trouble \in 0 .. MaxTrouble
    BY <1>1, <1>2
  <2> QED BY <2>2, <2>3 DEF ToolTypeOK
<1>4. {c \in Steps : Admitted(c)} = {}
  BY <1>1, <1>2 DEF Admitted
<1>5. Concurrency
  BY <1>1, <1>4, FS_EmptySet DEF Concurrency
<1>6. ASSUME NEW c \in Steps PROVE StepSound(row, <<>>, c)
  <2>1. TriesOf(1 - 1) = 0
    BY <1>1 DEF TriesOf
  <2>2. SpentBy(row, c) = 0
    BY <1>1, <2>1 DEF SpentBy
  <2> QED BY <1>1, <2>2 DEF StepSound
<1>7. StepsSound
  BY <1>2, <1>6 DEF StepsSound
<1> QED BY <1>3, <1>5, <1>7

\* The executions left behind are fewer than the tries allowed.
LEMMA SoundIsBounded == ToolTypeOK /\ StepsSound => LaunchesBounded
<1> SUFFICES ASSUME ToolTypeOK, StepsSound, NEW c \in Steps
             PROVE  Len(started[c]) <= IF c \in Long THEN Attempts ELSE Attempts * Tries
  BY DEF LaunchesBounded
<1>1. /\ step[c].attempt \in 1 .. Attempts /\ step[c].try \in 1 .. Tries /\ Attempts \in Nat
      /\ Len(started[c]) \in Nat
  BY ToolTyped
<1>2. /\ SpentBy(step[c], c) \in Int /\ TriesOf(Attempts) \in Nat
      /\ SpentBy(step[c], c) + 1 <= IF c \in Long THEN Attempts ELSE TriesOf(Attempts)
  <2>1. /\ SpentBy(step[c], c) \in Int /\ TriesOf(step[c].attempt) \in Nat /\ TriesOf(Attempts) \in Nat
        /\ SpentBy(step[c], c) + 1 <= IF c \in Long THEN step[c].attempt ELSE TriesOf(step[c].attempt)
        /\ TriesOf(step[c].attempt) <= TriesOf(Attempts)
    BY ToolTyped, SpentTyped
  <2> QED BY <1>1, <2>1
<1>3. Len(started[c]) <= SpentBy(step[c], c) + 1
  <2>1. StepSound(step[c], started[c], c)
    BY DEF StepsSound
  <2> QED BY <1>1, <1>2, <2>1 DEF StepSound
<1>4. Len(started[c]) <= IF c \in Long THEN Attempts ELSE TriesOf(Attempts)
  BY <1>1, <1>2, <1>3
<1> QED BY <1>4 DEF TriesOf

\* Retries and time-outs of a plan: never more than max_concurrent steps under way, and
\* never more executions of a tool than the attempts and tries allowed, whatever is lost,
\* repeated, forgotten or stopped.
THEOREM PlansBounded == ToolSpec => [](ToolTypeOK /\ Concurrency /\ LaunchesBounded)
BY ToolStarts, ToolStepKeeps, SoundIsBounded, PTL DEF ToolSpec

-----------------------------------------------------------------------------
(* Both ways of a call in one run (MCRemoteNodes).                           *)

\* The run starts each part as its own specification does, and each of its steps is one of
\* the part it follows.
LEMMA RunIsOfParts == AllSpec => Spec /\ ToolInit /\ [][ToolNext]_toolVars
<1>1. AllInit => Init /\ ToolInit
  BY DEF AllInit
<1>2. [AllNext]_allVars => [Next]_vars /\ [ToolNext]_toolVars
  BY DEF AllNext, allVars
<1> QED BY <1>1, <1>2, PTL DEF AllSpec, Spec

\* Whichever way calls go, rows, calls and processes are ones that the tables and services
\* can hold.
THEOREM WaysTypeCorrect == AllSpec => []RolesTypeOK
<1>1. TypeOK /\ ToolTypeOK => RolesTypeOK
  BY DEF RolesTypeOK
<1> QED BY <1>1, RunIsOfParts, RemoteTypeCorrect, ToolStarts, ToolStepKeeps, PTL

\* What is proved of the nodes, and of a plan's steps, holds of the run of both.
THEOREM WaysKeepTheirPromises ==
  AllSpec => [](OneMonitoredTask /\ CapacityRespected /\ Concurrency /\ LaunchesBounded)
BY RunIsOfParts, OneMonitor, CapacityHolds, ToolStarts, ToolStepKeeps, SoundIsBounded, PTL
=============================================================================
