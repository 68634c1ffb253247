----------------------------- MODULE RemoteNodes -----------------------------
(***************************************************************************)
(* Scan nodes in other networks and the jobs they execute for the control  *)
(* plane.  A dispatcher inside a worker or the API chooses a node, inserts *)
(* a row of remote_executions and polls it (services/scan_node_service.py);*)
(* the node process enrols, claims its jobs over HTTPS under a lease,      *)
(* renews it and reports (remote_node_worker.py); the API keeps the rows   *)
(* (api/scan_nodes.py).                                                    *)
(*                                                                         *)
(* A claim, a heartbeat and a poll are one step.  Whoever ends a job reads *)
(* its row in one step and writes it in a later one, as the code does      *)
(* without a lock.  A request arrives when it is sent: the time it takes   *)
(* is time the tool takes.                                                 *)
(***************************************************************************)
EXTENDS Integers, FiniteSets

CONSTANTS
  Nodes,           \* rows of scan_nodes that may be created, one process each
  Rank,            \* the order of the routes: project before network, then priority
  Jobs,            \* calls of dispatch_remote_execution, and their rows
  Cancellable,     \* the calls that users or time-outs end (a bound; all of Jobs in the code)
  Slots,           \* asyncio tasks of execute_job a node may have at a time
  MaxConcurrency,  \* the largest scan_nodes.max_concurrency
  MaxEvents        \* crashes, lost messages, dead monitors and changes of nodes in a behaviour

ASSUME RemoteAssumption ==
  /\ Rank \in [Nodes -> Nat]
  /\ \A m, n \in Nodes : Rank[m] = Rank[n] => m = n
  /\ IsFiniteSet(Jobs) /\ Cancellable \subseteq Jobs
  /\ MaxConcurrency \in Nat \ {0}
  /\ MaxEvents \in Nat
  /\ "none" \notin Nodes \cup Jobs \cup Slots

\* matches: the node covers the project or network, and the capability, of the
\* calls.  token, offered: a node token and an unused enrolment token are stored.
NodeRow == [state : {"absent", "present", "deleted"}, enabled : BOOLEAN, matches : BOOLEAN,
            token : BOOLEAN, offered : BOOLEAN, max : 1 .. MaxConcurrency]
ActiveStatus == {"queued", "running"}
TERMINAL_JOB_STATUSES == {"completed", "failed", "cancelled"}
\* "none": there is no row.  cancel: control_state is cancel_requested.
\* expired: the lease of a running job has run out.  born: the order of created_at.
JobRow == [status : {"none"} \cup ActiveStatus \cup TERMINAL_JOB_STATUSES, cancel : BOOLEAN,
           expired : BOOLEAN, born : Nat]

\* identity: the token file of the node.  running: the keys of its dictionary.
Process == [identity : {"none", "current", "revoked"}, running : SUBSET Jobs]
\* phase: the tool works, or the handler of its report has read an active row and
\* will write this verdict.  alive: the task is there to hear the answer.
Execution == [job : Jobs \cup {"none"}, phase : {"free", "working"} \cup TERMINAL_JOB_STATUSES,
              monitored : BOOLEAN, alive : BOOLEAN]

VARIABLES
  node,     \* [Nodes -> NodeRow]
  job,      \* [Jobs -> JobRow]
  call,     \* [Jobs -> Call], the dispatcher of a job
  target,   \* [Jobs -> Nodes \cup {"none"}], the node it chose
  proc,     \* [Nodes -> Process]
  exec,     \* [Nodes -> [Slots -> Execution]]
  cancel,   \* SUBSET Jobs, cancellations that have read a queued row and will end it
  idle,     \* [Nodes -> {"none", "rotate", "delete"}], a test for active jobs passed
  ran,      \* SUBSET Jobs, jobs whose tool ran to its end (history)
  events    \* 0 .. MaxEvents

\* "expiring": the dispatcher has read an active row and will fail it.
Waiting == {"chosen", "waiting", "expiring"}
Call == {"idle", "local"} \cup Waiting \cup {"result", "error", "gone"}

vars == <<node, job, call, target, proc, exec, cancel, idle, ran, events>>

NoNode == [state |-> "absent", enabled |-> FALSE, matches |-> FALSE,
           token |-> FALSE, offered |-> FALSE, max |-> 1]
NoRow == [status |-> "none", cancel |-> FALSE, expired |-> FALSE, born |-> 0]
NoTask == [job |-> "none", phase |-> "free", monitored |-> FALSE, alive |-> FALSE]

Init ==
  /\ node = [n \in Nodes |-> NoNode]
  /\ job = [j \in Jobs |-> NoRow]
  /\ call = [j \in Jobs |-> "idle"]
  /\ target = [j \in Jobs |-> "none"]
  /\ proc = [n \in Nodes |-> [identity |-> "none", running |-> {}]]
  /\ exec = [n \in Nodes |-> [s \in Slots |-> NoTask]]
  /\ cancel = {}
  /\ idle = [n \in Nodes |-> "none"]
  /\ ran = {}
  /\ events = 0

There(j) == job[j].status # "none"
\* The row with its final status; a lease no longer matters.
Ended(row, status, asked) ==
  [row EXCEPT !.status = status, !.cancel = @ \/ asked, !.expired = FALSE]
Active(j) == job[j].status \in ActiveStatus
Terminal(j) == job[j].status \in TERMINAL_JOB_STATUSES
JobsAt(n) == {j \in Jobs : target[j] = n}
RunningAt(n) == {j \in JobsAt(n) : job[j].status = "running"}
Present(n) == node[n].state = "present"

\* _runtime_node: the token of the process opens the API.
Authentic(n) ==
  Present(n) /\ node[n].enabled /\ node[n].token /\ proc[n].identity = "current"
\* A crash, a lost message, a dead monitor or a change of a node.
Event == events < MaxEvents /\ events' = events + 1

\* An execution whose monitor renews the lease: heartbeats are more frequent
\* (REMOTE_NODE_HEARTBEAT_SECONDS) than leases run out (REMOTE_JOB_LEASE_SECONDS).
Renews(e, j) == e.job = j /\ e.phase = "working" /\ e.monitored

-----------------------------------------------------------------------------
(* Administration of the nodes.                                             *)

CreateNode(n) ==
  /\ node[n].state = "absent"
  /\ \E m \in BOOLEAN, c \in 1 .. MaxConcurrency :
       node' = [node EXCEPT ![n] = [NoNode EXCEPT !.state = "present", !.enabled = TRUE,
                                      !.matches = m, !.offered = TRUE, !.max = c]]
  /\ UNCHANGED <<job, call, target, proc, exec, cancel, idle, ran, events>>

\* update_node: the fields that routes and authentication depend on.
UpdateNode(n) ==
  /\ Present(n)
  /\ Event
  /\ \E e, m \in BOOLEAN : node' = [node EXCEPT ![n] = [@ EXCEPT !.enabled = e, !.matches = m]]
  /\ UNCHANGED <<job, call, target, proc, exec, cancel, idle, ran>>

\* rotate_enrollment and delete_node look for active jobs first (node_active_jobs).
TestIdle(n) ==
  /\ Present(n) /\ idle[n] = "none"
  /\ \A j \in JobsAt(n) : ~Active(j)
  /\ Event
  /\ \E what \in {"rotate", "delete"} : idle' = [idle EXCEPT ![n] = what]
  /\ UNCHANGED <<node, job, call, target, proc, exec, cancel, ran>>

Rotate(n) ==
  /\ idle[n] = "rotate"
  /\ node' = [node EXCEPT ![n] = [@ EXCEPT !.offered = TRUE, !.token = FALSE]]
  /\ proc' = [proc EXCEPT ![n].identity = IF @ = "current" THEN "revoked" ELSE @]
  /\ idle' = [idle EXCEPT ![n] = "none"]
  /\ UNCHANGED <<job, call, target, exec, cancel, ran, events>>

\* The rows of its jobs go with the node.
DeleteNode(n) ==
  /\ idle[n] = "delete"
  /\ node' = [node EXCEPT ![n] = [NoNode EXCEPT !.state = "deleted"]]
  /\ job' = [j \in Jobs |-> IF target[j] = n THEN NoRow ELSE job[j]]
  /\ idle' = [idle EXCEPT ![n] = "none"]
  /\ UNCHANGED <<call, target, proc, exec, cancel, ran, events>>

-----------------------------------------------------------------------------
(* The dispatcher.                                                          *)

Matching == {n \in Nodes : Present(n) /\ node[n].enabled /\ node[n].matches}

\* select_scan_node: the first online node in the order of the routes; with
\* routes but none online the call fails and does not fall back to local tools.
\* An enrolled node was or was not seen within REMOTE_NODE_OFFLINE_SECONDS.
Choose(j) ==
  /\ call[j] = "idle"
  /\ IF Matching = {}
     THEN call' = [call EXCEPT ![j] = "local"] /\ UNCHANGED target
     ELSE \E online \in SUBSET {n \in Matching : node[n].token} :
            \/ online = {} /\ call' = [call EXCEPT ![j] = "error"] /\ UNCHANGED target
            \/ \E n \in online :
                 /\ \A m \in online : Rank[n] <= Rank[m]
                 /\ call' = [call EXCEPT ![j] = "chosen"]
                 /\ target' = [target EXCEPT ![j] = n]
  /\ UNCHANGED <<node, job, proc, exec, cancel, idle, ran, events>>

NewRow == [status |-> "queued", cancel |-> FALSE, expired |-> FALSE,
           born |-> 1 + Cardinality({k \in Jobs : call[k] \notin {"idle", "chosen"}})]

\* The insert fails on its foreign key when the node is gone.
Insert(j) ==
  /\ call[j] = "chosen"
  /\ IF Present(target[j])
     THEN job' = [job EXCEPT ![j] = NewRow] /\ call' = [call EXCEPT ![j] = "waiting"]
     ELSE call' = [call EXCEPT ![j] = "error"] /\ UNCHANGED job
  /\ UNCHANGED <<node, target, proc, exec, cancel, idle, ran, events>>

\* It is cancelled while it inserts the row, outside the try block: the row may
\* be committed, and nobody asks to cancel it.
InterruptInsert(j) ==
  /\ j \in Cancellable /\ call[j] = "chosen"
  /\ call' = [call EXCEPT ![j] = "gone"]
  /\ \/ Present(target[j]) /\ job' = [job EXCEPT ![j] = NewRow]
     \/ UNCHANGED job
  /\ UNCHANGED <<node, target, proc, exec, cancel, idle, ran, events>>

MutantPoll(j) ==
  /\ call[j] = "waiting" /\ ~Active(j)
  /\ call' = [call EXCEPT ![j] = CASE job[j].status \in {"completed", "failed"} -> "result"
                                   [] job[j].status = "cancelled" -> "gone"
                                   [] OTHER -> "error"]
  /\ UNCHANGED <<node, job, target, proc, exec, cancel, idle, ran, events>>
\* The poll finds the row ended or deleted.
Poll(j) ==
  /\ call[j] = "waiting" /\ ~Active(j)
  /\ call' = [call EXCEPT ![j] = CASE job[j].status = "completed" -> "result"
                                   [] job[j].status = "cancelled" -> "gone"
                                   [] OTHER -> "error"]
  /\ UNCHANGED <<node, job, target, proc, exec, cancel, idle, ran, events>>

\* REMOTE_JOB_TIMEOUT_SECONDS have passed: the row of an active job will be
\* failed, and one that has ended meanwhile is not looked at again.
TimeOut(j) ==
  /\ j \in Cancellable /\ call[j] = "waiting"
  /\ call' = [call EXCEPT ![j] = IF Active(j) THEN "expiring" ELSE "error"]
  /\ UNCHANGED <<node, job, target, proc, exec, cancel, idle, ran, events>>

TimeOutWrites(j) ==
  /\ call[j] = "expiring"
  /\ call' = [call EXCEPT ![j] = "error"]
  /\ job' = IF There(j) THEN [job EXCEPT ![j] = Ended(@, "failed", TRUE)] ELSE job
  /\ UNCHANGED <<node, target, proc, exec, cancel, idle, ran, events>>

\* The task that waits is cancelled, while it polls or while it times out: it asks
\* to cancel an active job and does not end it.
Interrupt(j) ==
  /\ j \in Cancellable /\ call[j] \in {"waiting", "expiring"}
  /\ call' = [call EXCEPT ![j] = "gone"]
  /\ job' = IF Active(j) THEN [job EXCEPT ![j].cancel = TRUE] ELSE job
  /\ UNCHANGED <<node, target, proc, exec, cancel, idle, ran, events>>

\* The process of the dispatcher dies.
DispatcherDies(j) ==
  /\ j \in Cancellable /\ call[j] \in Waiting /\ Event
  /\ call' = [call EXCEPT ![j] = "gone"]
  /\ UNCHANGED <<node, job, target, proc, exec, cancel, idle, ran>>

\* cancel_node_job: a running job is asked to stop, and a queued one is ended,
\* also when a node claims it between the read and the write.
Cancel(j) ==
  /\ j \in Cancellable
  /\ \/ /\ job[j].status = "running" /\ ~job[j].cancel
        /\ job' = [job EXCEPT ![j].cancel = TRUE]
        /\ UNCHANGED cancel
     \/ /\ job[j].status = "queued" /\ j \notin cancel
        /\ cancel' = cancel \cup {j}
        /\ UNCHANGED job
  /\ UNCHANGED <<node, call, target, proc, exec, idle, ran, events>>

CancelWrites(j) ==
  /\ j \in cancel
  /\ job' = IF There(j) THEN [job EXCEPT ![j] = Ended(@, "cancelled", TRUE)] ELSE job
  /\ cancel' = cancel \ {j}
  /\ UNCHANGED <<node, call, target, proc, exec, idle, ran, events>>

-----------------------------------------------------------------------------
(* The node process.                                                        *)

\* The first start spends the enrolment token; when the reply is lost the token
\* is gone and the node has no identity.
Enrol(n) ==
  /\ proc[n].identity = "none"
  /\ Present(n) /\ node[n].enabled /\ node[n].offered
  /\ node' = [node EXCEPT ![n] = [@ EXCEPT !.offered = FALSE, !.token = TRUE]]
  /\ \/ proc' = [proc EXCEPT ![n].identity = "current"] /\ UNCHANGED events
     \/ Event /\ UNCHANGED proc
  /\ UNCHANGED <<job, call, target, exec, cancel, idle, ran>>

\* The operator empties the identity volume of a node whose token is refused, as
\* the error of the node demands.
ClearIdentity(n) ==
  /\ proc[n].identity = "revoked"
  /\ proc' = [proc EXCEPT ![n] = [identity |-> "none", running |-> {}]]
  /\ exec' = [exec EXCEPT ![n] = [s \in Slots |-> NoTask]]
  /\ UNCHANGED <<node, job, call, target, cancel, idle, ran, events>>

\* The tasks of a dead process: the control plane still handles what it received.
Orphaned(tasks) ==
  [s \in Slots |-> IF tasks[s].phase \in TERMINAL_JOB_STATUSES
                   THEN [tasks[s] EXCEPT !.alive = FALSE] ELSE NoTask]

\* The process dies and starts again, after a crash or because of HTTP 401.
Restart(n) ==
  /\ exec[n] # Orphaned(exec[n])
  /\ IF Authentic(n) THEN Event ELSE UNCHANGED events
  /\ proc' = [proc EXCEPT ![n].running = {}]
  /\ exec' = [exec EXCEPT ![n] = Orphaned(exec[n])]
  /\ UNCHANGED <<node, job, call, target, cancel, idle, ran>>

LeaseExpires(j) ==
  /\ job[j].status = "running" /\ ~job[j].expired
  /\ \A n \in Nodes, s \in Slots : ~Renews(exec[n][s], j)
  /\ job' = [job EXCEPT ![j].expired = TRUE]
  /\ UNCHANGED <<node, call, target, proc, exec, cancel, idle, ran, events>>

MutantLapsed(n) == {j \in RunningAt(n) : ~job[j].cancel}
\* The running jobs that a claim puts back into the queue.
Lapsed(n) == {j \in RunningAt(n) : job[j].expired /\ ~job[j].cancel}

MutantClaimable(n) ==
  {j \in JobsAt(n) : job[j].status \in {"queued", "failed"} /\ ~job[j].cancel} \cup Lapsed(n)
Claimable(n) == {j \in JobsAt(n) : job[j].status = "queued" /\ ~job[j].cancel} \cup Lapsed(n)
Oldest(J) == {j \in J : \A k \in J : job[j].born <= job[k].born}
MutantRoom(n) == Cardinality(RunningAt(n) \ Lapsed(n)) <= node[n].max
Room(n) == Cardinality(RunningAt(n) \ Lapsed(n)) < node[n].max
MutantRequeued(n) ==
  [j \in Jobs |-> IF j \in Lapsed(n) THEN [job[j] EXCEPT !.status = "expired"] ELSE job[j]]
Requeued(n) ==
  [j \in Jobs |-> IF j \in Lapsed(n)
                  THEN [job[j] EXCEPT !.status = "queued", !.expired = FALSE] ELSE job[j]]

\* The main loop asks for work while its dictionary has room.
Polls(n) == Authentic(n) /\ Cardinality(proc[n].running) < node[n].max

\* claim_job finds nothing or has no room.
ClaimNothing(n) ==
  /\ Polls(n)
  /\ Claimable(n) = {} \/ ~Room(n)
  /\ job' = Requeued(n)
  /\ UNCHANGED <<node, call, target, proc, exec, cancel, idle, ran, events>>

\* claim_job hands out job j, and the node starts a task for it unless the reply is
\* lost.
Claim(n, j) ==
  /\ Polls(n)
  /\ Room(n) /\ j \in Oldest(Claimable(n))
  /\ job' = [Requeued(n) EXCEPT ![j] = [@ EXCEPT !.status = "running", !.expired = FALSE]]
  /\ \/ \E s \in Slots :
          /\ exec[n][s] = NoTask
          /\ proc' = [proc EXCEPT ![n].running = @ \cup {j}]
          /\ exec' = [exec EXCEPT ![n][s] = [job |-> j, phase |-> "working",
                                             monitored |-> TRUE, alive |-> TRUE]]
          /\ UNCHANGED events
     \/ Event /\ UNCHANGED <<proc, exec>>
  /\ UNCHANGED <<node, call, target, cancel, idle, ran>>

\* The task after it posted a report: complete_job and fail_job have read an active
\* row, or the request found an ended one, or was refused for a bad token or a
\* deleted row.  A refused completion is posted again as a failure and refused too.
Posted(n, s, op) ==
  LET j == exec[n][s].job
  IN  IF Authentic(n) /\ Active(j)
      THEN [exec[n][s] EXCEPT !.phase = IF job[j].cancel THEN "cancelled" ELSE op,
                              !.monitored = FALSE]
      ELSE NoTask

\* The task of slot s becomes e; the callback of an ended task removes the entry
\* of its job from the dictionary, whichever task the entry is for.
Becomes(n, s, e) ==
  /\ exec' = [exec EXCEPT ![n][s] = e]
  /\ proc' = IF e = NoTask /\ exec[n][s].alive
             THEN [proc EXCEPT ![n].running = @ \ {exec[n][s].job}] ELSE proc

\* The task posts report op.  A completion that is lost is posted again as a failure.
Posts(n, s, op) ==
  \/ Becomes(n, s, Posted(n, s, op)) /\ UNCHANGED events
  \/ Becomes(n, s, IF op = "completed" THEN Posted(n, s, "failed") ELSE NoTask) /\ Event

\* job_allowed fails: the scope of the node was changed after the job was sent.
Refuse(n, s) ==
  /\ exec[n][s].phase = "working" /\ ~node[n].matches
  /\ Posts(n, s, "failed")
  /\ UNCHANGED <<node, job, call, target, cancel, idle, ran>>

\* The tool returns a result or raises.
ToolReturns(n, s) ==
  /\ exec[n][s].phase = "working"
  /\ Posts(n, s, "completed")
  /\ ran' = ran \cup {exec[n][s].job}
  /\ UNCHANGED <<node, job, call, target, cancel, idle>>

ToolRaises(n, s) ==
  /\ exec[n][s].phase = "working"
  /\ Posts(n, s, "failed")
  /\ UNCHANGED <<node, job, call, target, cancel, idle, ran>>

\* monitor_job: the lease is renewed, and a job to be cancelled is stopped, which
\* posts a failure.
JobBeat(n, s) ==
  LET e == exec[n][s]
  IN  /\ e.phase = "working" /\ e.monitored
      /\ Authentic(n) /\ There(e.job)
      /\ \/ /\ job[e.job].cancel
            /\ Posts(n, s, "failed")
            /\ UNCHANGED job
         \/ /\ ~job[e.job].cancel
            /\ job' = [job EXCEPT ![e.job].expired = FALSE]
            /\ UNCHANGED <<exec, proc, events>>
      /\ UNCHANGED <<node, call, target, cancel, idle, ran>>

\* Any HTTP error ends the monitor, and the tool works on without it.
MonitorEnds(n, s) ==
  LET e == exec[n][s]
  IN  /\ e.phase = "working" /\ e.monitored
      /\ IF Authentic(n) /\ There(e.job) THEN Event ELSE UNCHANGED events
      /\ exec' = [exec EXCEPT ![n][s].monitored = FALSE]
      /\ UNCHANGED <<node, job, call, target, proc, cancel, idle, ran>>

\* The handler of a report writes its verdict; the update of a deleted row fails.
\* When the answer to a completion is lost the task posts a failure, which finds
\* the job ended.
WriteReport(n, s) ==
  LET e == exec[n][s]
  IN  /\ e.phase \in TERMINAL_JOB_STATUSES
      /\ job' = IF There(e.job) THEN [job EXCEPT ![e.job] = Ended(@, e.phase, FALSE)] ELSE job
      /\ Becomes(n, s, NoTask)
      /\ UNCHANGED <<node, call, target, cancel, idle, ran, events>>

-----------------------------------------------------------------------------
Admin(n) == CreateNode(n) \/ UpdateNode(n) \/ TestIdle(n) \/ Rotate(n) \/ DeleteNode(n)
Dispatcher(j) ==
  \/ Choose(j) \/ Insert(j) \/ InterruptInsert(j) \/ Poll(j) \/ TimeOut(j) \/ TimeOutWrites(j)
  \/ Interrupt(j) \/ DispatcherDies(j) \/ Cancel(j) \/ CancelWrites(j) \/ LeaseExpires(j)
Task(n, s) ==
  \/ Refuse(n, s) \/ ToolReturns(n, s) \/ ToolRaises(n, s)
  \/ JobBeat(n, s) \/ MonitorEnds(n, s) \/ WriteReport(n, s)
NodeProcess(n) ==
  \/ Enrol(n) \/ ClearIdentity(n) \/ Restart(n) \/ ClaimNothing(n)
  \/ \E j \in Jobs : Claim(n, j)
  \/ \E s \in Slots : Task(n, s)

Next ==
  \/ \E n \in Nodes : Admin(n) \/ NodeProcess(n)
  \/ \E j \in Jobs : Dispatcher(j)

Spec == Init /\ [][Next]_vars

\* What makes progress: leases run out, tools end, handlers write, the main loop of
\* a node claims.  Events are bounded; nothing is assumed of users, administrators
\* and dispatchers.
Fairness ==
  /\ \A j \in Jobs : WF_vars(LeaseExpires(j))
  /\ \A n \in Nodes :
       /\ WF_vars(\E j \in Jobs : Claim(n, j))
       /\ \A s \in Slots : WF_vars(ToolReturns(n, s) \/ ToolRaises(n, s) \/ WriteReport(n, s))

LiveSpec == Spec /\ Fairness

-----------------------------------------------------------------------------
TypeOK ==
  /\ node \in [Nodes -> NodeRow]
  /\ job \in [Jobs -> JobRow]
  /\ call \in [Jobs -> Call]
  /\ target \in [Jobs -> Nodes \cup {"none"}]
  /\ proc \in [Nodes -> Process]
  /\ exec \in [Nodes -> [Slots -> Execution]]
  /\ cancel \subseteq Jobs
  /\ idle \in [Nodes -> {"none", "rotate", "delete"}]
  /\ ran \subseteq Jobs
  /\ events \in 0 .. MaxEvents

\* An ended job is never handed out again: no late request, expired lease or second
\* task brings its row back to the queue (claim_job, complete_job, fail_job).
EndedStaysEnded ==
  \A j \in Jobs : Terminal(j) => job'[j].status \in TERMINAL_JOB_STATUSES \cup {"none"}
NeverRevived == [][EndedStaysEnded]_vars

\* The control plane never counts more jobs running on a node than the node may
\* run, whatever was requeued, timed out or cancelled meanwhile (claim_job).
CapacityRespected ==
  \A n \in Nodes : Present(n) => Cardinality(RunningAt(n)) <= node[n].max

\* Two tasks work on one job only if the first has lost its monitor: a lease that
\* is renewed is never handed out again (claim_job, monitor_job).
OneMonitoredTask ==
  \A j \in Jobs : \A m, n \in Nodes : \A s, t \in Slots :
    Renews(exec[m][s], j) /\ Renews(exec[n][t], j) => m = n /\ s = t

\* Every call ends in one way, and with a result only after its tool ran.
Calls ==
  INSTANCE RemoteCalls WITH
    outcome <- [j \in Jobs |-> IF call[j] \in Waiting THEN "sent" ELSE call[j]]
KeepsCallPromise == Calls!Spec

\* Jobs that were asked to stop and are running on paper only: no task will report
\* them, and a claim does not put them back into the queue.
Leaked(n) ==
  {j \in RunningAt(n) : job[j].cancel /\ \A s \in Slots : exec[n][s].job # j}
Serving(n) == Authentic(n) /\ Cardinality(Leaked(n)) < node[n].max

\* A job that nobody cancels ends, through crashes, lost replies and dead monitors,
\* as long as its node may connect and leaked jobs leave it room.
JobsEnd ==
  \A j \in Jobs :
    Active(j) /\ ~job[j].cancel ~> ~Active(j) \/ job[j].cancel \/ ~Serving(target[j])
=============================================================================
