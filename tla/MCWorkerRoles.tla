---------------------------- MODULE MCWorkerRoles ----------------------------
(* Three roles of worker.py, and the findings their scans write, in one run.  The *)
(* roles have no row in common, so a behaviour of all of them is one of each,     *)
(* interleaved: the run follows one at a time.  Three come in several instances,  *)
(* small in one part and larger in another: document (one process, two runs) and  *)
(* documents (two processes, one run); schedules (no summary) and archives (one   *)
(* schedule); retests (one combined capability), checks (the same, outside of an  *)
(* assessment) and overlaps (one tool that looks everywhere, two executions).     *)
EXTENDS DocumentQueue, ScanTasks, Maintenance, Findings
CONSTANTS w1, w2, t1, s1, c1, c2, a1, m1, web, gobuster, ffuf, x1, x2
VARIABLE role
allVars == <<role, docVars, scanVars, maintVars, findVars>>

Maintaining == role \in {"schedules", "archives"}
Finding == role \in {"retests", "checks", "overlaps"}

AllInit ==
  /\ role \in {"document", "documents", "interactive", "schedules", "archives",
               "retests", "checks", "overlaps"}
  /\ DocInit /\ ScanInit /\ MaintInit /\ FindInit
  /\ role = "overlaps" => ~present[gobuster]
  /\ ~Finding => \A u \in Tools : ~present[u]

Alone == \A w \in DocWorkers \ {w1} : dworker'[w] = dworker[w]
SingleRun == \A r \in DocRuns \ {1} : drun'[r] = drun[r]
KindsOf(x, kinds) == exec'[x].stage = "idle" \/ exec'[x].kind \in kinds
OneByOne == exec'[x2].stage = "idle" /\ begins' <= 2 /\ exec'[x1].cap = Top
OneTool ==
  /\ present'[gobuster] = present[gobuster]
  /\ \A x \in Executions : exec'[x].stage = "idle" \/ (exec'[x].cap = ffuf /\ exec'[x].wide)

AllNext ==
  /\ UNCHANGED role
  /\ \/ role = "document" /\ DocNext /\ Alone /\ UNCHANGED <<scanVars, maintVars, findVars>>
     \/ role = "documents" /\ DocNext /\ SingleRun /\ UNCHANGED <<scanVars, maintVars, findVars>>
     \/ role = "interactive" /\ ScanNext /\ UNCHANGED <<docVars, maintVars, findVars>>
     \/ role = "schedules" /\ MaintNext /\ job'[m1] = job[m1] /\ UNCHANGED <<docVars, scanVars, findVars>>
     \/ role = "archives" /\ MaintNext /\ schedule'[c2] = schedule[c2] /\ UNCHANGED <<docVars, scanVars, findVars>>
     \/ role = "retests" /\ FindNext /\ OneByOne /\ KindsOf(x1, {"scan", "retest"}) /\ UNCHANGED <<docVars, scanVars, maintVars>>
     \/ role = "checks" /\ FindNext /\ OneByOne /\ KindsOf(x1, {"independent"}) /\ promoted' = {} /\ UNCHANGED <<docVars, scanVars, maintVars>>
     \/ role = "overlaps" /\ FindNext /\ OneTool /\ UNCHANGED <<docVars, scanVars, maintVars>>

\* The worker processes are scheduled and poll for ever; a tool ends, which the code
\* leaves to the tool (a continuous one has no time-out); time passes.
AllFair ==
  /\ WF_docVars(role = "document" /\ DocProgress(w1))
  /\ \A r \in DocRuns : WF_docVars(role = "document" /\ LeaseRunsOut(r))
  /\ WF_scanVars(role = "interactive" /\ PollProgress)
  /\ \A s \in Scans :
       /\ WF_scanVars(role = "interactive" /\ ScanLeaseExpires(s))
       /\ \A k \in TaskIds : WF_scanVars(role = "interactive" /\ TaskProgress(s, k))
  /\ WF_maintVars(Maintaining /\ PollStep)
  /\ \A c \in Schedules : WF_maintVars(Maintaining /\ BecomesDue(c))
  /\ \A j \in Jobs : WF_maintVars(Maintaining /\ JobLeaseExpires(j))
AllSpec == AllInit /\ [][AllNext]_allVars /\ AllFair

\* A document run that nobody stops ends, through crashes, stalls, time-outs and failures
\* of other runs, when one document worker runs (docker-compose.yml).
OneWorkerRunsEnd ==
  \A r \in DocRuns : role = "document" /\ Unasked(r) ~> ~Unasked(r)

\* Every row, lease and program counter is one that the tables and processes can hold.
RolesTypeOK == DocTypeOK /\ ScanTypeOK /\ MaintTypeOK /\ FindTypeOK
=============================================================================
