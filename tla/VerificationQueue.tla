-------------------------- MODULE VerificationQueue --------------------------
(***************************************************************************)
(* The queue of verification runs, the retests of findings.  Users open,   *)
(* stop and resume runs and reopen findings (api/verification.py,          *)
(* services/verification_service.py); verification workers poll the table, *)
(* claim runs under a lease and execute them one after the other           *)
(* (services/verification_queue.py).  A technical run scans one group of   *)
(* items after another, a group being the findings of one target and       *)
(* capability; a document run waits for the analysis of its documents.     *)
(*                                                                         *)
(* A worker takes one step per database transaction.  What a run does      *)
(* between two commits without waiting for a tool is one step.             *)
(***************************************************************************)
EXTENDS Integers, FiniteSets

CONSTANTS
  Workers,      \* verification worker processes, named by WORKER_ID
  Runs,         \* rows of verification_runs that may be created
  Findings,     \* rows of findings that exist or that a scan may add
  Groups,       \* pairs of target and capability, and document tasks
  GroupOf,      \* the group of a finding
  Documents,    \* the groups that are document tasks
  Tooled,       \* the technical groups with a tool to retest them
  Known,        \* the findings that exist at the start
  MaxAttempts,  \* settings.TASK_MAX_RECOVERY_ATTEMPTS
  AwareTimes    \* timestamps come back with a zone (PostgreSQL, not SQLite)

ASSUME VerificationAssumption ==
  /\ GroupOf \in [Findings -> Groups]
  /\ Documents \subseteq Groups
  /\ Tooled \subseteq Groups \ Documents
  /\ Known \subseteq Findings
  /\ MaxAttempts \in Nat
  /\ AwareTimes \in BOOLEAN
  /\ "none" \notin Workers \cup Runs \cup Groups

Conclusive == {"fixed", "still_present", "new"}
Inconclusive == {"unable", "cancelled"}
Unjudged == {"queued", "running"}
\* "none": the run has no item for the finding.
Outcome == {"none"} \cup Unjudged \cup Conclusive \cup Inconclusive
Items == [Findings -> Outcome]

ActiveStatus == {"queued", "running"}
SettledStatus == {"completed", "partial", "failed", "cancelled"}

\* "none": the row is not there yet.  envelope: credentials are stored.
RunRow == [status : {"none"} \cup ActiveStatus \cup SettledStatus, cancel : BOOLEAN,
           owner : Workers \cup {"none"}, lease : {"none", "live", "expired"},
           attempts : 0 .. MaxAttempts, envelope : BOOLEAN]
BlankRow == [status |-> "none", cancel |-> FALSE, owner |-> "none", lease |-> "none",
             attempts |-> 0, envelope |-> FALSE]

VARIABLES
  vrun,     \* [Runs -> RunRow], the VerificationRun table
  outcome,  \* [Runs -> Items], the VerificationItem table
  analysis, \* [Runs -> Items], what the document run of a document retest says, if anything
  finding,  \* [Findings -> FindingStatus], the Finding table
  request,  \* [Runs -> SUBSET Findings], creations that passed the test for active runs
  polled,   \* [Workers -> SUBSET Runs], rows a poll selected and not yet claimed
  seen,     \* [Workers -> [Runs -> RunRow]], those rows as the poll read them
  batch,    \* [Workers -> SUBSET Runs], claimed runs whose turn has not come
  job       \* [Workers -> Job], the run being executed

FindingStatus == {"unknown", "open", "fixed"}

\* pc: "group" between two groups, "scan" the tool is running, "judge" its
\* result is saved.  items: the item objects of the session; present, complete:
\* the result of the scan; renewing: the monitor is alive.
Job == [pc : {"free", "group", "scan", "judge"}, run : Runs \cup {"none"}, items : Items,
        group : Groups \cup {"none"}, present : SUBSET Findings, complete : BOOLEAN,
        renewing : BOOLEAN]
NoItems == [f \in Findings |-> "none"]
FreeJob == [pc |-> "free", run |-> "none", items |-> NoItems, group |-> "none",
            present |-> {}, complete |-> FALSE, renewing |-> FALSE]

tables == <<vrun, outcome, analysis, finding>>
workers == <<polled, seen, batch, job>>
vars == <<vrun, outcome, analysis, finding, request, polled, seen, batch, job>>

Init ==
  /\ vrun = [r \in Runs |-> BlankRow]
  /\ outcome = [r \in Runs |-> NoItems]
  /\ analysis = [r \in Runs |-> NoItems]
  /\ finding = [f \in Findings |-> IF f \in Known THEN "open" ELSE "unknown"]
  /\ request = [r \in Runs |-> {}]
  /\ polled = [w \in Workers |-> {}]
  /\ seen = [w \in Workers |-> [r \in Runs |-> BlankRow]]
  /\ batch = [w \in Workers |-> {}]
  /\ job = [w \in Workers |-> FreeJob]

Active(row) == row.status \in ActiveStatus
Settled(row) == row.status \in SettledStatus
ItemsOf(items) == {f \in Findings : items[f] # "none"}
IsDocument(f) == GroupOf[f] \in Documents
DocumentItems(items) == {f \in ItemsOf(items) : IsDocument(f)}

\* The state in which the claim, the monitor or the code after a tool finds a
\* run: claimed by w and neither begun nor ended.
Holds(w, r) == r \in batch[w] \/ job[w].run = r
Polling(r) == \E w \in Workers : r \in polled[w]

-----------------------------------------------------------------------------
(* Verdicts (apply_verification_outcome, finish_verification_run).          *)

MutantClosesUnable(findings, verdicts) ==
  [f \in Findings |->
     CASE verdicts[f] \in {"fixed", "unable"} -> "fixed"
       [] verdicts[f] \in {"still_present", "cancelled"} -> "open"
       [] OTHER -> findings[f]]
\* The findings after the verdicts, "none" for a finding that gets none: only
\* "fixed" closes a finding, and any other verdict on the baseline opens it.
Verdict(findings, verdicts) ==
  [f \in Findings |->
     CASE verdicts[f] = "fixed" -> "fixed"
       [] verdicts[f] \in {"still_present"} \cup Inconclusive -> "open"
       [] OTHER -> findings[f]]

\* The items after the verdicts.
Judged(items, verdicts) ==
  [f \in Findings |-> IF verdicts[f] = "none" THEN items[f] ELSE verdicts[f]]

\* The same verdict v for every item in the set fs.
Uniformly(fs, v) == [f \in Findings |-> IF f \in fs THEN v ELSE "none"]
UnjudgedItems(items) == {f \in Findings : items[f] \in Unjudged}

MutantForgetsCancelled(row, items) ==
  LET all == ItemsOf(items)
  IN  IF all # {} /\ UnjudgedItems(items) = {}
      THEN [row EXCEPT !.status = IF \E f \in all : items[f] = "unable"
                                  THEN "partial" ELSE "completed",
                       !.owner = "none", !.lease = "none", !.envelope = FALSE]
      ELSE [row EXCEPT !.owner = "none", !.lease = "none"]
\* The row after finish_verification_run and the release that follows it.
Finished(row, items) ==
  LET all == ItemsOf(items)
  IN  IF all # {} /\ UnjudgedItems(items) = {}
      THEN [row EXCEPT !.status = IF \E f \in all : items[f] \in Inconclusive
                                  THEN "partial" ELSE "completed",
                       !.owner = "none", !.lease = "none", !.envelope = FALSE]
      ELSE [row EXCEPT !.owner = "none", !.lease = "none"]

-----------------------------------------------------------------------------
(* User requests.                                                           *)

OpenFindings == {f \in Findings : finding[f] = "open"}

\* What one request may retest: open technical findings the user selected, or
\* all open findings of one document task.
Selection(fs) ==
  /\ fs # {}
  /\ fs \subseteq OpenFindings
  /\ \/ \A f \in fs : ~IsDocument(f)
     \/ \E g \in Documents : fs = {f \in OpenFindings : GroupOf[f] = g}

InActiveRun(f) == \E r \in Runs : Active(vrun[r]) /\ outcome[r][f] # "none"

\* POST /technical, /document, /document/reanalyze: no finding is in an active run.
Submit(r, fs) ==
  /\ vrun[r].status = "none" /\ request[r] = {}
  /\ Selection(fs)
  /\ \A f \in fs : ~InActiveRun(f)
  /\ request' = [request EXCEPT ![r] = fs]
  /\ UNCHANGED <<tables, workers>>

\* The same request inserts the run and its items.
Insert(r) ==
  LET technical == \A f \in request[r] : ~IsDocument(f)
  IN  /\ request[r] # {}
      /\ vrun' = [vrun EXCEPT ![r] = [BlankRow EXCEPT !.status = "queued",
                                                      !.envelope = technical]]
      /\ outcome' = [outcome EXCEPT ![r] = Uniformly(request[r], "queued")]
      /\ request' = [request EXCEPT ![r] = {}]
      /\ UNCHANGED <<analysis, finding, workers>>

MutantStopsAtOnce(r) ==
  /\ Active(vrun[r])
  /\ vrun' = [vrun EXCEPT ![r].cancel = TRUE, ![r].status = "cancelled"]
  /\ outcome' = [outcome EXCEPT ![r] = Judged(@, Uniformly(UnjudgedItems(@), "cancelled"))]
  /\ UNCHANGED <<analysis, finding, request, workers>>
\* POST /runs/{id}/stop
Stop(r) ==
  /\ Active(vrun[r])
  /\ vrun' = [vrun EXCEPT ![r].cancel = TRUE]
  /\ UNCHANGED <<outcome, analysis, finding, request, workers>>

\* POST /runs/{id}/resume.  No poll spans the end of a run and the request of the
\* user who saw it end.
Resume(r) ==
  LET redo == {f \in Findings : outcome[r][f] \in Inconclusive}
  IN  /\ vrun[r].status \in {"cancelled", "failed", "partial"}
      /\ redo # {}
      /\ ~Polling(r)
      /\ outcome' = [outcome EXCEPT ![r] = Judged(@, Uniformly(redo, "queued"))]
      /\ vrun' = [vrun EXCEPT ![r].status = "queued", ![r].cancel = FALSE,
                              ![r].owner = "none", ![r].lease = "none"]
      /\ UNCHANGED <<analysis, finding, request, workers>>

\* POST /findings/{id}/reopen
Reopen(f) ==
  /\ finding[f] # "unknown"
  /\ finding' = [finding EXCEPT ![f] = "open"]
  /\ UNCHANGED <<vrun, outcome, analysis, request, workers>>

\* The document run behind a retest ends (services/document_pipeline.py): failed
\* or without a reliable result, cancelled, or with a verdict per finding.
DocumentRunEnds(r) ==
  LET fs == DocumentItems(outcome[r])
  IN  /\ fs # {} /\ analysis[r] = NoItems
      /\ \/ \E v \in [fs -> {"fixed", "still_present", "unable"}] :
              analysis' = [analysis EXCEPT ![r] =
                             [f \in Findings |-> IF f \in fs THEN v[f] ELSE "none"]]
         \/ analysis' = [analysis EXCEPT ![r] = Uniformly(fs, "cancelled")]
      /\ UNCHANGED <<vrun, outcome, finding, request, workers>>

-----------------------------------------------------------------------------
(* The poll (process_pending_verification_runs).                            *)

Recovering(row) == row.status = "running" /\ row.owner # "none" /\ row.lease = "expired"

NextAttempt(row) ==
  row.attempts + IF row.status = "queued" \/ Recovering(row) THEN 1 ELSE 0

MutantNeedsQueued(row) == row.status = "queued" /\ row.lease # "live"
Claimable(row) == Active(row) /\ row.lease # "live"

\* The SELECT.
PollRead(w) ==
  LET due == {r \in Runs : Claimable(vrun[r])}
  IN  /\ polled[w] = {} /\ batch[w] = {} /\ job[w].pc = "free"
      /\ due # {}
      /\ polled' = [polled EXCEPT ![w] = due]
      /\ seen' = [seen EXCEPT ![w] = [r \in Runs |-> IF r \in due THEN vrun[r] ELSE BlankRow]]
      /\ UNCHANGED <<tables, request, batch, job>>

\* The poll is over, and what it read is forgotten.
PollEnds(w) ==
  /\ polled' = [polled EXCEPT ![w] = {}]
  /\ seen' = [seen EXCEPT ![w] = [r \in Runs |-> BlankRow]]

\* Evaluating "recovering" compares the lease with a clock without a zone.
PollRaises(w) == AwareTimes /\ \E r \in polled[w] : Recovering(seen[w][r])

MutantNoLimit(w) == {}
GivenUp(w) == {r \in polled[w] : NextAttempt(seen[w][r]) > MaxAttempts}
MutantBlindClaim(w) == polled[w] \ GivenUp(w)
Claimed(w) == {r \in polled[w] \ GivenUp(w) : Claimable(vrun[r])}

\* Its one commit: runs out of attempts fail whatever became of them, the others
\* are claimed if they are still to be had.
PollCommit(w) ==
  LET lost == [r \in Runs |-> IF r \in GivenUp(w) THEN UnjudgedItems(outcome[r]) ELSE {}]
  IN  /\ polled[w] # {}
      /\ ~PollRaises(w)
      /\ vrun' = [r \in Runs |->
                    IF r \in GivenUp(w)
                    THEN [vrun[r] EXCEPT !.status = "failed", !.envelope = FALSE]
                    ELSE IF r \in Claimed(w)
                    THEN [vrun[r] EXCEPT !.status = "running", !.owner = w, !.lease = "live",
                                         !.attempts = NextAttempt(seen[w][r])]
                    ELSE vrun[r]]
      /\ outcome' = [r \in Runs |-> Judged(outcome[r], Uniformly(lost[r], "unable"))]
      /\ finding' = Verdict(finding, Uniformly(UNION {lost[r] : r \in Runs}, "unable"))
      /\ batch' = [batch EXCEPT ![w] = Claimed(w)]
      /\ PollEnds(w)
      /\ UNCHANGED <<analysis, request, job>>

\* The comparison raises and the transaction is rolled back.
PollFails(w) ==
  /\ polled[w] # {}
  /\ PollRaises(w)
  /\ PollEnds(w)
  /\ UNCHANGED <<tables, request, batch, job>>

-----------------------------------------------------------------------------
(* A claimed run (_run_verification, _process_technical_group).             *)

\* The rows of run r after verdicts on it, and its row.
Settle(r, verdicts, row) ==
  /\ vrun' = [vrun EXCEPT ![r] = row]
  /\ outcome' = [outcome EXCEPT ![r] = Judged(@, verdicts)]
  /\ finding' = Verdict(finding, verdicts)

\* w turns to run r of its batch.
Begins(w, r) ==
  /\ job[w].pc = "free" /\ r \in batch[w]
  /\ batch' = [batch EXCEPT ![w] = @ \ {r}]

\* A stop that came before the run began: what is left is cancelled.  The lease
\* stays in the row.
RunCancelled(w, r) ==
  /\ Begins(w, r)
  /\ Active(vrun[r]) /\ vrun[r].cancel
  /\ Settle(r, Uniformly(UnjudgedItems(outcome[r]), "cancelled"),
            [vrun[r] EXCEPT !.status = "cancelled", !.envelope = FALSE])
  /\ UNCHANGED <<analysis, request, polled, seen, job>>

\* The credentials cannot be decrypted: no technical item can be retested.
RunUndecryptable(w, r) ==
  LET verdicts == Uniformly(ItemsOf(outcome[r]), "unable")
  IN  /\ Begins(w, r)
      /\ Active(vrun[r]) /\ ~vrun[r].cancel /\ vrun[r].envelope
      /\ Settle(r, verdicts, Finished(vrun[r], Judged(outcome[r], verdicts)))
      /\ UNCHANGED <<analysis, request, polled, seen, job>>

\* A document run: the verdicts of the analysis, if it has ended, else the run is
\* given back for a later poll.
RunDocuments(w, r) ==
  LET due == {f \in UnjudgedItems(outcome[r]) : analysis[r][f] # "none"}
      verdicts == [f \in Findings |-> IF f \in due THEN analysis[r][f] ELSE "none"]
  IN  /\ Begins(w, r)
      /\ Active(vrun[r]) /\ ~vrun[r].cancel
      /\ DocumentItems(outcome[r]) # {}
      /\ Settle(r, verdicts, Finished(vrun[r], Judged(outcome[r], verdicts)))
      /\ UNCHANGED <<analysis, request, polled, seen, job>>

\* A technical run is loaded: its items are read once.  A run that is not active any
\* more is skipped.
RunTechnical(w, r) ==
  /\ Begins(w, r)
  /\ Active(vrun[r]) => ~vrun[r].cancel /\ DocumentItems(outcome[r]) = {}
  /\ job' = IF Active(vrun[r])
            THEN [job EXCEPT ![w] = [FreeJob EXCEPT !.pc = "group", !.run = r,
                                                    !.items = outcome[r], !.renewing = TRUE]]
            ELSE job
  /\ UNCHANGED <<tables, request, polled, seen>>

\* The items of the group still queued in the session.  The groups are formed of
\* these alone: an item that a lost worker left "running" is in none of them.
QueuedItems(j, g) == {f \in Findings : j.items[f] = "queued" /\ GroupOf[f] = g}

\* Verdicts on the current run of w, in the rows and in the session, with the
\* renewal of the lease that follows every group.
JudgeItems(w, verdicts, j) ==
  LET r == job[w].run
  IN  /\ Settle(r, verdicts, [vrun[r] EXCEPT !.lease = "live"])
      /\ job' = [job EXCEPT ![w] = [j EXCEPT !.items = Judged(@, verdicts)]]
      /\ UNCHANGED <<analysis, request, polled, seen, batch>>

\* No tool retests the group.
GroupUntooled(w) ==
  \E g \in Groups \ Tooled :
    /\ job[w].pc = "group"
    /\ QueuedItems(job[w], g) # {}
    /\ JudgeItems(w, Uniformly(QueuedItems(job[w], g), "unable"), job[w])

\* The next group is marked running, and its scan begins.  The stop request is
\* tested on the object loaded at the start, which had none.
GroupBegin(w) ==
  \E g \in Tooled :
    LET fs == QueuedItems(job[w], g)
        r == job[w].run
    IN  /\ job[w].pc = "group"
        /\ fs # {}
        /\ outcome' = [outcome EXCEPT ![r] = Judged(@, Uniformly(fs, "running"))]
        /\ job' = [job EXCEPT ![w].pc = "scan", ![w].group = g,
                              ![w].items = Judged(@, Uniformly(fs, "running"))]
        /\ UNCHANGED <<vrun, analysis, finding, request, polled, seen, batch>>

\* The scan ends and saves the findings it detected, known or not, as open.
GroupScanned(w) ==
  \E present \in SUBSET {f \in Findings : GroupOf[f] = job[w].group}, complete \in BOOLEAN :
    /\ job[w].pc = "scan"
    /\ finding' = [f \in Findings |-> IF f \in present THEN "open" ELSE finding[f]]
    /\ job' = [job EXCEPT ![w].pc = "judge", ![w].present = present, ![w].complete = complete]
    /\ UNCHANGED <<vrun, outcome, analysis, request, polled, seen, batch>>

\* The verdicts a scan gives: unable when it was not complete, else by what it
\* detected, and "new" for what is not in the run.  (A finding of the run outside
\* the group gets a second item in the code; its first verdict decides the status.)
ScanVerdicts(j) ==
  LET fs == {f \in Findings : j.items[f] = "running" /\ GroupOf[f] = j.group}
  IN  [f \in Findings |->
         CASE f \in fs /\ ~j.complete -> "unable"
           [] f \in fs /\ f \in j.present -> "still_present"
           [] f \in fs -> "fixed"
           [] f \in j.present /\ j.complete /\ j.items[f] = "none" -> "new"
           [] OTHER -> "none"]

\* The verdicts are committed.
GroupJudged(w) ==
  /\ job[w].pc = "judge"
  /\ JudgeItems(w, ScanVerdicts(job[w]),
                [job[w] EXCEPT !.pc = "group", !.group = "none", !.present = {},
                               !.complete = FALSE])

\* No group is left.
RunFinish(w) ==
  LET r == job[w].run
  IN  /\ job[w].pc = "group"
      /\ \A f \in Findings : job[w].items[f] # "queued"
      /\ vrun' = [vrun EXCEPT ![r] = Finished(@, job[w].items)]
      /\ job' = [job EXCEPT ![w] = FreeJob]
      /\ UNCHANGED <<outcome, analysis, finding, request, polled, seen, batch>>

\* The monitor of the current run: it renews the lease until the run is stopped or
\* no longer this worker's.
MonitorRenew(w) ==
  LET r == job[w].run
      ours == vrun[r].status = "running" /\ vrun[r].owner = w /\ ~vrun[r].cancel
  IN  /\ job[w].pc # "free" /\ job[w].renewing
      /\ vrun' = IF ours THEN [vrun EXCEPT ![r].lease = "live"] ELSE vrun
      /\ job' = [job EXCEPT ![w].renewing = ours]
      /\ UNCHANGED <<outcome, analysis, finding, request, polled, seen, batch>>

-----------------------------------------------------------------------------
(* Time and failure.                                                        *)

\* A lease runs out.  It lasts minutes, and no poll does.
LeaseExpires(r) ==
  /\ vrun[r].lease = "live"
  /\ ~Polling(r)
  /\ vrun' = [vrun EXCEPT ![r].lease = "expired"]
  /\ UNCHANGED <<outcome, analysis, finding, request, workers>>

\* w is killed, or a run of it raises: what it holds in memory is gone.
WorkerLost(w) ==
  /\ polled[w] # {} \/ batch[w] # {} \/ job[w].pc # "free"
  /\ PollEnds(w)
  /\ batch' = [batch EXCEPT ![w] = {}]
  /\ job' = [job EXCEPT ![w] = FreeJob]
  /\ UNCHANGED <<tables, request>>

RunStep(w) ==
  \/ \E r \in Runs : \/ RunCancelled(w, r) \/ RunUndecryptable(w, r)
                     \/ RunDocuments(w, r) \/ RunTechnical(w, r)
  \/ GroupUntooled(w) \/ GroupBegin(w) \/ GroupScanned(w) \/ GroupJudged(w)
  \/ RunFinish(w)

UserStep ==
  \/ \E r \in Runs :
       \/ \E fs \in SUBSET Findings : Submit(r, fs)
       \/ Insert(r) \/ Stop(r) \/ Resume(r)
  \/ \E f \in Findings : Reopen(f)

Next ==
  \/ UserStep
  \/ \E r \in Runs : DocumentRunEnds(r) \/ LeaseExpires(r)
  \/ \E w \in Workers :
       \/ PollRead(w) \/ PollCommit(w) \/ PollFails(w)
       \/ RunStep(w) \/ MonitorRenew(w) \/ WorkerLost(w)

Spec == Init /\ [][Next]_vars

\* A lease nobody renews.
LeaseLapses(r) ==
  /\ \A w \in Workers : job[w].run = r => ~job[w].renewing
  /\ LeaseExpires(r)

Fairness ==
  /\ \A r \in Runs : /\ WF_vars(Insert(r))
                     /\ WF_vars(DocumentRunEnds(r))
                     /\ WF_vars(LeaseLapses(r))
  /\ \A w \in Workers : /\ WF_vars(PollRead(w))
                        /\ SF_vars(PollCommit(w) \/ PollFails(w))
                        /\ WF_vars(RunStep(w))

LiveSpec == Spec /\ Fairness

-----------------------------------------------------------------------------
(* Properties.                                                              *)

\* The tables and the memory of the workers keep their types; no run is claimed more
\* than MaxAttempts times.
TypeOK ==
  /\ vrun \in [Runs -> RunRow]
  /\ outcome \in [Runs -> Items]
  /\ analysis \in [Runs -> Items]
  /\ finding \in [Findings -> FindingStatus]
  /\ request \in [Runs -> SUBSET Findings]
  /\ polled \in [Workers -> SUBSET Runs]
  /\ seen \in [Workers -> [Runs -> RunRow]]
  /\ batch \in [Workers -> SUBSET Runs]
  /\ job \in [Workers -> Job]

\* A run is in the hands of one worker at most: nobody claims a run that another
\* worker executes or is about to execute (the claim and the lease).
OneWorkerPerRun ==
  \A r \in Runs, v, w \in Workers : Holds(v, r) /\ Holds(w, r) => v = w

SettledItems(row, items) ==
  CASE row.status = "completed" -> \A f \in ItemsOf(items) : items[f] \in Conclusive
    [] row.status = "partial" -> /\ UnjudgedItems(items) = {}
                                 /\ \E f \in Findings : items[f] \in Inconclusive
    [] row.status \in {"failed", "cancelled"} -> UnjudgedItems(items) = {}
    [] OTHER -> TRUE

\* What the status of a finished run says holds of its items: "completed" means a
\* conclusive verdict on each, "partial" that some were inconclusive, and no
\* finished run has an item left to judge (finish_verification_run decides from
\* the objects of its session).
SettledIsCovered == \A r \in Runs : SettledItems(vrun[r], outcome[r])

\* A closed finding was found fixed by a retest, and that retest stands: nothing
\* else closes a finding, and a retest that takes its verdict back opens it.
ClosedByRetest ==
  \A f \in Findings : finding[f] = "fixed" => \E r \in Runs : outcome[r][f] = "fixed"

\* A finished run changes only when a user resumes it: no late result, renewal or
\* given-up poll writes over its status or its items.
SettledIsFinal ==
  [][\A r \in Runs : Settled(vrun[r]) /\ ~Resume(r) =>
       vrun'[r].status = vrun[r].status /\ outcome'[r] = outcome[r]]_vars

\* The promise of module Retests: "running" items and leases are its own business.
Ledger == INSTANCE Retests WITH
  status <- [r \in Runs |-> IF Active(vrun[r]) THEN "active" ELSE vrun[r].status],
  verdict <- [r \in Runs |-> [f \in Findings |->
                IF outcome[r][f] \in Unjudged THEN "due" ELSE outcome[r][f]]]

\* The queue, with all that polls, leases, stops and lost workers do, changes its
\* runs only as Retests allows: above all a conclusive verdict stands.
KeepsPromise == Ledger!Spec

\* A run left behind by a lost worker.
Orphan(r) ==
  /\ vrun[r].status = "running" /\ vrun[r].owner # "none"
  /\ \A w \in Workers : ~Holds(w, r)

\* Every run that is queued or running finishes, stopped or not, as long as no
\* worker is lost with a run in its hands.
RunsSettle ==
  \A r \in Runs :
    Active(vrun[r]) ~> Settled(vrun[r]) \/ \E o \in Runs : Orphan(o)

\* A run whose worker is lost is claimed again and finished.
LostRunsRecover == \A r \in Runs : Orphan(r) ~> Settled(vrun[r])
=============================================================================
