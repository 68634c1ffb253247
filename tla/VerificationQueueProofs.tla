----------------------- MODULE VerificationQueueProofs -----------------------
(***************************************************************************)
(* Theorems about VerificationQueue for any number of workers, runs,       *)
(* findings and groups.                                                    *)
(***************************************************************************)
EXTENDS VerificationQueue, TLAPS

USE VerificationAssumption

-----------------------------------------------------------------------------
(* What the operators return.                                               *)

\* A row that is not there yet is a row.
LEMMA BlankRowType == BlankRow \in RunRow
BY DEF BlankRow, RunRow, ActiveStatus, SettledStatus

\* A run without items has a table of items.
LEMMA NoItemsType == NoItems \in Items
BY DEF NoItems, Items, Outcome

\* The same verdict for a set of findings is a table of items.
LEMMA UniformlyType ==
  ASSUME NEW fs, NEW v \in Outcome
  PROVE  Uniformly(fs, v) \in Items
BY DEF Uniformly, Items, Outcome

\* Items after verdicts are items.
LEMMA JudgedType ==
  ASSUME NEW items \in Items, NEW verdicts \in Items
  PROVE  Judged(items, verdicts) \in Items
BY DEF Judged, Items

\* Findings after verdicts are findings.
LEMMA VerdictType ==
  ASSUME NEW findings \in [Findings -> FindingStatus], NEW verdicts
  PROVE  Verdict(findings, verdicts) \in [Findings -> FindingStatus]
BY DEF Verdict, FindingStatus

\* finish_verification_run keeps a row a row.
LEMMA FinishedType ==
  ASSUME NEW row \in RunRow, NEW items
  PROVE  Finished(row, items) \in RunRow
BY DEF Finished, RunRow, ActiveStatus, SettledStatus

\* An idle worker is a job.
LEMMA FreeJobType == FreeJob \in Job
BY NoItemsType DEF FreeJob, Job

\* The verdicts of a scan are a table of items.
LEMMA ScanVerdictsType ==
  ASSUME NEW j
  PROVE  ScanVerdicts(j) \in Items
BY DEF ScanVerdicts, Items, Outcome, Conclusive, Inconclusive

\* The assignments to columns of a row keep it a row.
LEMMA RowEdits ==
  ASSUME NEW row \in RunRow
  PROVE  /\ [row EXCEPT !.cancel = TRUE] \in RunRow
         /\ [row EXCEPT !.lease = "live"] \in RunRow
         /\ [row EXCEPT !.lease = "expired"] \in RunRow
         /\ \A b \in BOOLEAN : [row EXCEPT !.status = "queued", !.envelope = b] \in RunRow
         /\ [row EXCEPT !.status = "queued", !.cancel = FALSE, !.owner = "none",
                        !.lease = "none"] \in RunRow
         /\ [row EXCEPT !.status = "cancelled", !.envelope = FALSE] \in RunRow
         /\ [row EXCEPT !.status = "failed", !.envelope = FALSE] \in RunRow
         /\ \A w \in Workers, n \in 0 .. MaxAttempts :
              [row EXCEPT !.status = "running", !.owner = w, !.lease = "live",
                          !.attempts = n] \in RunRow
BY DEF RunRow, ActiveStatus, SettledStatus

\* What these assignments leave in the status column.
LEMMA RowStatus ==
  ASSUME NEW row \in RunRow
  PROVE  /\ [row EXCEPT !.cancel = TRUE].status = row.status
         /\ [row EXCEPT !.lease = "live"].status = row.status
         /\ [row EXCEPT !.lease = "expired"].status = row.status
         /\ [row EXCEPT !.status = "cancelled", !.envelope = FALSE].status = "cancelled"
         /\ [row EXCEPT !.status = "failed", !.envelope = FALSE].status = "failed"
         /\ \A w, n : [row EXCEPT !.status = "running", !.owner = w, !.lease = "live",
                                  !.attempts = n].status = "running"
BY DEF RunRow

\* The assignments to a job keep it a job.
LEMMA JobEdits ==
  ASSUME NEW j \in Job
  PROVE  /\ \A i \in Items :
              /\ [j EXCEPT !.items = i] \in Job
              /\ \A r \in Runs : [j EXCEPT !.pc = "group", !.run = r, !.items = i,
                                           !.renewing = TRUE] \in Job
              /\ \A g \in Groups : [j EXCEPT !.pc = "scan", !.group = g, !.items = i] \in Job
         /\ \A fs \in SUBSET Findings, b \in BOOLEAN :
              [j EXCEPT !.pc = "judge", !.present = fs, !.complete = b] \in Job
         /\ [j EXCEPT !.pc = "group", !.group = "none", !.present = {},
                      !.complete = FALSE] \in Job
         /\ \A b \in BOOLEAN : [j EXCEPT !.renewing = b] \in Job
BY DEF Job

\* Verdicts of items on a run keep the tables typed.
LEMMA SettleType ==
  ASSUME TypeOK, NEW r \in Runs, NEW verdicts \in Items, NEW row \in RunRow,
         Settle(r, verdicts, row)
  PROVE  /\ vrun' \in [Runs -> RunRow]
         /\ outcome' \in [Runs -> Items]
         /\ finding' \in [Findings -> FindingStatus]
<1>1. Judged(outcome[r], verdicts) \in Items
  BY JudgedType DEF TypeOK
<1>2. Verdict(finding, verdicts) \in [Findings -> FindingStatus]
  BY VerdictType DEF TypeOK
<1>. QED
  BY <1>1, <1>2 DEF Settle, TypeOK

\* The current run of a busy worker is a run (its run and items are typed).
JobRuns == \A w \in Workers : job[w].pc = "free" <=> job[w].run = "none"

-----------------------------------------------------------------------------
(* Types.                                                                   *)

\* The initial state is typed and no worker has a run.
LEMMA TypeInit == Init => TypeOK /\ JobRuns
<1>. SUFFICES ASSUME Init PROVE TypeOK /\ JobRuns
  OBVIOUS
<1>1. BlankRow \in RunRow /\ NoItems \in Items /\ FreeJob \in Job
  BY BlankRowType, NoItemsType, FreeJobType
<1>2. finding \in [Findings -> FindingStatus]
  BY DEF Init, FindingStatus
<1>3. TypeOK
  BY <1>1, <1>2 DEF Init, TypeOK
<1>4. JobRuns
  BY DEF Init, JobRuns, FreeJob
<1>. QED
  BY <1>3, <1>4

\* Every step keeps the types.
LEMMA TypeNext == TypeOK /\ JobRuns /\ [Next]_vars => TypeOK' /\ JobRuns'
<1>. SUFFICES ASSUME TypeOK, JobRuns, [Next]_vars
              PROVE  TypeOK' /\ JobRuns'
  OBVIOUS
<1>b. BlankRow \in RunRow /\ NoItems \in Items /\ FreeJob \in Job
  BY BlankRowType, NoItemsType, FreeJobType
<1>u. \A fs, v : v \in Outcome => Uniformly(fs, v) \in Items
  BY UniformlyType
<1>o. {"queued", "running", "unable", "cancelled"} \subseteq Outcome
  BY DEF Outcome, Unjudged, Inconclusive
<1>1. ASSUME NEW r \in Runs, NEW fs \in SUBSET Findings, Submit(r, fs)
      PROVE  TypeOK' /\ JobRuns'
  BY <1>1 DEF Submit, tables, workers, TypeOK, JobRuns
<1>2. ASSUME NEW r \in Runs, Insert(r)
      PROVE  TypeOK' /\ JobRuns'
  <2>. DEFINE technical == \A f \in request[r] : ~IsDocument(f)
  <2>0. technical \in BOOLEAN
    OBVIOUS
  <2>. HIDE DEF technical
  <2>1. [BlankRow EXCEPT !.status = "queued", !.envelope = technical] \in RunRow
    BY <1>b, <2>0, RowEdits
  <2>2. Uniformly(request[r], "queued") \in Items
    BY <1>u, <1>o
  <2>3. vrun' = [vrun EXCEPT ![r] = [BlankRow EXCEPT !.status = "queued",
                                                     !.envelope = technical]]
    BY <1>2 DEF Insert, technical
  <2>4. outcome' = [outcome EXCEPT ![r] = Uniformly(request[r], "queued")]
        /\ request' = [request EXCEPT ![r] = {}]
        /\ UNCHANGED <<analysis, finding, workers>>
    BY <1>2 DEF Insert
  <2>. QED
    BY <2>1, <2>2, <2>3, <2>4 DEF workers, TypeOK, JobRuns
<1>3. ASSUME NEW r \in Runs, Stop(r)
      PROVE  TypeOK' /\ JobRuns'
  <2>1. vrun' \in [Runs -> RunRow]
    BY <1>3, RowEdits DEF Stop, TypeOK
  <2>. QED
    BY <1>3, <2>1 DEF Stop, workers, TypeOK, JobRuns
<1>4. ASSUME NEW r \in Runs, Resume(r)
      PROVE  TypeOK' /\ JobRuns'
  <2>. DEFINE redo == {f \in Findings : outcome[r][f] \in Inconclusive}
  <2>1. Judged(outcome[r], Uniformly(redo, "queued")) \in Items
    BY <1>u, <1>o, JudgedType DEF TypeOK
  <2>2. outcome' \in [Runs -> Items]
    BY <1>4, <2>1 DEF Resume, TypeOK
  <2>3. vrun' \in [Runs -> RunRow]
    BY <1>4, RowEdits DEF Resume, TypeOK
  <2>. QED
    BY <1>4, <2>2, <2>3 DEF Resume, workers, TypeOK, JobRuns
<1>5. ASSUME NEW f \in Findings, Reopen(f)
      PROVE  TypeOK' /\ JobRuns'
  BY <1>5 DEF Reopen, workers, TypeOK, JobRuns, FindingStatus
<1>6. ASSUME NEW r \in Runs, DocumentRunEnds(r)
      PROVE  TypeOK' /\ JobRuns'
  <2>. DEFINE fs == DocumentItems(outcome[r])
  <2>1. ASSUME NEW v \in [fs -> {"fixed", "still_present", "unable"}]
        PROVE  [f \in Findings |-> IF f \in fs THEN v[f] ELSE "none"] \in Items
    BY DEF Items, Outcome, Conclusive, Inconclusive
  <2>2. Uniformly(fs, "cancelled") \in Items
    BY <1>u, <1>o
  <2>3. analysis' \in [Runs -> Items]
    <3>1. CASE \E v \in [fs -> {"fixed", "still_present", "unable"}] :
                 analysis' = [analysis EXCEPT ![r] =
                                [f \in Findings |-> IF f \in fs THEN v[f] ELSE "none"]]
      BY <2>1, <3>1 DEF TypeOK
    <3>2. CASE analysis' = [analysis EXCEPT ![r] = Uniformly(fs, "cancelled")]
      BY <2>2, <3>2 DEF TypeOK
    <3>. QED
      BY <1>6, <3>1, <3>2 DEF DocumentRunEnds
  <2>. QED
    BY <1>6, <2>3 DEF DocumentRunEnds, workers, TypeOK, JobRuns
<1>7. ASSUME NEW r \in Runs, LeaseExpires(r)
      PROVE  TypeOK' /\ JobRuns'
  <2>1. vrun' \in [Runs -> RunRow]
    BY <1>7, RowEdits DEF LeaseExpires, TypeOK
  <2>. QED
    BY <1>7, <2>1 DEF LeaseExpires, workers, TypeOK, JobRuns
<1>8. ASSUME NEW w \in Workers, PollRead(w)
      PROVE  TypeOK' /\ JobRuns'
  <2>1. [r \in Runs |-> IF r \in {q \in Runs : Claimable(vrun[q])} THEN vrun[r] ELSE BlankRow]
          \in [Runs -> RunRow]
    BY <1>b DEF TypeOK
  <2>. QED
    BY <1>8, <2>1 DEF PollRead, tables, TypeOK, JobRuns
<1>9. ASSUME NEW w \in Workers, PollEnds(w)
      PROVE  /\ polled' \in [Workers -> SUBSET Runs]
             /\ seen' \in [Workers -> [Runs -> RunRow]]
  BY <1>9, <1>b DEF PollEnds, TypeOK
<1>10. ASSUME NEW w \in Workers, PollCommit(w)
       PROVE  TypeOK' /\ JobRuns'
  <2>. DEFINE lost == [r \in Runs |-> IF r \in GivenUp(w) THEN UnjudgedItems(outcome[r]) ELSE {}]
  <2>1. outcome' = [r \in Runs |-> Judged(outcome[r], Uniformly(lost[r], "unable"))]
    BY <1>10 DEF PollCommit
  <2>2. outcome' \in [Runs -> Items]
    BY <2>1, <1>u, <1>o, JudgedType DEF TypeOK
  <2>3. finding' \in [Findings -> FindingStatus]
    BY <1>10, VerdictType DEF PollCommit, TypeOK
  <2>4. ASSUME NEW r \in Runs PROVE vrun'[r] \in RunRow
    <3>1. vrun[r] \in RunRow /\ seen[w][r] \in RunRow
      BY DEF TypeOK
    <3>2. CASE r \in GivenUp(w)
      BY <1>10, RowEdits, <3>1, <3>2 DEF PollCommit
    <3>3. CASE r \notin GivenUp(w) /\ r \in Claimed(w)
      <4>1. r \in polled[w]
        BY <3>3 DEF Claimed
      <4>2. NextAttempt(seen[w][r]) \in 0 .. MaxAttempts
        BY <3>1, <3>3, <4>1 DEF GivenUp, NextAttempt, RunRow
      <4>. QED
        BY <1>10, <3>1, <3>3, <4>2, RowEdits DEF PollCommit
    <3>4. CASE r \notin GivenUp(w) /\ r \notin Claimed(w)
      BY <1>10, <3>1, <3>4 DEF PollCommit
    <3>. QED
      BY <3>2, <3>3, <3>4
  <2>5. vrun' \in [Runs -> RunRow]
    BY <1>10, <2>4 DEF PollCommit
  <2>6. Claimed(w) \subseteq Runs
    BY DEF Claimed, TypeOK
  <2>. QED
    BY <1>9, <1>10, <2>2, <2>3, <2>5, <2>6 DEF PollCommit, TypeOK, JobRuns
<1>11. ASSUME NEW w \in Workers, PollFails(w)
       PROVE  TypeOK' /\ JobRuns'
  BY <1>9, <1>11 DEF PollFails, tables, TypeOK, JobRuns
<1>12. ASSUME NEW w \in Workers, NEW r \in Runs,
              RunCancelled(w, r) \/ RunUndecryptable(w, r) \/ RunDocuments(w, r)
       PROVE  TypeOK' /\ JobRuns'
  <2>1. batch' \in [Workers -> SUBSET Runs]
    BY <1>12 DEF RunCancelled, RunUndecryptable, RunDocuments, Begins, TypeOK
  <2>2. PICK verdicts \in Items, row \in RunRow : Settle(r, verdicts, row)
    <3>1. CASE RunCancelled(w, r)
      <4>1. [vrun[r] EXCEPT !.status = "cancelled", !.envelope = FALSE] \in RunRow
        BY RowEdits DEF TypeOK
      <4>. QED
        BY <3>1, <4>1, <1>u, <1>o DEF RunCancelled
    <3>2. CASE RunUndecryptable(w, r)
      <4>1. \A items : Finished(vrun[r], items) \in RunRow
        BY FinishedType DEF TypeOK
      <4>. QED
        BY <3>2, <4>1, <1>u, <1>o DEF RunUndecryptable
    <3>3. CASE RunDocuments(w, r)
      <4>1. \A items : Finished(vrun[r], items) \in RunRow
        BY FinishedType DEF TypeOK
      <4>2. \A due : [f \in Findings |-> IF f \in due THEN analysis[r][f] ELSE "none"] \in Items
        BY DEF TypeOK, Items, Outcome
      <4>. QED
        BY <3>3, <4>1, <4>2 DEF RunDocuments
    <3>. QED
      BY <1>12, <3>1, <3>2, <3>3
  <2>3. /\ vrun' \in [Runs -> RunRow]
        /\ outcome' \in [Runs -> Items]
        /\ finding' \in [Findings -> FindingStatus]
    BY <2>2, SettleType
  <2>. QED
    BY <1>12, <2>1, <2>3 DEF RunCancelled, RunUndecryptable, RunDocuments, TypeOK, JobRuns
<1>13. ASSUME NEW w \in Workers, NEW r \in Runs, RunTechnical(w, r)
       PROVE  TypeOK' /\ JobRuns'
  <2>1. batch' \in [Workers -> SUBSET Runs]
    BY <1>13 DEF RunTechnical, Begins, TypeOK
  <2>2. [FreeJob EXCEPT !.pc = "group", !.run = r, !.items = outcome[r], !.renewing = TRUE] \in Job
    BY <1>b, JobEdits DEF TypeOK
  <2>3. job' \in [Workers -> Job]
    BY <1>13, <2>2 DEF RunTechnical, TypeOK
  <2>4. JobRuns'
    BY <1>13 DEF RunTechnical, JobRuns, FreeJob, TypeOK
  <2>. QED
    BY <1>13, <2>1, <2>3, <2>4 DEF RunTechnical, tables, TypeOK
<1>14. ASSUME NEW w \in Workers, NEW verdicts \in Items, NEW j \in Job, j.run = job[w].run,
              j.pc # "free", job[w].pc # "free", JudgeItems(w, verdicts, j)
       PROVE  TypeOK' /\ JobRuns'
  <2>1. job[w].run \in Runs
    BY <1>14 DEF JobRuns, TypeOK, Job
  <2>2. [vrun[job[w].run] EXCEPT !.lease = "live"] \in RunRow
    BY RowEdits, <2>1 DEF TypeOK
  <2>3. /\ vrun' \in [Runs -> RunRow]
        /\ outcome' \in [Runs -> Items]
        /\ finding' \in [Findings -> FindingStatus]
    BY <1>14, <2>1, <2>2, SettleType DEF JudgeItems
  <2>4. Judged(j.items, verdicts) \in Items
    BY JudgedType DEF Job
  <2>5. [j EXCEPT !.items = Judged(j.items, verdicts)] \in Job
    BY <1>14, <2>4, JobEdits
  <2>6. job' = [job EXCEPT ![w] = [j EXCEPT !.items = Judged(j.items, verdicts)]]
    BY <1>14 DEF JudgeItems
  <2>7. job' \in [Workers -> Job]
    BY <2>5, <2>6 DEF TypeOK
  <2>8. JobRuns'
    BY <1>14, <2>6 DEF JobRuns, TypeOK, Job
  <2>. QED
    BY <1>14, <2>3, <2>7, <2>8 DEF JudgeItems, TypeOK
<1>15. ASSUME NEW w \in Workers, GroupUntooled(w)
       PROVE  TypeOK' /\ JobRuns'
  <2>1. job[w] \in Job
    BY DEF TypeOK
  <2>. QED
    BY <1>14, <1>15, <1>u, <1>o, <2>1 DEF GroupUntooled
<1>16. ASSUME NEW w \in Workers, GroupBegin(w)
       PROVE  TypeOK' /\ JobRuns'
  <2>1. PICK g \in Tooled :
          LET fs == QueuedItems(job[w], g)
              r == job[w].run
          IN  /\ job[w].pc = "group"
              /\ outcome' = [outcome EXCEPT ![r] = Judged(@, Uniformly(fs, "running"))]
              /\ job' = [job EXCEPT ![w].pc = "scan", ![w].group = g,
                              ![w].items = Judged(@, Uniformly(fs, "running"))]
    BY <1>16 DEF GroupBegin
  <2>2. Uniformly(QueuedItems(job[w], g), "running") \in Items
    BY <1>u, <1>o
  <2>3. \A i \in Items : Judged(i, Uniformly(QueuedItems(job[w], g), "running")) \in Items
    BY <2>2, JudgedType
  <2>4. outcome' \in [Runs -> Items]
    BY <2>1, <2>3 DEF TypeOK
  <2>5. job' \in [Workers -> Job]
    <3>1. job[w] \in Job /\ job[w].items \in Items /\ g \in Groups
      BY DEF TypeOK, Job
    <3>2. job' = [job EXCEPT ![w] = [job[w] EXCEPT !.pc = "scan", !.group = g,
                    !.items = Judged(job[w].items, Uniformly(QueuedItems(job[w], g), "running"))]]
      BY <2>1
    <3>. QED
      BY <2>3, <3>1, <3>2, JobEdits DEF TypeOK
  <2>6. JobRuns'
    BY <2>1 DEF JobRuns, TypeOK, Job
  <2>. QED
    BY <1>16, <2>4, <2>5, <2>6 DEF GroupBegin, TypeOK
<1>17. ASSUME NEW w \in Workers, GroupScanned(w)
       PROVE  TypeOK' /\ JobRuns'
  <2>1. PICK present \in SUBSET Findings, complete \in BOOLEAN :
          /\ job[w].pc = "scan"
          /\ finding' = [f \in Findings |-> IF f \in present THEN "open" ELSE finding[f]]
          /\ job' = [job EXCEPT ![w].pc = "judge", ![w].present = present,
                                ![w].complete = complete]
    BY <1>17 DEF GroupScanned
  <2>2. [job[w] EXCEPT !.pc = "judge", !.present = present, !.complete = complete] \in Job
    BY JobEdits DEF TypeOK
  <2>3. job' \in [Workers -> Job]
    BY <2>1, <2>2 DEF TypeOK
  <2>4. finding' \in [Findings -> FindingStatus]
    BY <2>1 DEF TypeOK, FindingStatus
  <2>5. JobRuns'
    BY <2>1 DEF JobRuns, TypeOK, Job
  <2>. QED
    BY <1>17, <2>3, <2>4, <2>5 DEF GroupScanned, TypeOK
<1>18. ASSUME NEW w \in Workers, GroupJudged(w)
       PROVE  TypeOK' /\ JobRuns'
  <2>. DEFINE j == [job[w] EXCEPT !.pc = "group", !.group = "none", !.present = {},
                                  !.complete = FALSE]
  <2>1. j \in Job /\ j.run = job[w].run /\ j.pc # "free" /\ job[w].pc # "free"
    <3>1. job[w] \in Job /\ job[w].pc = "judge"
      BY <1>18 DEF GroupJudged, TypeOK
    <3>2. j \in Job
      BY <3>1, JobEdits
    <3>. QED
      BY <3>1, <3>2 DEF Job
  <2>. HIDE DEF j
  <2>2. JudgeItems(w, ScanVerdicts(job[w]), j)
    BY <1>18 DEF GroupJudged, j
  <2>. QED
    BY <1>14, <2>1, <2>2, ScanVerdictsType
<1>19. ASSUME NEW w \in Workers, RunFinish(w)
       PROVE  TypeOK' /\ JobRuns'
  <2>1. job[w].run \in Runs
    BY <1>19 DEF RunFinish, JobRuns, TypeOK, Job
  <2>2. Finished(vrun[job[w].run], job[w].items) \in RunRow
    BY <2>1, FinishedType DEF TypeOK
  <2>3. vrun' \in [Runs -> RunRow] /\ job' \in [Workers -> Job]
    BY <1>19, <1>b, <2>2 DEF RunFinish, TypeOK
  <2>4. JobRuns'
    BY <1>19 DEF RunFinish, JobRuns, FreeJob, TypeOK
  <2>. QED
    BY <1>19, <2>3, <2>4 DEF RunFinish, TypeOK
<1>20. ASSUME NEW w \in Workers, MonitorRenew(w)
       PROVE  TypeOK' /\ JobRuns'
  <2>. DEFINE r == job[w].run
              ours == vrun[r].status = "running" /\ vrun[r].owner = w /\ ~vrun[r].cancel
  <2>0. ours \in BOOLEAN
    OBVIOUS
  <2>. HIDE DEF ours
  <2>1. /\ vrun' = IF ours THEN [vrun EXCEPT ![r].lease = "live"] ELSE vrun
        /\ job' = [job EXCEPT ![w].renewing = ours]
    BY <1>20 DEF MonitorRenew, ours
  <2>2. vrun' \in [Runs -> RunRow]
    BY RowEdits, <2>1 DEF TypeOK
  <2>3. job' \in [Workers -> Job]
    BY <2>0, <2>1, JobEdits DEF TypeOK
  <2>4. JobRuns'
    BY <2>1 DEF JobRuns, TypeOK, Job
  <2>. QED
    BY <1>20, <2>2, <2>3, <2>4 DEF MonitorRenew, TypeOK
<1>21. ASSUME NEW w \in Workers, WorkerLost(w)
       PROVE  TypeOK' /\ JobRuns'
  <2>1. job' \in [Workers -> Job] /\ JobRuns'
    BY <1>21, <1>b DEF WorkerLost, TypeOK, JobRuns, FreeJob
  <2>. QED
    BY <1>9, <1>21, <2>1 DEF WorkerLost, tables, TypeOK
<1>22. CASE UNCHANGED vars
  BY <1>22 DEF vars, TypeOK, JobRuns
<1>. QED
  BY <1>1, <1>2, <1>3, <1>4, <1>5, <1>6, <1>7, <1>8, <1>10, <1>11, <1>12, <1>13, <1>15,
     <1>16, <1>17, <1>18, <1>19, <1>20, <1>21, <1>22 DEF Next, UserStep, RunStep

\* Tables and worker memory keep their types, whatever the users, the workers, time
\* and failures do; in particular no run is claimed more than MaxAttempts times.
THEOREM VerificationTypeCorrect == Spec => []TypeOK
<1>1. Init => TypeOK /\ JobRuns
  BY TypeInit
<1>2. TypeOK /\ JobRuns /\ [Next]_vars => TypeOK' /\ JobRuns'
  BY TypeNext
<1>. QED
  BY <1>1, <1>2, PTL DEF Spec

-----------------------------------------------------------------------------
(* One worker per run.                                                      *)

\* PostgreSQL, or the single worker of a development installation.
Deployment == AwareTimes \/ \A v, w \in Workers : v = w

\* A worker polls with empty hands.
PollIdle == \A w \in Workers : polled[w] # {} => batch[w] = {} /\ job[w].pc = "free"

\* A run in the hands of a worker is running, and its row names the worker.
HeldRows ==
  \A w \in Workers, r \in Runs : Holds(w, r) =>
    vrun[r].status = "running" /\ vrun[r].owner = w /\ vrun[r].lease # "none"

\* The run being executed is not waiting for its turn any more.
BatchApart == \A w \in Workers : job[w].run \notin batch[w]

\* An active run with a lease was claimed.
LeaseOwned ==
  \A r \in Runs : Active(vrun[r]) /\ vrun[r].lease # "none" =>
    vrun[r].status = "running" /\ vrun[r].owner # "none"

\* Nothing is stored for a run that is not there yet, and only such a run is requested.
Unborn ==
  \A r \in Runs : /\ request[r] # {} => vrun[r].status = "none"
                  /\ vrun[r].status = "none" => outcome[r] = NoItems

\* What a poll has read still tells enough of the row: a queued row has not changed,
\* an expired lease was already expired, and a run out of attempts has not started.
PollSeen ==
  \A w \in Workers : \A r \in polled[w] :
    /\ vrun[r].status # "none"
    /\ vrun[r].status = "queued" =>
         seen[w][r].status = "queued" /\ seen[w][r].attempts = vrun[r].attempts
    /\ Active(vrun[r]) /\ vrun[r].lease = "expired" => Recovering(seen[w][r])
    /\ NextAttempt(seen[w][r]) > MaxAttempts =>
         \/ Recovering(seen[w][r])
         \/ vrun[r].status \in {"queued", "failed"} /\ vrun[r].attempts = MaxAttempts

\* While the only worker polls, what it has read stays active.
SolePoll ==
  (\A v, w \in Workers : v = w) => \A w \in Workers : \A r \in polled[w] : Active(vrun[r])

Claims == /\ TypeOK /\ JobRuns /\ PollIdle /\ HeldRows /\ BatchApart
          /\ LeaseOwned /\ Unborn /\ PollSeen /\ SolePoll

\* How a step may treat the row of run r while the workers keep or drop it: leave
\* it, but for a renewal of its lease or its expiry out of sight of any poll ...
Quiet(r) ==
  /\ vrun'[r].status = vrun[r].status
  /\ vrun'[r].owner = vrun[r].owner
  /\ vrun'[r].attempts = vrun[r].attempts
  /\ \/ vrun'[r].lease = vrun[r].lease
     \/ vrun[r].lease # "none" /\ vrun'[r].lease = "live"
     \/ vrun[r].lease # "none" /\ vrun'[r].lease # "none" /\ ~Polling(r)
\* ... end it or give it back, by the worker that holds it ...
Released(r) ==
  /\ \E w \in Workers : Holds(w, r)
  /\ \A w \in Workers : job'[w].run # r /\ r \notin batch'[w]
  /\ \/ Settled(vrun'[r])
     \/ vrun'[r].status = "running" /\ vrun'[r].owner = "none" /\ vrun'[r].lease = "none"
\* ... or queue it anew when no worker knows of it.
Unstarted(r) ==
  /\ ~Polling(r)
  /\ \A w \in Workers : ~Holds(w, r)
  /\ vrun'[r].status = "queued" /\ vrun'[r].lease = "none"
  /\ request'[r] = {}

\* Such a step keeps the invariant if it gives no worker anything new.
LEMMA SteadyStep ==
  ASSUME Claims, TypeOK', JobRuns', BatchApart',
         \A w \in Workers : polled'[w] # {} => batch'[w] = {} /\ job'[w].pc = "free",
         \A w \in Workers : \A r \in polled'[w] : r \in polled[w] /\ seen'[w][r] = seen[w][r],
         \A w \in Workers, r \in Runs : job'[w].run = r \/ r \in batch'[w] => Holds(w, r),
         \A r \in Runs : Quiet(r) \/ Released(r) \/ Unstarted(r),
         \A r \in Runs : vrun'[r].status = "none" => outcome'[r] = outcome[r],
         \A r \in Runs : vrun[r].status # "none" => request'[r] = request[r]
  PROVE  Claims'
<1>1. PollIdle'
  BY DEF PollIdle
<1>2. HeldRows'
  <2>. SUFFICES ASSUME NEW w \in Workers, NEW r \in Runs, job'[w].run = r \/ r \in batch'[w]
                PROVE  vrun'[r].status = "running" /\ vrun'[r].owner = w /\ vrun'[r].lease # "none"
    BY DEF HeldRows, Holds
  <2>1. Holds(w, r)
    OBVIOUS
  <2>2. vrun[r].status = "running" /\ vrun[r].owner = w /\ vrun[r].lease # "none"
    BY <2>1 DEF Claims, HeldRows
  <2>3. Quiet(r)
    BY <2>1 DEF Released, Unstarted
  <2>. QED
    BY <2>2, <2>3 DEF Quiet
<1>3. LeaseOwned'
  BY DEF LeaseOwned, Claims, Quiet, Released, Unstarted, Active, Settled, ActiveStatus, SettledStatus
<1>4. Unborn'
  <2>. SUFFICES ASSUME NEW r \in Runs
                PROVE  /\ request'[r] # {} => vrun'[r].status = "none"
                       /\ vrun'[r].status = "none" => outcome'[r] = NoItems
    BY DEF Unborn
  <2>1. CASE Quiet(r)
    BY <2>1 DEF Quiet, Claims, Unborn
  <2>2. CASE Released(r)
    <3>1. vrun[r].status = "running"
      BY <2>2 DEF Released, Claims, HeldRows
    <3>2. request'[r] = {}
      BY <3>1 DEF Claims, Unborn
    <3>. QED
      BY <2>2, <3>2 DEF Released, Settled, SettledStatus
  <2>3. CASE Unstarted(r)
    BY <2>3 DEF Unstarted
  <2>. QED
    BY <2>1, <2>2, <2>3
<1>5. PollSeen'
  <2>. SUFFICES ASSUME NEW w \in Workers, NEW r \in polled'[w]
                PROVE  /\ vrun'[r].status # "none"
                       /\ vrun'[r].status = "queued" =>
                            seen'[w][r].status = "queued" /\ seen'[w][r].attempts = vrun'[r].attempts
                       /\ Active(vrun'[r]) /\ vrun'[r].lease = "expired" => Recovering(seen'[w][r])
                       /\ NextAttempt(seen'[w][r]) > MaxAttempts =>
                            \/ Recovering(seen'[w][r])
                            \/ /\ vrun'[r].status \in {"queued", "failed"}
                               /\ vrun'[r].attempts = MaxAttempts
    BY DEF PollSeen
  <2>1. r \in polled[w] /\ r \in Runs /\ seen'[w][r] = seen[w][r] /\ Polling(r)
    BY DEF Claims, TypeOK, Polling
  <2>2. CASE Quiet(r)
    <3>1. vrun'[r].lease = "expired" => vrun[r].lease = "expired"
      BY <2>1, <2>2 DEF Quiet
    <3>. QED
      BY <2>1, <2>2, <3>1 DEF Quiet, Claims, PollSeen, Active
  <2>3. CASE Released(r)
    <3>1. vrun[r].status = "running"
      BY <2>1, <2>3 DEF Released, Claims, HeldRows
    <3>2. NextAttempt(seen[w][r]) > MaxAttempts => Recovering(seen[w][r])
      BY <2>1, <3>1 DEF Claims, PollSeen
    <3>3. vrun'[r].status \notin {"none", "queued"}
      BY <2>3 DEF Released, Settled, SettledStatus
    <3>4. ~(Active(vrun'[r]) /\ vrun'[r].lease = "expired")
      BY <2>3 DEF Released, Settled, Active, SettledStatus, ActiveStatus
    <3>. QED
      BY <2>1, <3>2, <3>3, <3>4
  <2>. QED
    BY <2>1, <2>2, <2>3 DEF Unstarted
<1>6. SolePoll'
  <2>. SUFFICES ASSUME \A v, w \in Workers : v = w, NEW w \in Workers, NEW r \in polled'[w]
                PROVE  Active(vrun'[r])
    BY DEF SolePoll
  <2>1. r \in polled[w] /\ r \in Runs /\ Active(vrun[r])
    BY DEF Claims, TypeOK, SolePoll
  <2>2. batch[w] = {} /\ job[w].run = "none"
    BY <2>1 DEF Claims, PollIdle, JobRuns
  <2>3. ~Holds(w, r)
    BY <2>1, <2>2 DEF Holds
  <2>4. Quiet(r)
    BY <2>1, <2>3 DEF Released, Unstarted, Polling
  <2>. QED
    BY <2>1, <2>4 DEF Quiet, Active
<1>. QED
  BY <1>1, <1>2, <1>3, <1>4, <1>5, <1>6 DEF Claims

\* At the start no worker has a run and there is none.
LEMMA ClaimsInit == Init => Claims
<1>. SUFFICES ASSUME Init PROVE Claims
  OBVIOUS
<1>1. TypeOK /\ JobRuns
  BY TypeInit
<1>2. PollIdle /\ BatchApart /\ PollSeen /\ SolePoll
  BY DEF Init, PollIdle, BatchApart, PollSeen, SolePoll
<1>3. HeldRows
  BY DEF Init, HeldRows, Holds, FreeJob
<1>4. LeaseOwned /\ Unborn
  BY DEF Init, LeaseOwned, Unborn, BlankRow, Active, ActiveStatus
<1>. QED
  BY <1>1, <1>2, <1>3, <1>4 DEF Claims

\* A step of a user, of time or of a document run: what the workers hold stays.
LEMMA OutsideStep ==
  ASSUME Claims, TypeOK', JobRuns', UNCHANGED workers,
         \A r \in Runs : Quiet(r) \/ Unstarted(r),
         \A r \in Runs : vrun'[r].status = "none" => outcome'[r] = outcome[r],
         \A r \in Runs : vrun[r].status # "none" => request'[r] = request[r]
  PROVE  Claims'
<1>1. polled' = polled /\ seen' = seen /\ batch' = batch /\ job' = job
  BY DEF workers
<1>2. BatchApart'
  BY <1>1 DEF Claims, BatchApart
<1>3. \A w \in Workers : polled'[w] # {} => batch'[w] = {} /\ job'[w].pc = "free"
  BY <1>1 DEF Claims, PollIdle
<1>4. \A w \in Workers, r \in Runs : job'[w].run = r \/ r \in batch'[w] => Holds(w, r)
  BY <1>1 DEF Holds
<1>. QED
  BY <1>1, <1>2, <1>3, <1>4, SteadyStep

\* A step of a worker that is not polling: it drops runs or goes on with them.
LEMMA InsideStep ==
  ASSUME Claims, TypeOK', JobRuns', NEW w \in Workers, polled[w] = {},
         UNCHANGED <<request, polled, seen>>,
         \A v \in Workers : v # w => batch'[v] = batch[v] /\ job'[v] = job[v],
         batch'[w] \subseteq batch[w],
         job'[w].run \in {"none", job[w].run} \/ job'[w].run \in batch[w] \ batch'[w],
         \A r \in Runs : Quiet(r) \/ Released(r),
         \A r \in Runs : vrun'[r].status = "none" => outcome'[r] = outcome[r]
  PROVE  Claims'
<1>1. BatchApart'
  <2>. SUFFICES ASSUME NEW v \in Workers PROVE job'[v].run \notin batch'[v]
    BY DEF BatchApart
  <2>1. job[v].run \notin batch[v]
    BY DEF Claims, BatchApart
  <2>2. "none" \notin batch'[v]
    BY DEF TypeOK
  <2>. QED
    BY <2>1, <2>2
<1>2. \A v \in Workers : polled'[v] # {} => batch'[v] = {} /\ job'[v].pc = "free"
  BY DEF Claims, PollIdle
<1>3. \A v \in Workers, r \in Runs : job'[v].run = r \/ r \in batch'[v] => Holds(v, r)
  BY DEF Holds
<1>. QED
  BY <1>1, <1>2, <1>3, SteadyStep

\* The row and the items of a run are touched only if it is there.
LEMMA HeldBorn ==
  ASSUME Claims, NEW w \in Workers, NEW r \in Runs, Holds(w, r)
  PROVE  /\ vrun[r].status = "running" /\ vrun[r].lease # "none" /\ vrun[r].owner = w
         /\ polled[w] = {}
BY DEF Claims, HeldRows, PollIdle, Holds, JobRuns

\* finish_verification_run, with the release after it, ends a run or gives it back.
LEMMA FinishedReleases ==
  ASSUME NEW row \in RunRow, row.status = "running", NEW items
  PROVE  LET done == Finished(row, items)
         IN  \/ done.status \in SettledStatus
             \/ done.status = "running" /\ done.owner = "none" /\ done.lease = "none"
BY DEF Finished, RunRow, SettledStatus

\* Every step keeps the invariant: the worker that claims a run is the only one to hold
\* it, since a claimed run has a lease, and a poll that finds it expired raises or is
\* the poll of the only worker.
LEMMA ClaimsNext == Deployment /\ Claims /\ [Next]_vars => Claims'
<1>. SUFFICES ASSUME Deployment, Claims, [Next]_vars
              PROVE  Claims'
  OBVIOUS
<1>t. TypeOK /\ JobRuns /\ TypeOK' /\ JobRuns'
  BY TypeNext DEF Claims
<1>q. \A r \in Runs : vrun'[r] = vrun[r] => Quiet(r)
  BY DEF Quiet
<1>1. ASSUME NEW r \in Runs, NEW fs \in SUBSET Findings, Submit(r, fs)
      PROVE  Claims'
  <2>1. \A q \in Runs : vrun[q].status # "none" => request'[q] = request[q]
    BY <1>1, <1>t DEF Submit, TypeOK
  <2>. QED
    BY <1>1, <1>q, <1>t, <2>1, OutsideStep DEF Submit, tables
<1>2. ASSUME NEW r \in Runs, Insert(r)
      PROVE  Claims'
  <2>1. vrun[r].status = "none"
    BY <1>2 DEF Insert, Claims, Unborn
  <2>2. ~Polling(r) /\ \A w \in Workers : ~Holds(w, r)
    BY <2>1 DEF Claims, PollSeen, HeldRows, Polling
  <2>3. /\ vrun'[r].status = "queued" /\ vrun'[r].lease = "none"
        /\ request'[r] = {}
    BY <1>2, <1>t DEF Insert, TypeOK, BlankRow
  <2>4. Unstarted(r)
    BY <2>2, <2>3 DEF Unstarted
  <2>5. \A q \in Runs \ {r} : /\ vrun'[q] = vrun[q] /\ outcome'[q] = outcome[q]
                              /\ request'[q] = request[q]
    BY <1>2, <1>t DEF Insert, TypeOK
  <2>6. UNCHANGED workers
    BY <1>2 DEF Insert
  <2>7. \A q \in Runs : Quiet(q) \/ Unstarted(q)
    BY <1>q, <2>4, <2>5
  <2>8. \A q \in Runs : vrun'[q].status = "none" => outcome'[q] = outcome[q]
    BY <2>3, <2>5
  <2>9. \A q \in Runs : vrun[q].status # "none" => request'[q] = request[q]
    BY <2>1, <2>5
  <2>. QED
    BY <1>t, <2>6, <2>7, <2>8, <2>9, OutsideStep
<1>3. ASSUME NEW r \in Runs, Stop(r)
      PROVE  Claims'
  <2>1. \A q \in Runs : Quiet(q)
    BY <1>3, <1>t DEF Stop, Quiet, TypeOK, RunRow
  <2>. QED
    BY <1>3, <1>t, <2>1, OutsideStep DEF Stop
<1>4. ASSUME NEW r \in Runs, Resume(r)
      PROVE  Claims'
  <2>1. vrun[r].status \in {"cancelled", "failed", "partial"}
    BY <1>4 DEF Resume
  <2>2. \A w \in Workers : ~Holds(w, r)
    BY <2>1 DEF Claims, HeldRows
  <2>3. request[r] = {}
    BY <2>1 DEF Claims, Unborn
  <2>4. vrun'[r].status = "queued" /\ vrun'[r].lease = "none"
    BY <1>4, <1>t DEF Resume, TypeOK, RunRow
  <2>5. Unstarted(r)
    BY <1>4, <2>2, <2>3, <2>4 DEF Unstarted, Resume
  <2>6. \A q \in Runs \ {r} : vrun'[q] = vrun[q] /\ outcome'[q] = outcome[q]
    BY <1>4, <1>t DEF Resume, TypeOK
  <2>7. \A q \in Runs : Quiet(q) \/ Unstarted(q)
    BY <1>q, <2>5, <2>6
  <2>8. \A q \in Runs : vrun'[q].status = "none" => outcome'[q] = outcome[q]
    BY <2>4, <2>6
  <2>9. UNCHANGED workers /\ UNCHANGED request
    BY <1>4 DEF Resume
  <2>. QED
    BY <1>t, <2>7, <2>8, <2>9, OutsideStep
<1>5. ASSUME NEW f \in Findings, Reopen(f)
      PROVE  Claims'
  BY <1>5, <1>q, <1>t, OutsideStep DEF Reopen
<1>6. ASSUME NEW r \in Runs, DocumentRunEnds(r)
      PROVE  Claims'
  BY <1>6, <1>q, <1>t, OutsideStep DEF DocumentRunEnds
<1>7. ASSUME NEW r \in Runs, LeaseExpires(r)
      PROVE  Claims'
  <2>1. \A q \in Runs : Quiet(q)
    BY <1>7, <1>t DEF LeaseExpires, Quiet, TypeOK, RunRow
  <2>. QED
    BY <1>7, <1>t, <2>1, OutsideStep DEF LeaseExpires
<1>8. ASSUME NEW w \in Workers, PollRead(w)
      PROVE  Claims'
  <2>. DEFINE due == {r \in Runs : Claimable(vrun[r])}
  <2>1. /\ polled' = [polled EXCEPT ![w] = due]
        /\ seen' = [seen EXCEPT ![w] = [r \in Runs |-> IF r \in due THEN vrun[r] ELSE BlankRow]]
        /\ vrun' = vrun /\ outcome' = outcome /\ request' = request
        /\ batch' = batch /\ job' = job
        /\ batch[w] = {} /\ job[w].pc = "free"
    BY <1>8 DEF PollRead, tables
  <2>2. HeldRows' /\ BatchApart' /\ LeaseOwned' /\ Unborn'
    BY <2>1 DEF Claims, HeldRows, Holds, BatchApart, LeaseOwned, Unborn
  <2>3. PollIdle'
    BY <1>t, <2>1 DEF Claims, PollIdle, TypeOK
  <2>4. ASSUME NEW v \in Workers, NEW r \in polled'[v]
        PROVE  /\ vrun[r].status # "none"
               /\ vrun[r].status = "queued" =>
                    seen'[v][r].status = "queued" /\ seen'[v][r].attempts = vrun[r].attempts
               /\ Active(vrun[r]) /\ vrun[r].lease = "expired" => Recovering(seen'[v][r])
               /\ NextAttempt(seen'[v][r]) > MaxAttempts =>
                    \/ Recovering(seen'[v][r])
                    \/ vrun[r].status \in {"queued", "failed"} /\ vrun[r].attempts = MaxAttempts
    <3>1. CASE v # w
      <4>1. r \in polled[v] /\ seen'[v] = seen[v]
        BY <1>t, <2>1, <2>4, <3>1 DEF TypeOK
      <4>. QED
        BY <4>1 DEF Claims, PollSeen
    <3>2. CASE v = w
      <4>1. r \in Runs /\ Claimable(vrun[r]) /\ seen'[v][r] = vrun[r]
        BY <1>t, <2>1, <2>4, <3>2 DEF TypeOK
      <4>2. vrun[r] \in RunRow
        BY <1>t, <4>1 DEF TypeOK
      <4>3. Active(vrun[r]) /\ vrun[r].lease = "expired" => Recovering(vrun[r])
        BY <4>1 DEF Claims, LeaseOwned, Recovering
      <4>4. vrun[r].attempts \in 0 .. MaxAttempts
        BY <4>2 DEF RunRow
      <4>5. NextAttempt(vrun[r]) > MaxAttempts /\ ~Recovering(vrun[r]) =>
              vrun[r].status = "queued" /\ vrun[r].attempts = MaxAttempts
        BY <4>4 DEF NextAttempt
      <4>6. vrun[r].status # "none"
        BY <4>1 DEF Claimable, Active, ActiveStatus
      <4>. QED
        BY <4>1, <4>3, <4>5, <4>6
    <3>. QED
      BY <3>1, <3>2
  <2>5. PollSeen'
    BY <2>1, <2>4 DEF PollSeen
  <2>6. SolePoll'
    BY <1>t, <2>1 DEF SolePoll, Claimable, TypeOK
  <2>. QED
    BY <1>t, <2>2, <2>3, <2>5, <2>6 DEF Claims
<1>9. ASSUME NEW w \in Workers, PollCommit(w)
      PROVE  Claims'
  <2>1. /\ polled' = [polled EXCEPT ![w] = {}]
        /\ seen' = [seen EXCEPT ![w] = [r \in Runs |-> BlankRow]]
        /\ batch' = [batch EXCEPT ![w] = Claimed(w)]
        /\ job' = job /\ request' = request /\ polled[w] # {}
    BY <1>9 DEF PollCommit, PollEnds
  <2>2. AwareTimes => \A r \in polled[w] : ~Recovering(seen[w][r])
    BY <1>9 DEF PollCommit, PollRaises
  <2>3. batch[w] = {} /\ job[w].pc = "free" /\ job[w].run = "none"
    BY <1>t, <2>1 DEF Claims, PollIdle, JobRuns
  <2>4. \A v \in Workers : v # w => AwareTimes
    BY DEF Deployment
  <2>5. ASSUME NEW r \in Runs, r \in GivenUp(w)
        PROVE  /\ vrun'[r].status = "failed" /\ vrun'[r].attempts = vrun[r].attempts
               /\ AwareTimes => /\ vrun[r].status \in {"queued", "failed"}
                                /\ vrun[r].attempts = MaxAttempts
    <3>1. vrun'[r] = [vrun[r] EXCEPT !.status = "failed", !.envelope = FALSE]
      BY <1>9, <2>5 DEF PollCommit
    <3>2. vrun'[r].status = "failed" /\ vrun'[r].attempts = vrun[r].attempts
      BY <1>t, <3>1 DEF TypeOK, RunRow
    <3>3. r \in polled[w] /\ NextAttempt(seen[w][r]) > MaxAttempts
      BY <2>5 DEF GivenUp
    <3>. QED
      BY <2>2, <3>2, <3>3 DEF Claims, PollSeen
  <2>6. ASSUME NEW r \in Runs, r \in Claimed(w)
        PROVE  /\ vrun'[r].status = "running" /\ vrun'[r].owner = w /\ vrun'[r].lease = "live"
               /\ r \in polled[w] /\ r \notin GivenUp(w) /\ Claimable(vrun[r])
    <3>1. r \in polled[w] /\ r \notin GivenUp(w) /\ Claimable(vrun[r])
      BY <2>6 DEF Claimed
    <3>2. vrun'[r] = [vrun[r] EXCEPT !.status = "running", !.owner = w, !.lease = "live",
                                     !.attempts = NextAttempt(seen[w][r])]
      BY <1>9, <2>6, <3>1 DEF PollCommit
    <3>3. vrun[r] \in RunRow
      BY <1>t DEF TypeOK
    <3>. QED
      BY <3>1, <3>2, <3>3 DEF RunRow
  <2>7. ASSUME NEW r \in Runs, r \notin GivenUp(w), r \notin Claimed(w)
        PROVE  vrun'[r] = vrun[r]
    BY <1>9, <2>7 DEF PollCommit
  <2>8. ASSUME NEW v \in Workers, NEW r \in Runs, Holds(v, r)
        PROVE  vrun'[r] = vrun[r] /\ v # w /\ r \notin Claimed(w)
    <3>1. v # w
      BY <2>3, <2>8 DEF Holds
    <3>2. AwareTimes
      BY <2>4, <3>1
    <3>3. vrun[r].status = "running" /\ vrun[r].lease # "none"
      BY <2>8 DEF Claims, HeldRows
    <3>4. r \notin GivenUp(w)
      BY <2>5, <3>2, <3>3
    <3>5. r \notin Claimed(w)
      <4>. SUFFICES ASSUME r \in Claimed(w) PROVE FALSE
        OBVIOUS
      <4>1. r \in polled[w] /\ Claimable(vrun[r])
        BY <2>6
      <4>2. vrun[r].lease = "expired"
        BY <1>t, <3>3, <4>1 DEF Claimable, TypeOK, RunRow
      <4>3. Recovering(seen[w][r])
        BY <4>1, <4>2 DEF Claims, PollSeen, Claimable
      <4>. QED
        BY <2>2, <3>2, <4>1, <4>3
    <3>. QED
      BY <2>7, <3>1, <3>4, <3>5
  <2>9. ASSUME NEW v \in Workers, NEW r \in Runs, Holds(v, r)'
        PROVE  /\ vrun'[r].status = "running" /\ vrun'[r].owner = v /\ vrun'[r].lease # "none"
               /\ job'[v].run # r \/ r \notin batch'[v]
    <3>1. CASE Holds(v, r)
      <4>1. vrun'[r] = vrun[r] /\ v # w
        BY <2>8, <3>1
      <4>2. batch'[v] = batch[v] /\ job'[v] = job[v]
        BY <1>t, <2>1, <4>1 DEF TypeOK
      <4>. QED
        BY <3>1, <4>1, <4>2 DEF Claims, HeldRows, BatchApart
    <3>2. CASE ~Holds(v, r)
      <4>1. v = w /\ r \in Claimed(w)
        BY <1>t, <2>1, <2>9, <3>2 DEF Holds, TypeOK
      <4>. QED
        BY <1>t, <2>1, <2>3, <2>6, <4>1
    <3>. QED
      BY <3>1, <3>2
  <2>10. HeldRows'
    BY <2>9 DEF HeldRows
  <2>11. BatchApart'
    <3>. SUFFICES ASSUME NEW v \in Workers, job'[v].run \in batch'[v] PROVE FALSE
      BY DEF BatchApart
    <3>1. job'[v].run \in Runs
      BY <1>t DEF TypeOK
    <3>. QED
      BY <2>9, <3>1 DEF Holds
  <2>12. PollIdle'
    BY <1>t, <2>1 DEF Claims, PollIdle, TypeOK
  <2>13. LeaseOwned'
    <3>. SUFFICES ASSUME NEW r \in Runs, Active(vrun'[r]), vrun'[r].lease # "none"
                  PROVE  vrun'[r].status = "running" /\ vrun'[r].owner # "none"
      BY DEF LeaseOwned
    <3>1. r \notin GivenUp(w)
      BY <2>5 DEF Active, ActiveStatus
    <3>2. CASE r \in Claimed(w)
      BY <2>6, <3>2
    <3>3. CASE r \notin Claimed(w)
      BY <2>7, <3>1, <3>3 DEF Claims, LeaseOwned
    <3>. QED
      BY <3>2, <3>3
  <2>14. Unborn'
    <3>. SUFFICES ASSUME NEW r \in Runs
                  PROVE  /\ request[r] # {} => vrun'[r].status = "none"
                         /\ vrun'[r].status = "none" => outcome'[r] = NoItems
      BY <2>1 DEF Unborn
    <3>1. CASE r \in polled[w]
      <4>1. vrun[r].status # "none" /\ request[r] = {}
        BY <3>1 DEF Claims, PollSeen, Unborn
      <4>. QED
        BY <2>5, <2>6, <2>7, <4>1
    <3>2. CASE r \notin polled[w]
      <4>1. r \notin GivenUp(w) /\ r \notin Claimed(w)
        BY <3>2 DEF GivenUp, Claimed
      <4>2. outcome'[r] = Judged(outcome[r], Uniformly({}, "unable"))
        BY <1>9, <4>1 DEF PollCommit
      <4>3. outcome'[r] = outcome[r]
        <5>1. outcome[r] \in [Findings -> Outcome]
          BY <1>t DEF TypeOK, Items
        <5>. QED
          BY <4>2, <5>1 DEF Judged, Uniformly
      <4>. QED
        BY <2>7, <4>1, <4>3 DEF Claims, Unborn
    <3>. QED
      BY <3>1, <3>2
  <2>15. PollSeen'
    <3>. SUFFICES ASSUME NEW v \in Workers, NEW r \in polled'[v]
                  PROVE  /\ vrun'[r].status # "none"
                         /\ vrun'[r].status = "queued" =>
                              seen'[v][r].status = "queued" /\ seen'[v][r].attempts = vrun'[r].attempts
                         /\ Active(vrun'[r]) /\ vrun'[r].lease = "expired" => Recovering(seen'[v][r])
                         /\ NextAttempt(seen'[v][r]) > MaxAttempts =>
                              \/ Recovering(seen'[v][r])
                              \/ /\ vrun'[r].status \in {"queued", "failed"}
                                 /\ vrun'[r].attempts = MaxAttempts
      BY DEF PollSeen
    <3>1. v # w /\ r \in polled[v] /\ r \in Runs /\ seen'[v] = seen[v]
      BY <1>t, <2>1 DEF TypeOK
    <3>2. AwareTimes
      BY <2>4, <3>1
    <3>3. CASE r \in GivenUp(w)
      BY <2>5, <3>1, <3>2, <3>3 DEF Active, ActiveStatus
    <3>4. CASE r \in Claimed(w)
      <4>1. r \in polled[w] /\ r \notin GivenUp(w) /\ Claimable(vrun[r])
        BY <2>6, <3>1, <3>4
      <4>2. vrun[r].status = "queued" => vrun[r].attempts # MaxAttempts
        <5>. SUFFICES ASSUME vrun[r].status = "queued", vrun[r].attempts = MaxAttempts
                      PROVE  FALSE
          OBVIOUS
        <5>1. seen[w][r].status = "queued" /\ seen[w][r].attempts = MaxAttempts
          BY <4>1 DEF Claims, PollSeen
        <5>2. NextAttempt(seen[w][r]) > MaxAttempts
          BY <5>1 DEF NextAttempt
        <5>. QED
          BY <4>1, <5>2 DEF GivenUp
      <4>3. vrun[r].status # "failed"
        BY <4>1 DEF Claimable, Active, ActiveStatus
      <4>4. NextAttempt(seen[v][r]) > MaxAttempts => Recovering(seen[v][r])
        BY <3>1, <4>2, <4>3 DEF Claims, PollSeen
      <4>. QED
        BY <2>6, <3>1, <3>4, <4>4
    <3>5. CASE r \notin GivenUp(w) /\ r \notin Claimed(w)
      BY <2>7, <3>1, <3>5 DEF Claims, PollSeen
    <3>. QED
      BY <3>3, <3>4, <3>5
  <2>16. SolePoll'
    BY <1>t, <2>1 DEF SolePoll, TypeOK
  <2>. QED
    BY <1>t, <2>10, <2>11, <2>12, <2>13, <2>14, <2>15, <2>16 DEF Claims
<1>10. ASSUME NEW w \in Workers, PollFails(w)
       PROVE  Claims'
  <2>1. polled' = [polled EXCEPT ![w] = {}] /\ seen' = [seen EXCEPT ![w] = [r \in Runs |-> BlankRow]]
        /\ vrun' = vrun /\ outcome' = outcome /\ request' = request
        /\ batch' = batch /\ job' = job
    BY <1>10 DEF PollFails, PollEnds, tables
  <2>2. HeldRows' /\ BatchApart' /\ LeaseOwned' /\ Unborn'
    BY <2>1 DEF Claims, HeldRows, Holds, BatchApart, LeaseOwned, Unborn
  <2>3. \A v \in Workers : v # w => polled'[v] = polled[v] /\ seen'[v] = seen[v]
    BY <1>t, <2>1 DEF TypeOK
  <2>4. polled'[w] = {}
    BY <1>t, <2>1 DEF TypeOK
  <2>5. PollIdle'
    BY <2>1, <2>3, <2>4 DEF Claims, PollIdle
  <2>6. PollSeen'
    BY <2>1, <2>3, <2>4 DEF Claims, PollSeen
  <2>7. SolePoll'
    BY <2>1, <2>4 DEF SolePoll
  <2>. QED
    BY <1>t, <2>2, <2>5, <2>6, <2>7 DEF Claims
<1>11. ASSUME NEW w \in Workers, NEW r \in Runs,
              RunCancelled(w, r) \/ RunUndecryptable(w, r) \/ RunDocuments(w, r)
       PROVE  Claims'
  <2>1. /\ r \in batch[w] /\ batch' = [batch EXCEPT ![w] = @ \ {r}]
        /\ job' = job /\ request' = request /\ polled' = polled /\ seen' = seen
    BY <1>11 DEF RunCancelled, RunUndecryptable, RunDocuments, Begins
  <2>2. vrun[r].status = "running" /\ vrun[r].owner = w /\ polled[w] = {}
    BY <2>1, HeldBorn DEF Holds
  <2>3. \A q \in Runs \ {r} : vrun'[q] = vrun[q] /\ outcome'[q] = outcome[q]
    BY <1>11, <1>t DEF RunCancelled, RunUndecryptable, RunDocuments, Settle, TypeOK
  <2>4. \/ vrun'[r].status \in SettledStatus
        \/ vrun'[r].status = "running" /\ vrun'[r].owner = "none" /\ vrun'[r].lease = "none"
    <3>1. vrun[r] \in RunRow
      BY <1>t DEF TypeOK
    <3>2. CASE RunCancelled(w, r)
      BY <1>t, <3>1, <3>2 DEF RunCancelled, Settle, TypeOK, RunRow, SettledStatus
    <3>3. \A verdicts : Settle(r, verdicts, Finished(vrun[r], Judged(outcome[r], verdicts))) =>
            vrun'[r] = Finished(vrun[r], Judged(outcome[r], verdicts))
      BY <1>t DEF Settle, TypeOK
    <3>4. \A items : \/ Finished(vrun[r], items).status \in SettledStatus
                     \/ /\ Finished(vrun[r], items).status = "running"
                        /\ Finished(vrun[r], items).owner = "none"
                        /\ Finished(vrun[r], items).lease = "none"
      BY <2>2, <3>1, FinishedReleases
    <3>5. CASE RunUndecryptable(w, r)
      BY <3>3, <3>4, <3>5 DEF RunUndecryptable
    <3>6. CASE RunDocuments(w, r)
      BY <3>3, <3>4, <3>6 DEF RunDocuments
    <3>. QED
      BY <1>11, <3>2, <3>5, <3>6
  <2>5. \A v \in Workers : job'[v].run # r /\ r \notin batch'[v]
    <3>. SUFFICES ASSUME NEW v \in Workers PROVE job'[v].run # r /\ r \notin batch'[v]
      OBVIOUS
    <3>1. CASE v = w
      BY <1>t, <2>1, <3>1 DEF Claims, BatchApart, TypeOK
    <3>2. CASE v # w
      BY <1>t, <2>1, <2>2, <3>2 DEF Claims, HeldRows, Holds, TypeOK
    <3>. QED
      BY <3>1, <3>2
  <2>6. Released(r)
    BY <2>1, <2>4, <2>5 DEF Released, Holds, Settled
  <2>7. \A q \in Runs : Quiet(q) \/ Released(q)
    BY <1>q, <2>3, <2>6
  <2>8. \A q \in Runs : vrun'[q].status = "none" => outcome'[q] = outcome[q]
    BY <2>3, <2>4 DEF SettledStatus
  <2>9. /\ \A v \in Workers : v # w => batch'[v] = batch[v] /\ job'[v] = job[v]
        /\ batch'[w] \subseteq batch[w]
        /\ job'[w].run = job[w].run
    BY <1>t, <2>1 DEF TypeOK
  <2>. QED
    BY <1>t, <2>1, <2>2, <2>7, <2>8, <2>9, InsideStep
<1>12. ASSUME NEW w \in Workers, NEW r \in Runs, RunTechnical(w, r)
       PROVE  Claims'
  <2>1. /\ r \in batch[w] /\ batch' = [batch EXCEPT ![w] = @ \ {r}]
        /\ UNCHANGED <<vrun, outcome, request, polled, seen>>
    BY <1>12 DEF RunTechnical, Begins, tables
  <2>2. polled[w] = {}
    BY <2>1, HeldBorn DEF Holds
  <2>3. batch'[w] = batch[w] \ {r}
    BY <1>t, <2>1 DEF TypeOK
  <2>4. job'[w].run \in {"none", job[w].run} \/ job'[w].run = r
    BY <1>12, <1>t DEF RunTechnical, TypeOK, FreeJob
  <2>5. \A v \in Workers : v # w => batch'[v] = batch[v] /\ job'[v] = job[v]
    BY <1>12, <1>t, <2>1 DEF RunTechnical, TypeOK
  <2>. QED
    BY <1>q, <1>t, <2>1, <2>2, <2>3, <2>4, <2>5, InsideStep
<1>13. ASSUME NEW w \in Workers, job[w].pc # "free",
              GroupUntooled(w) \/ GroupBegin(w) \/ GroupScanned(w) \/ GroupJudged(w)
                \/ MonitorRenew(w)
       PROVE  Claims'
  <2>. DEFINE r == job[w].run
  <2>1. r \in Runs /\ Holds(w, r)
    BY <1>13, <1>t DEF JobRuns, TypeOK, Job, Holds
  <2>2. polled[w] = {} /\ vrun[r].status = "running" /\ vrun[r].lease # "none"
    BY <2>1, HeldBorn
  <2>3. /\ UNCHANGED <<request, polled, seen, batch>>
        /\ \A v \in Workers : v # w => job'[v] = job[v]
        /\ job'[w].run = r
        /\ \/ vrun' = vrun
           \/ vrun' = [vrun EXCEPT ![r] = [vrun[r] EXCEPT !.lease = "live"]]
    <3>1. job[w] \in Job
      BY <1>t DEF TypeOK
    <3>2. CASE GroupUntooled(w)
      BY <1>t, <3>1, <3>2 DEF GroupUntooled, JudgeItems, Settle, TypeOK, Job
    <3>3. CASE GroupBegin(w)
      BY <1>t, <3>1, <3>3 DEF GroupBegin, TypeOK, Job
    <3>4. CASE GroupScanned(w)
      BY <1>t, <3>1, <3>4 DEF GroupScanned, TypeOK, Job
    <3>5. CASE GroupJudged(w)
      BY <1>t, <3>1, <3>5 DEF GroupJudged, JudgeItems, Settle, TypeOK, Job
    <3>6. CASE MonitorRenew(w)
      BY <1>t, <3>1, <3>6 DEF MonitorRenew, TypeOK, Job
    <3>. QED
      BY <1>13, <3>2, <3>3, <3>4, <3>5, <3>6
  <2>4. \A q \in Runs : Quiet(q)
    <3>1. CASE vrun' = vrun
      BY <1>q, <3>1
    <3>2. CASE vrun' = [vrun EXCEPT ![r] = [vrun[r] EXCEPT !.lease = "live"]]
      <4>1. vrun[r] \in RunRow /\ vrun'[r] = [vrun[r] EXCEPT !.lease = "live"]
        BY <1>t, <2>1, <3>2 DEF TypeOK
      <4>2. Quiet(r)
        BY <2>2, <4>1 DEF Quiet, RunRow
      <4>3. \A q \in Runs \ {r} : vrun'[q] = vrun[q]
        BY <1>t, <3>2 DEF TypeOK
      <4>. QED
        BY <1>q, <4>2, <4>3
    <3>. QED
      BY <2>3, <3>1, <3>2
  <2>5. vrun'[r].status = "running"
    BY <2>1, <2>2, <2>4 DEF Quiet
  <2>6. \A q \in Runs : vrun'[q].status = "none" => outcome'[q] = outcome[q]
    <3>1. \A q \in Runs \ {r} : outcome'[q] = outcome[q]
      BY <1>13, <1>t DEF GroupUntooled, GroupBegin, GroupScanned, GroupJudged, MonitorRenew,
                         JudgeItems, Settle, TypeOK
    <3>. QED
      BY <2>5, <3>1
  <2>. QED
    BY <1>t, <2>2, <2>3, <2>4, <2>6, InsideStep
<1>14. ASSUME NEW w \in Workers, RunFinish(w)
       PROVE  Claims'
  <2>. DEFINE r == job[w].run
  <2>1. r \in Runs /\ Holds(w, r)
    BY <1>14, <1>t DEF RunFinish, JobRuns, TypeOK, Job, Holds
  <2>2. polled[w] = {} /\ vrun[r].status = "running" /\ vrun[r].owner = w
    BY <2>1, HeldBorn
  <2>3. /\ vrun' = [vrun EXCEPT ![r] = Finished(@, job[w].items)]
        /\ job' = [job EXCEPT ![w] = FreeJob]
        /\ UNCHANGED <<outcome, request, polled, seen, batch>>
    BY <1>14 DEF RunFinish
  <2>4. \/ vrun'[r].status \in SettledStatus
        \/ vrun'[r].status = "running" /\ vrun'[r].owner = "none" /\ vrun'[r].lease = "none"
    BY <1>t, <2>1, <2>2, <2>3, FinishedReleases DEF TypeOK
  <2>5. \A v \in Workers : job'[v].run # r /\ r \notin batch'[v]
    <3>. SUFFICES ASSUME NEW v \in Workers PROVE job'[v].run # r /\ r \notin batch'[v]
      OBVIOUS
    <3>1. CASE v = w
      BY <1>t, <2>1, <2>3, <3>1 DEF Claims, BatchApart, TypeOK, FreeJob
    <3>2. CASE v # w
      BY <1>t, <2>1, <2>2, <2>3, <3>2 DEF Claims, HeldRows, Holds, TypeOK
    <3>. QED
      BY <3>1, <3>2
  <2>6. Released(r)
    BY <2>1, <2>4, <2>5 DEF Released, Settled
  <2>7. \A q \in Runs : Quiet(q) \/ Released(q)
    BY <1>q, <1>t, <2>3, <2>6 DEF TypeOK
  <2>8. \A v \in Workers : v # w => job'[v] = job[v]
    BY <1>t, <2>3 DEF TypeOK
  <2>9. job'[w].run = "none"
    BY <1>t, <2>3 DEF TypeOK, FreeJob
  <2>. QED
    BY <1>t, <2>2, <2>3, <2>7, <2>8, <2>9, InsideStep
<1>15. ASSUME NEW w \in Workers, WorkerLost(w)
       PROVE  Claims'
  <2>1. /\ polled' = [polled EXCEPT ![w] = {}]
        /\ seen' = [seen EXCEPT ![w] = [r \in Runs |-> BlankRow]]
        /\ batch' = [batch EXCEPT ![w] = {}]
        /\ job' = [job EXCEPT ![w] = FreeJob]
        /\ UNCHANGED <<vrun, outcome, request>>
    BY <1>15 DEF WorkerLost, PollEnds, tables
  <2>2. \A v \in Workers : v # w => /\ polled'[v] = polled[v] /\ seen'[v] = seen[v]
                                    /\ batch'[v] = batch[v] /\ job'[v] = job[v]
    BY <1>t, <2>1 DEF TypeOK
  <2>3. polled'[w] = {} /\ batch'[w] = {} /\ job'[w].run = "none"
    BY <1>t, <2>1 DEF TypeOK, FreeJob
  <2>4. BatchApart'
    BY <2>2, <2>3 DEF Claims, BatchApart
  <2>5. \A v \in Workers : polled'[v] # {} => batch'[v] = {} /\ job'[v].pc = "free"
    BY <2>2, <2>3 DEF Claims, PollIdle
  <2>6. \A v \in Workers : \A r \in polled'[v] : r \in polled[v] /\ seen'[v][r] = seen[v][r]
    BY <2>2, <2>3
  <2>7. \A v \in Workers, r \in Runs : job'[v].run = r \/ r \in batch'[v] => Holds(v, r)
    BY <2>2, <2>3 DEF Holds
  <2>. QED
    BY <1>q, <1>t, <2>1, <2>4, <2>5, <2>6, <2>7, SteadyStep
<1>16. CASE UNCHANGED vars
  BY <1>16, <1>q, <1>t, OutsideStep DEF vars, workers
<1>17. \A w \in Workers : GroupUntooled(w) \/ GroupBegin(w) \/ GroupScanned(w)
                            \/ GroupJudged(w) \/ MonitorRenew(w) => job[w].pc # "free"
  BY DEF GroupUntooled, GroupBegin, GroupScanned, GroupJudged, MonitorRenew
<1>. QED
  BY <1>1, <1>2, <1>3, <1>4, <1>5, <1>6, <1>7, <1>8, <1>9, <1>10, <1>11, <1>12, <1>13,
     <1>14, <1>15, <1>16, <1>17 DEF Next, UserStep, RunStep

\* With PostgreSQL, or with one worker, a run is in the hands of one worker at most:
\* the claim under the lock of the row and the lease shut the others out.
THEOREM OneWorker ==
  ASSUME Deployment
  PROVE  Spec => []OneWorkerPerRun
<1>1. Init => Claims
  BY ClaimsInit
<1>2. Claims /\ [Next]_vars => Claims'
  BY ClaimsNext
<1>3. Claims => OneWorkerPerRun
  BY DEF Claims, HeldRows, OneWorkerPerRun
<1>. QED
  BY <1>1, <1>2, <1>3, PTL DEF Spec

-----------------------------------------------------------------------------
(* What a run says of its items.                                            *)

\* The items in the session of a worker are the rows.
CopyExact ==
  \A w \in Workers : job[w].pc # "free" => job[w].items = outcome[job[w].run]

Records == Claims /\ CopyExact /\ SettledIsCovered /\ ClosedByRetest

\* No verdict leaves the items as they are.
LEMMA NoVerdicts ==
  ASSUME NEW items \in Items, NEW v
  PROVE  Judged(items, Uniformly({}, v)) = items
BY DEF Judged, Uniformly, Items

\* The items of a run that finishes are what its new status says, and a run whose items
\* are all judged finishes.
LEMMA FinishedCovered ==
  ASSUME NEW row \in RunRow, row.status = "running", NEW items \in Items
  PROVE  SettledItems(Finished(row, items), items)
<1>1. CASE ItemsOf(items) # {} /\ UnjudgedItems(items) = {}
  <2>1. ASSUME NEW f \in ItemsOf(items)
        PROVE  items[f] \in Conclusive \cup Inconclusive
    BY <1>1, <2>1 DEF ItemsOf, UnjudgedItems, Items, Outcome
  <2>2. CASE \E f \in ItemsOf(items) : items[f] \in Inconclusive
    <3>1. Finished(row, items).status = "partial"
      BY <1>1, <2>2 DEF Finished, RunRow
    <3>. QED
      BY <1>1, <2>2, <3>1 DEF SettledItems, ItemsOf
  <2>3. CASE ~\E f \in ItemsOf(items) : items[f] \in Inconclusive
    <3>1. Finished(row, items).status = "completed"
      BY <1>1, <2>3 DEF Finished, RunRow
    <3>. QED
      BY <2>1, <2>3, <3>1 DEF SettledItems
  <2>. QED
    BY <2>2, <2>3
<1>2. CASE ~(ItemsOf(items) # {} /\ UnjudgedItems(items) = {})
  <2>1. Finished(row, items).status = "running"
    BY <1>2 DEF Finished, RunRow
  <2>. QED
    BY <2>1 DEF SettledItems
<1>. QED
  BY <1>1, <1>2

\* A verdict on the unjudged items leaves none.
LEMMA AllJudged ==
  ASSUME NEW items \in Items, NEW v \in Inconclusive
  PROVE  UnjudgedItems(Judged(items, Uniformly(UnjudgedItems(items), v))) = {}
BY DEF UnjudgedItems, Judged, Uniformly, Items, Inconclusive, Unjudged

\* Verdicts that overwrite no "fixed" item, or give an item a verdict that opens the
\* finding, close a finding only with a fixed item behind it.
LEMMA SettleClosed ==
  ASSUME TypeOK, ClosedByRetest, NEW r \in Runs, NEW verdicts \in Items, NEW row,
         Settle(r, verdicts, row),
         \A f \in Findings : \/ verdicts[f] \in {"none", "fixed", "still_present"} \cup Inconclusive
                             \/ outcome[r][f] # "fixed"
  PROVE  ClosedByRetest'
<1>. SUFFICES ASSUME NEW f \in Findings, finding'[f] = "fixed"
              PROVE  \E q \in Runs : outcome'[q][f] = "fixed"
  BY DEF ClosedByRetest
<1>1. outcome' = [outcome EXCEPT ![r] = Judged(outcome[r], verdicts)]
      /\ finding' = Verdict(finding, verdicts)
  BY DEF Settle
<1>2. outcome'[r][f] = IF verdicts[f] = "none" THEN outcome[r][f] ELSE verdicts[f]
  BY <1>1 DEF TypeOK, Judged
<1>3. CASE verdicts[f] = "fixed"
  BY <1>2, <1>3
<1>4. CASE verdicts[f] # "fixed"
  <2>1. verdicts[f] \notin {"still_present"} \cup Inconclusive /\ finding[f] = "fixed"
    BY <1>1, <1>4 DEF Verdict
  <2>2. PICK q \in Runs : outcome[q][f] = "fixed"
    BY <2>1 DEF ClosedByRetest
  <2>3. CASE q = r
    BY <1>2, <1>4, <2>1, <2>2, <2>3
  <2>4. CASE q # r
    BY <1>1, <2>2, <2>4 DEF TypeOK
  <2>. QED
    BY <2>3, <2>4
<1>. QED
  BY <1>3, <1>4

\* A run that is not finished owes its items nothing yet.
LEMMA ActiveCovered ==
  ASSUME NEW row, row.status \in {"none", "queued", "running"}, NEW items
  PROVE  SettledItems(row, items)
BY DEF SettledItems

\* What a run says of its items depends on its status alone.
LEMMA SameStatusCovered ==
  ASSUME NEW old, NEW row, row.status = old.status, NEW items, SettledItems(old, items)
  PROVE  SettledItems(row, items)
BY DEF SettledItems

\* A step that leaves the items and the findings alone, and the status of every run or
\* makes it active, keeps the records.
LEMMA PlainStep ==
  ASSUME Records, Claims', UNCHANGED <<outcome, finding>>,
         \A r \in Runs : \/ vrun'[r].status = vrun[r].status
                         \/ vrun'[r].status \in {"queued", "running"},
         \A w \in Workers : job'[w].pc # "free" =>
           \/ job[w].pc # "free" /\ job'[w].run = job[w].run /\ job'[w].items = job[w].items
           \/ job'[w].items = outcome[job'[w].run]
  PROVE  Records'
<1>1. CopyExact'
  BY DEF Records, CopyExact
<1>2. SettledIsCovered'
  <2>. SUFFICES ASSUME NEW r \in Runs PROVE SettledItems(vrun'[r], outcome[r])
    BY DEF SettledIsCovered
  <2>1. CASE vrun'[r].status = vrun[r].status
    BY <2>1, SameStatusCovered DEF Records, SettledIsCovered
  <2>2. CASE vrun'[r].status \in {"queued", "running"}
    BY <2>2, ActiveCovered
  <2>. QED
    BY <2>1, <2>2
<1>3. ClosedByRetest'
  BY DEF Records, ClosedByRetest
<1>. QED
  BY <1>1, <1>2, <1>3 DEF Records

\* A step that gives verdicts on a run held by a worker keeps the records.
LEMMA VerdictStep ==
  ASSUME Records, Claims', NEW w \in Workers, NEW r \in Runs, Holds(w, r),
         NEW verdicts \in Items, NEW row \in RunRow, Settle(r, verdicts, row),
         \A f \in Findings : \/ verdicts[f] \in {"none", "fixed", "still_present"} \cup Inconclusive
                             \/ outcome[r][f] # "fixed",
         SettledItems(row, Judged(outcome[r], verdicts)),
         \A v \in Workers : v # w => job'[v] = job[v],
         \/ job'[w].pc = "free"
         \/ job'[w].run = r /\ job'[w].items = Judged(outcome[r], verdicts)
  PROVE  Records'
<1>1. TypeOK /\ JobRuns
  BY DEF Records, Claims
<1>2. vrun' = [vrun EXCEPT ![r] = row] /\ outcome' = [outcome EXCEPT ![r] = Judged(@, verdicts)]
  BY DEF Settle
<1>3. CopyExact'
  <2>. SUFFICES ASSUME NEW v \in Workers, job'[v].pc # "free"
                PROVE  job'[v].items = outcome'[job'[v].run]
    BY DEF CopyExact
  <2>1. CASE v = w
    BY <1>1, <1>2, <2>1 DEF TypeOK
  <2>2. CASE v # w
    <3>1. job[v].run \in Runs /\ job[v].items = outcome[job[v].run]
      BY <1>1, <2>2 DEF Records, CopyExact, JobRuns, TypeOK, Job
    <3>2. job[v].run # r
      BY <2>2 DEF Records, Claims, HeldRows, Holds
    <3>. QED
      BY <1>1, <1>2, <2>2, <3>1, <3>2 DEF TypeOK
  <2>. QED
    BY <2>1, <2>2
<1>4. SettledIsCovered'
  BY <1>1, <1>2 DEF Records, SettledIsCovered, TypeOK
<1>5. ClosedByRetest'
  BY <1>1, SettleClosed DEF Records
<1>. QED
  BY <1>3, <1>4, <1>5 DEF Records

\* Settle with verdicts that change no finding and a given row.
LEMMA SettleOnly ==
  ASSUME TypeOK, NEW r \in Runs, NEW verdicts, NEW row,
         vrun' = [vrun EXCEPT ![r] = row], finding' = finding,
         outcome' = [outcome EXCEPT ![r] = Judged(@, verdicts)],
         \A f \in Findings : verdicts[f] \in {"none", "queued", "running", "new"}
  PROVE  Settle(r, verdicts, row)
<1>1. Verdict(finding, verdicts) = finding
  BY DEF Verdict, TypeOK, Inconclusive
<1>. QED
  BY <1>1 DEF Settle

\* Every step keeps the records.
LEMMA RecordsNext == Deployment /\ Records /\ [Next]_vars => Records'
<1>. SUFFICES ASSUME Deployment, Records, [Next]_vars
              PROVE  Records'
  OBVIOUS
<1>c. Claims /\ Claims'
  BY ClaimsNext DEF Records
<1>t. TypeOK /\ JobRuns /\ TypeOK' /\ JobRuns'
  BY <1>c DEF Claims
<1>u. \A fs, v : v \in Outcome => Uniformly(fs, v) \in Items
  BY UniformlyType
<1>o. {"queued", "running", "unable", "cancelled"} \subseteq Outcome
  BY DEF Outcome, Unjudged, Inconclusive
<1>1. ASSUME NEW r \in Runs, NEW fs \in SUBSET Findings, Submit(r, fs)
      PROVE  Records'
  BY <1>1, <1>c, PlainStep DEF Submit, tables, workers
<1>2. ASSUME NEW r \in Runs, Insert(r) \/ Resume(r)
      PROVE  Records'
  <2>1. /\ vrun[r].status \notin {"queued", "running"}
        /\ vrun'[r].status = "queued"
        /\ \A f \in Findings : outcome[r][f] = "fixed" => outcome'[r][f] = "fixed"
        /\ \A q \in Runs \ {r} : vrun'[q] = vrun[q] /\ outcome'[q] = outcome[q]
        /\ finding' = finding /\ job' = job
    <3>1. CASE Insert(r)
      <4>1. vrun[r].status = "none" /\ outcome[r] = NoItems
        BY <1>c, <3>1 DEF Insert, Claims, Unborn
      <4>. QED
        BY <1>t, <3>1, <4>1 DEF Insert, workers, TypeOK, BlankRow, NoItems
    <3>2. CASE Resume(r)
      BY <1>t, <3>2 DEF Resume, workers, TypeOK, RunRow, Judged, Uniformly, Inconclusive
    <3>. QED
      BY <1>2, <3>1, <3>2
  <2>2. CopyExact'
    <3>1. \A w \in Workers : job[w].pc # "free" => job[w].run \in Runs /\ Holds(w, job[w].run)
      BY <1>t DEF JobRuns, TypeOK, Job, Holds
    <3>2. \A w \in Workers : job[w].pc # "free" => job[w].run # r
      BY <1>c, <2>1, <3>1 DEF Claims, HeldRows
    <3>. QED
      BY <2>1, <3>1, <3>2 DEF Records, CopyExact
  <2>3. SettledIsCovered'
    <3>. SUFFICES ASSUME NEW q \in Runs PROVE SettledItems(vrun'[q], outcome'[q])
      BY DEF SettledIsCovered
    <3>1. CASE q = r
      BY <2>1, <3>1, ActiveCovered
    <3>2. CASE q # r
      BY <2>1, <3>2 DEF Records, SettledIsCovered
    <3>. QED
      BY <3>1, <3>2
  <2>4. ClosedByRetest'
    BY <2>1 DEF Records, ClosedByRetest
  <2>. QED
    BY <1>c, <2>2, <2>3, <2>4 DEF Records
<1>3. ASSUME NEW r \in Runs, Stop(r) \/ LeaseExpires(r)
      PROVE  Records'
  <2>1. \A q \in Runs : vrun'[q].status = vrun[q].status
    <3>. SUFFICES ASSUME NEW q \in Runs PROVE vrun'[q].status = vrun[q].status
      OBVIOUS
    <3>1. vrun[q] \in RunRow
      BY <1>t DEF TypeOK
    <3>2. vrun'[q] \in {vrun[q], [vrun[q] EXCEPT !.cancel = TRUE],
                       [vrun[q] EXCEPT !.lease = "expired"]}
      BY <1>3, <1>t DEF Stop, LeaseExpires, TypeOK
    <3>. QED
      BY <3>1, <3>2, RowStatus
  <2>. QED
    BY <1>3, <1>c, <2>1, PlainStep DEF Stop, LeaseExpires, workers
<1>4. ASSUME NEW f \in Findings, Reopen(f)
      PROVE  Records'
  <2>1. \A g \in Findings : finding'[g] = "fixed" => finding[g] = "fixed"
    BY <1>4, <1>t DEF Reopen, TypeOK
  <2>. QED
    BY <1>4, <1>c, <2>1 DEF Reopen, workers, Records, CopyExact, SettledIsCovered, ClosedByRetest
<1>5. ASSUME NEW r \in Runs, DocumentRunEnds(r)
      PROVE  Records'
  BY <1>5, <1>c, PlainStep DEF DocumentRunEnds, workers
<1>6. ASSUME NEW w \in Workers, PollRead(w) \/ PollFails(w)
      PROVE  Records'
  BY <1>6, <1>c, PlainStep DEF PollRead, PollFails, tables
<1>7. ASSUME NEW w \in Workers, PollCommit(w)
      PROVE  Records'
  <2>. DEFINE lost == [r \in Runs |-> IF r \in GivenUp(w) THEN UnjudgedItems(outcome[r]) ELSE {}]
  <2>1. /\ outcome' = [r \in Runs |-> Judged(outcome[r], Uniformly(lost[r], "unable"))]
        /\ finding' = Verdict(finding, Uniformly(UNION {lost[r] : r \in Runs}, "unable"))
        /\ job' = job
    BY <1>7 DEF PollCommit
  <2>2. \A r \in Runs : r \in GivenUp(w) => vrun'[r].status = "failed"
    <3>. SUFFICES ASSUME NEW r \in Runs, r \in GivenUp(w) PROVE vrun'[r].status = "failed"
      OBVIOUS
    <3>1. vrun'[r] = [vrun[r] EXCEPT !.status = "failed", !.envelope = FALSE]
      BY <1>7 DEF PollCommit
    <3>2. vrun[r] \in RunRow
      BY <1>t DEF TypeOK
    <3>. QED
      BY <3>1, <3>2, RowStatus
  <2>3. \A r \in Runs \ GivenUp(w) : vrun'[r].status \in {vrun[r].status, "running"}
    <3>. SUFFICES ASSUME NEW r \in Runs, r \notin GivenUp(w)
                  PROVE  vrun'[r].status \in {vrun[r].status, "running"}
      OBVIOUS
    <3>1. CASE r \in Claimed(w)
      <4>1. vrun'[r] = [vrun[r] EXCEPT !.status = "running", !.owner = w, !.lease = "live",
                                       !.attempts = NextAttempt(seen[w][r])]
        BY <1>7, <3>1 DEF PollCommit
      <4>2. vrun[r] \in RunRow
        BY <1>t DEF TypeOK
      <4>. QED
        BY <4>1, <4>2, RowStatus
    <3>2. CASE r \notin Claimed(w)
      BY <1>7, <3>2 DEF PollCommit
    <3>. QED
      BY <3>1, <3>2
  <2>4. \A r \in Runs \ GivenUp(w) : outcome'[r] = outcome[r]
    <3>1. \A r \in Runs : outcome[r] \in Items
      BY <1>t DEF TypeOK
    <3>. QED
      BY <2>1, <3>1, NoVerdicts
  <2>5. CopyExact'
    <3>. SUFFICES ASSUME NEW v \in Workers, job[v].pc # "free"
                  PROVE  job[v].items = outcome'[job[v].run]
      BY <2>1 DEF CopyExact
    <3>1. job[v].run \in Runs
      BY <1>t DEF JobRuns, TypeOK, Job
    <3>2. job[v].run \notin GivenUp(w)
      <4>1. \A r \in Runs : job'[v].run = r => vrun'[r].status = "running"
        BY <1>c DEF Claims, HeldRows, Holds
      <4>. QED
        BY <2>1, <2>2, <3>1, <4>1
    <3>. QED
      BY <2>4, <3>1, <3>2 DEF Records, CopyExact
  <2>6. SettledIsCovered'
    <3>. SUFFICES ASSUME NEW r \in Runs PROVE SettledItems(vrun'[r], outcome'[r])
      BY DEF SettledIsCovered
    <3>1. CASE r \in GivenUp(w)
      <4>1. outcome'[r] = Judged(outcome[r], Uniformly(UnjudgedItems(outcome[r]), "unable"))
        BY <2>1, <3>1
      <4>2. UnjudgedItems(outcome'[r]) = {}
        BY <1>t, <4>1, AllJudged DEF TypeOK, Inconclusive
      <4>. QED
        BY <2>2, <3>1, <4>2 DEF SettledItems
    <3>2. CASE r \notin GivenUp(w) /\ vrun'[r].status = vrun[r].status
      BY <2>4, <3>2, SameStatusCovered DEF Records, SettledIsCovered
    <3>3. CASE vrun'[r].status = "running"
      BY <3>3, ActiveCovered
    <3>. QED
      BY <2>3, <3>1, <3>2, <3>3
  <2>7. ClosedByRetest'
    <3>. SUFFICES ASSUME NEW f \in Findings, finding'[f] = "fixed"
                  PROVE  \E q \in Runs : outcome'[q][f] = "fixed"
      BY DEF ClosedByRetest
    <3>1. finding[f] = "fixed"
      BY <2>1 DEF Verdict, Uniformly, Inconclusive
    <3>2. PICK q \in Runs : outcome[q][f] = "fixed"
      BY <3>1 DEF Records, ClosedByRetest
    <3>3. f \notin lost[q]
      BY <3>2 DEF UnjudgedItems, Unjudged
    <3>4. outcome'[q][f] = "fixed"
      BY <2>1, <3>2, <3>3 DEF Judged, Uniformly
    <3>. QED
      BY <3>4
  <2>. QED
    BY <1>c, <2>5, <2>6, <2>7 DEF Records
<1>8. ASSUME NEW w \in Workers, NEW r \in Runs,
             RunCancelled(w, r) \/ RunUndecryptable(w, r) \/ RunDocuments(w, r)
      PROVE  Records'
  <2>1. r \in batch[w] /\ job' = job /\ job[w].pc = "free"
    BY <1>8 DEF RunCancelled, RunUndecryptable, RunDocuments, Begins
  <2>2. Holds(w, r) /\ vrun[r].status = "running" /\ vrun[r] \in RunRow /\ outcome[r] \in Items
    BY <1>c, <1>t, <2>1, HeldBorn DEF Holds, TypeOK
  <2>3. CASE RunCancelled(w, r)
    <3>. DEFINE verdicts == Uniformly(UnjudgedItems(outcome[r]), "cancelled")
                row == [vrun[r] EXCEPT !.status = "cancelled", !.envelope = FALSE]
    <3>1. verdicts \in Items /\ row \in RunRow /\ row.status = "cancelled"
      BY <1>u, <1>o, <2>2, RowEdits, RowStatus
    <3>2. Settle(r, verdicts, row)
      BY <2>3 DEF RunCancelled
    <3>3. \A f \in Findings : verdicts[f] \in {"none", "cancelled"}
      BY DEF Uniformly
    <3>4. UnjudgedItems(Judged(outcome[r], verdicts)) = {}
      BY <2>2, AllJudged DEF Inconclusive
    <3>5. SettledItems(row, Judged(outcome[r], verdicts))
      BY <3>1, <3>4 DEF SettledItems
    <3>. HIDE DEF verdicts, row
    <3>. QED
      BY <1>c, <2>1, <2>2, <3>1, <3>2, <3>3, <3>5, VerdictStep DEF Inconclusive
  <2>4. CASE RunUndecryptable(w, r)
    <3>. DEFINE verdicts == Uniformly(ItemsOf(outcome[r]), "unable")
                row == Finished(vrun[r], Judged(outcome[r], verdicts))
    <3>1. verdicts \in Items
      BY <1>u, <1>o
    <3>2. \A f \in Findings : verdicts[f] \in {"none", "unable"}
      BY DEF Uniformly
    <3>3. Settle(r, verdicts, row)
      BY <2>4 DEF RunUndecryptable
    <3>. HIDE DEF verdicts
    <3>4. row \in RunRow /\ SettledItems(row, Judged(outcome[r], verdicts))
      BY <2>2, <3>1, FinishedType, FinishedCovered, JudgedType
    <3>. HIDE DEF row
    <3>. QED
      BY <1>c, <2>1, <2>2, <3>1, <3>2, <3>3, <3>4, VerdictStep DEF Inconclusive
  <2>5. CASE RunDocuments(w, r)
    <3>. DEFINE due == {f \in UnjudgedItems(outcome[r]) : analysis[r][f] # "none"}
                verdicts == [f \in Findings |-> IF f \in due THEN analysis[r][f] ELSE "none"]
                row == Finished(vrun[r], Judged(outcome[r], verdicts))
    <3>1. verdicts \in Items
      BY <1>t DEF TypeOK, Items, Outcome
    <3>2. \A f \in Findings : verdicts[f] = "none" \/ outcome[r][f] # "fixed"
      BY DEF UnjudgedItems, Unjudged
    <3>3. Settle(r, verdicts, row)
      BY <2>5 DEF RunDocuments
    <3>. HIDE DEF verdicts
    <3>4. row \in RunRow /\ SettledItems(row, Judged(outcome[r], verdicts))
      BY <2>2, <3>1, FinishedType, FinishedCovered, JudgedType
    <3>. HIDE DEF row
    <3>. QED
      BY <1>c, <2>1, <2>2, <3>1, <3>2, <3>3, <3>4, VerdictStep
  <2>. QED
    BY <1>8, <2>3, <2>4, <2>5
<1>9. ASSUME NEW w \in Workers, NEW r \in Runs, RunTechnical(w, r)
      PROVE  Records'
  <2>1. \A v \in Workers : job'[v] = job[v] \/ job'[v].items = outcome[job'[v].run]
    BY <1>9, <1>t DEF RunTechnical, TypeOK, FreeJob
  <2>2. UNCHANGED <<vrun, outcome, finding>>
    BY <1>9 DEF RunTechnical, tables
  <2>. QED
    BY <1>c, <2>1, <2>2, PlainStep
<1>10. ASSUME NEW w \in Workers, NEW verdicts \in Items, NEW j \in Job, j.run = job[w].run,
              j.items = job[w].items, job[w].pc # "free",
              JudgeItems(w, verdicts, j),
              \A f \in Findings : \/ verdicts[f] \in {"none", "fixed", "still_present"} \cup Inconclusive
                                  \/ job[w].items[f] # "fixed"
       PROVE  Records'
  <2>. DEFINE r == job[w].run
              row == [vrun[r] EXCEPT !.lease = "live"]
  <2>1. r \in Runs /\ Holds(w, r) /\ job[w].items = outcome[r]
    BY <1>10, <1>t DEF Records, CopyExact, JobRuns, TypeOK, Job, Holds
  <2>2. vrun[r].status = "running" /\ vrun[r] \in RunRow
    <3>1. vrun[r] \in RunRow
      BY <1>t, <2>1 DEF TypeOK
    <3>. QED
      BY <1>c, <2>1, <3>1, HeldBorn
  <2>3. row \in RunRow /\ row.status = "running"
    <3>1. row \in RunRow
      BY <2>2, RowEdits
    <3>2. row.status = vrun[r].status
      BY <2>2, RowStatus
    <3>. QED
      BY <2>2, <3>1, <3>2
  <2>5. Settle(r, verdicts, row)
    BY <1>10 DEF JudgeItems
  <2>6. job' = [job EXCEPT ![w] = [j EXCEPT !.items = Judged(j.items, verdicts)]]
    BY <1>10 DEF JudgeItems
  <2>7. /\ \A v \in Workers : v # w => job'[v] = job[v]
        /\ job'[w].run = r /\ job'[w].items = Judged(outcome[r], verdicts)
    BY <1>10, <1>t, <2>1, <2>6 DEF TypeOK, Job
  <2>. HIDE DEF r, row
  <2>4. SettledItems(row, Judged(outcome[r], verdicts))
    BY <2>3, ActiveCovered
  <2>. QED
    BY <1>c, <1>10, <2>1, <2>3, <2>4, <2>5, <2>7, VerdictStep
<1>11. ASSUME NEW w \in Workers, GroupUntooled(w)
       PROVE  Records'
  <2>1. job[w] \in Job
    BY <1>t DEF TypeOK
  <2>2. \A fs : \A f \in Findings : Uniformly(fs, "unable")[f] \in {"none", "unable"}
    BY DEF Uniformly
  <2>3. "unable" \in Inconclusive
    BY DEF Inconclusive
  <2>. QED
    BY <1>10, <1>11, <1>u, <1>o, <2>1, <2>2, <2>3 DEF GroupUntooled
<1>12. ASSUME NEW w \in Workers, GroupBegin(w)
       PROVE  Records'
  <2>1. PICK g \in Tooled :
          /\ job[w].pc = "group"
          /\ outcome' = [outcome EXCEPT ![job[w].run] =
                           Judged(@, Uniformly(QueuedItems(job[w], g), "running"))]
          /\ job' = [job EXCEPT ![w].pc = "scan", ![w].group = g,
                       ![w].items = Judged(@, Uniformly(QueuedItems(job[w], g), "running"))]
    BY <1>12 DEF GroupBegin
  <2>. DEFINE r == job[w].run
              verdicts == Uniformly(QueuedItems(job[w], g), "running")
  <2>2. vrun' = vrun /\ finding' = finding
    BY <1>12 DEF GroupBegin
  <2>3. r \in Runs /\ Holds(w, r) /\ job[w].items = outcome[r] /\ job[w] \in Job
    BY <1>t, <2>1 DEF Records, CopyExact, JobRuns, TypeOK, Job, Holds
  <2>4. vrun[r] \in RunRow /\ vrun[r].status = "running" /\ vrun' = [vrun EXCEPT ![r] = vrun[r]]
    BY <1>c, <1>t, <2>2, <2>3, HeldBorn DEF TypeOK
  <2>5. verdicts \in Items /\ \A f \in Findings : \/ verdicts[f] = "none"
                                                  \/ verdicts[f] = "running" /\ outcome[r][f] # "fixed"
    BY <1>u, <1>o, <2>3 DEF Uniformly, QueuedItems
  <2>6. outcome' = [outcome EXCEPT ![r] = Judged(@, verdicts)]
    BY <2>1
  <2>7. /\ \A v \in Workers : v # w => job'[v] = job[v]
        /\ job'[w].run = r /\ job'[w].items = Judged(outcome[r], verdicts)
    BY <1>t, <2>1, <2>3 DEF TypeOK, Job
  <2>. HIDE DEF r, verdicts
  <2>8. Settle(r, verdicts, vrun[r])
    BY <1>t, <2>2, <2>3, <2>4, <2>5, <2>6, SettleOnly
  <2>9. SettledItems(vrun[r], Judged(outcome[r], verdicts))
    BY <2>4, ActiveCovered
  <2>. QED
    BY <1>c, <2>3, <2>4, <2>5, <2>7, <2>8, <2>9, VerdictStep
<1>13. ASSUME NEW w \in Workers, GroupScanned(w)
       PROVE  Records'
  <2>1. PICK present \in SUBSET Findings, complete \in BOOLEAN :
          /\ job[w].pc = "scan"
          /\ finding' = [f \in Findings |-> IF f \in present THEN "open" ELSE finding[f]]
          /\ job' = [job EXCEPT ![w].pc = "judge", ![w].present = present,
                                ![w].complete = complete]
    BY <1>13 DEF GroupScanned
  <2>2. vrun' = vrun /\ outcome' = outcome
    BY <1>13 DEF GroupScanned
  <2>3. \A v \in Workers : /\ job'[v].run = job[v].run /\ job'[v].items = job[v].items
                           /\ job'[v].pc # "free" => job[v].pc # "free"
    BY <1>t, <2>1 DEF TypeOK, Job
  <2>4. CopyExact'
    BY <2>2, <2>3 DEF Records, CopyExact
  <2>5. ClosedByRetest'
    BY <2>1, <2>2 DEF Records, ClosedByRetest
  <2>. QED
    BY <1>c, <2>2, <2>4, <2>5 DEF Records, SettledIsCovered
<1>14. ASSUME NEW w \in Workers, GroupJudged(w)
       PROVE  Records'
  <2>. DEFINE j == [job[w] EXCEPT !.pc = "group", !.group = "none", !.present = {},
                                  !.complete = FALSE]
  <2>1. job[w] \in Job /\ job[w].pc = "judge"
    BY <1>14, <1>t DEF GroupJudged, TypeOK
  <2>2. j \in Job /\ j.run = job[w].run /\ j.items = job[w].items
    <3>1. j \in Job
      BY <2>1, JobEdits
    <3>. QED
      BY <2>1, <3>1 DEF Job
  <2>. HIDE DEF j
  <2>3. JudgeItems(w, ScanVerdicts(job[w]), j)
    BY <1>14 DEF GroupJudged, j
  <2>4. \A f \in Findings :
          \/ ScanVerdicts(job[w])[f] \in {"none", "fixed", "still_present"} \cup Inconclusive
          \/ job[w].items[f] # "fixed"
    BY DEF ScanVerdicts, Inconclusive
  <2>. QED
    BY <1>10, <2>1, <2>2, <2>3, <2>4, ScanVerdictsType
<1>15. ASSUME NEW w \in Workers, RunFinish(w)
       PROVE  Records'
  <2>. DEFINE r == job[w].run
              verdicts == Uniformly({}, "unable")
              row == Finished(vrun[r], job[w].items)
  <2>1. r \in Runs /\ Holds(w, r) /\ job[w].items = outcome[r] /\ outcome[r] \in Items
    BY <1>15, <1>t DEF RunFinish, Records, CopyExact, JobRuns, TypeOK, Job, Holds
  <2>2. vrun[r].status = "running" /\ vrun[r] \in RunRow
    BY <1>c, <1>t, <2>1, HeldBorn DEF TypeOK
  <2>3. row \in RunRow /\ SettledItems(row, outcome[r])
    BY <2>1, <2>2, FinishedType, FinishedCovered
  <2>4. Judged(outcome[r], verdicts) = outcome[r]
    BY <2>1, NoVerdicts
  <2>5. verdicts \in Items /\ \A f \in Findings : verdicts[f] = "none"
    <3>1. verdicts \in Items
      BY <1>u, <1>o
    <3>. QED
      BY <3>1 DEF Uniformly
  <2>6. vrun' = [vrun EXCEPT ![r] = row] /\ finding' = finding /\ outcome' = outcome
        /\ job' = [job EXCEPT ![w] = FreeJob]
    BY <1>15 DEF RunFinish
  <2>. HIDE DEF verdicts
  <2>7. outcome' = [outcome EXCEPT ![r] = Judged(@, verdicts)]
    BY <1>t, <2>1, <2>4, <2>6 DEF TypeOK
  <2>8. job'[w].pc = "free" /\ \A v \in Workers : v # w => job'[v] = job[v]
    BY <1>t, <2>6 DEF TypeOK, FreeJob
  <2>. HIDE DEF r, row
  <2>9. Settle(r, verdicts, row)
    BY <1>t, <2>1, <2>5, <2>6, <2>7, SettleOnly
  <2>. QED
    BY <1>c, <2>1, <2>3, <2>4, <2>5, <2>8, <2>9, VerdictStep
<1>16. ASSUME NEW w \in Workers, MonitorRenew(w)
       PROVE  Records'
  <2>1. \A r \in Runs : vrun'[r].status = vrun[r].status
    BY <1>16, <1>t DEF MonitorRenew, TypeOK, RunRow
  <2>2. \A v \in Workers : job'[v].pc = job[v].pc /\ job'[v].run = job[v].run
                           /\ job'[v].items = job[v].items
    BY <1>16, <1>t DEF MonitorRenew, TypeOK, Job
  <2>3. UNCHANGED <<outcome, finding>>
    BY <1>16 DEF MonitorRenew
  <2>. QED
    BY <1>c, <2>1, <2>2, <2>3, PlainStep
<1>17. ASSUME NEW w \in Workers, WorkerLost(w)
       PROVE  Records'
  <2>1. \A v \in Workers : job'[v] = job[v] \/ job'[v].pc = "free"
    BY <1>17, <1>t DEF WorkerLost, TypeOK, FreeJob
  <2>2. UNCHANGED <<vrun, outcome, finding>>
    BY <1>17 DEF WorkerLost, tables
  <2>. QED
    BY <1>c, <2>1, <2>2, PlainStep
<1>18. CASE UNCHANGED vars
  BY <1>18, <1>c, PlainStep DEF vars
<1>. QED
  BY <1>1, <1>2, <1>3, <1>4, <1>5, <1>6, <1>7, <1>8, <1>9, <1>11, <1>12, <1>13,
     <1>14, <1>15, <1>16, <1>17, <1>18 DEF Next, UserStep, RunStep

\* At the start there is no item and no verdict.
LEMMA RecordsInit == Init => Records
<1>. SUFFICES ASSUME Init PROVE Records
  OBVIOUS
<1>1. Claims
  BY ClaimsInit
<1>2. CopyExact
  BY DEF Init, CopyExact, FreeJob
<1>3. SettledIsCovered
  <2>1. \A r \in Runs : vrun[r].status = "none"
    BY DEF Init, BlankRow
  <2>. QED
    BY <2>1, ActiveCovered DEF SettledIsCovered
<1>4. ClosedByRetest
  BY DEF Init, ClosedByRetest
<1>. QED
  BY <1>1, <1>2, <1>3, <1>4 DEF Records

\* The status of a finished run tells the truth about its items: nothing is left to
\* judge, and "completed" and "partial" tell whether every verdict is conclusive.
THEOREM SettledCovered ==
  ASSUME Deployment
  PROVE  Spec => []SettledIsCovered
<1>1. Records => SettledIsCovered
  BY DEF Records
<1>. QED
  BY RecordsInit, RecordsNext, <1>1, PTL DEF Spec

\* A closed finding has a retest behind it that found it fixed.
THEOREM FixedByRetest ==
  ASSUME Deployment
  PROVE  Spec => []ClosedByRetest
<1>1. Records => ClosedByRetest
  BY DEF Records
<1>. QED
  BY RecordsInit, RecordsNext, <1>1, PTL DEF Spec

\* A step changes the status or the items of a finished run only if it resumes it.
LEMMA SettledStep ==
  Deployment /\ Records /\ [Next]_vars =>
    [\A r \in Runs : Settled(vrun[r]) /\ ~Resume(r) =>
       vrun'[r].status = vrun[r].status /\ outcome'[r] = outcome[r]]_vars
<1>. SUFFICES ASSUME Deployment, Records, Next,
                     NEW r \in Runs, Settled(vrun[r]), ~Resume(r)
              PROVE  vrun'[r].status = vrun[r].status /\ outcome'[r] = outcome[r]
  OBVIOUS
<1>t. TypeOK /\ JobRuns /\ Claims /\ vrun[r] \in RunRow
  BY DEF Records, Claims, TypeOK
<1>n. \A w \in Workers : job[w].run # r /\ r \notin batch[w]
  BY <1>t DEF Claims, HeldRows, Holds, Settled, SettledStatus
<1>1. ASSUME NEW q \in Runs, NEW fs \in SUBSET Findings, Submit(q, fs)
      PROVE  vrun'[r].status = vrun[r].status /\ outcome'[r] = outcome[r]
  BY <1>1 DEF Submit, tables
<1>2. ASSUME NEW q \in Runs, Insert(q) \/ Resume(q)
      PROVE  vrun'[r].status = vrun[r].status /\ outcome'[r] = outcome[r]
  <2>1. q # r
    BY <1>2, <1>t DEF Insert, Claims, Unborn, Settled, SettledStatus
  <2>. QED
    BY <1>2, <1>t, <2>1 DEF Insert, Resume, TypeOK
<1>3. ASSUME NEW q \in Runs, Stop(q) \/ LeaseExpires(q)
      PROVE  vrun'[r].status = vrun[r].status /\ outcome'[r] = outcome[r]
  <2>1. vrun'[r] \in {vrun[r], [vrun[r] EXCEPT !.cancel = TRUE], [vrun[r] EXCEPT !.lease = "expired"]}
    BY <1>3, <1>t DEF Stop, LeaseExpires, TypeOK
  <2>. QED
    BY <1>3, <1>t, <2>1, RowStatus DEF Stop, LeaseExpires
<1>4. ASSUME NEW w \in Workers, PollCommit(w)
      PROVE  vrun'[r].status = vrun[r].status /\ outcome'[r] = outcome[r]
  <2>1. CASE r \in GivenUp(w)
    <3>1. r \in polled[w] /\ NextAttempt(seen[w][r]) > MaxAttempts
      BY <2>1 DEF GivenUp
    <3>2. AwareTimes
      BY <1>t, <3>1 DEF Deployment, Claims, SolePoll, Active, Settled, ActiveStatus, SettledStatus
    <3>3. ~Recovering(seen[w][r])
      BY <1>4, <3>1, <3>2 DEF PollCommit, PollRaises
    <3>4. vrun[r].status = "failed"
      BY <1>t, <3>1, <3>3 DEF Claims, PollSeen, Settled, SettledStatus
    <3>5. UnjudgedItems(outcome[r]) = {}
      BY <3>4 DEF Records, SettledIsCovered, SettledItems
    <3>6. outcome'[r] = Judged(outcome[r], Uniformly({}, "unable"))
      BY <1>4, <2>1, <3>5 DEF PollCommit
    <3>7. vrun'[r] = [vrun[r] EXCEPT !.status = "failed", !.envelope = FALSE]
      BY <1>4, <2>1 DEF PollCommit
    <3>. QED
      BY <1>t, <3>4, <3>6, <3>7, NoVerdicts, RowStatus DEF TypeOK
  <2>2. CASE r \notin GivenUp(w)
    <3>1. r \notin Claimed(w)
      BY DEF Claimed, Claimable, Active, Settled, ActiveStatus, SettledStatus
    <3>2. outcome'[r] = Judged(outcome[r], Uniformly({}, "unable"))
      BY <1>4, <2>2 DEF PollCommit
    <3>. QED
      BY <1>4, <1>t, <2>2, <3>1, <3>2, NoVerdicts DEF PollCommit, TypeOK
  <2>. QED
    BY <2>1, <2>2
<1>5. ASSUME NEW w \in Workers, NEW q \in Runs,
             RunCancelled(w, q) \/ RunUndecryptable(w, q) \/ RunDocuments(w, q)
      PROVE  vrun'[r].status = vrun[r].status /\ outcome'[r] = outcome[r]
  BY <1>5, <1>t, <1>n DEF RunCancelled, RunUndecryptable, RunDocuments, Begins, Settle, TypeOK
<1>6. ASSUME NEW w \in Workers,
             GroupUntooled(w) \/ GroupBegin(w) \/ GroupJudged(w) \/ RunFinish(w) \/ MonitorRenew(w)
      PROVE  vrun'[r].status = vrun[r].status /\ outcome'[r] = outcome[r]
  BY <1>6, <1>t, <1>n DEF GroupUntooled, GroupBegin, GroupJudged, RunFinish, MonitorRenew,
                          JudgeItems, Settle, TypeOK
<1>7. ASSUME NEW w \in Workers, NEW q \in Runs, RunTechnical(w, q)
      PROVE  vrun'[r].status = vrun[r].status /\ outcome'[r] = outcome[r]
  BY <1>7 DEF RunTechnical, tables
<1>8. ASSUME NEW w \in Workers, PollRead(w) \/ PollFails(w) \/ GroupScanned(w) \/ WorkerLost(w)
      PROVE  vrun'[r].status = vrun[r].status /\ outcome'[r] = outcome[r]
  BY <1>8 DEF PollRead, PollFails, GroupScanned, WorkerLost, tables
<1>9. ASSUME NEW q \in Runs, DocumentRunEnds(q)
      PROVE  vrun'[r].status = vrun[r].status /\ outcome'[r] = outcome[r]
  BY <1>9 DEF DocumentRunEnds
<1>10. ASSUME NEW f \in Findings, Reopen(f)
       PROVE  vrun'[r].status = vrun[r].status /\ outcome'[r] = outcome[r]
  BY <1>10 DEF Reopen
<1>. QED
  BY <1>1, <1>2, <1>3, <1>4, <1>5, <1>6, <1>7, <1>8, <1>9, <1>10 DEF Next, UserStep, RunStep

\* A finished run changes only when a user resumes it: a late result, a renewal of a
\* lease or a poll that gives runs up never writes over its status or its items.
THEOREM SettledFinal ==
  ASSUME Deployment
  PROVE  Spec => SettledIsFinal
<1>1. Records /\ [Next]_vars =>
        [\A r \in Runs : Settled(vrun[r]) /\ ~Resume(r) =>
           vrun'[r].status = vrun[r].status /\ outcome'[r] = outcome[r]]_vars
  BY SettledStep
<1>. QED
  BY RecordsInit, RecordsNext, <1>1, PTL DEF Spec, SettledIsFinal

-----------------------------------------------------------------------------
(* The queue implements module Retests, on PostgreSQL: a run whose worker is lost is *)
(* never begun again there, so no verdict is taken back that the user did not ask to *)
(* be taken back.                                                           *)

\* No worker has begun to execute the run since it was last given back.
Ready(r) == vrun[r].lease = "none" \/ \E w \in Workers : r \in batch[w]

\* A document run says of an item what a retest can say of it.
AnalysisVerdicts ==
  \A r \in Runs, f \in Findings :
    analysis[r][f] \in {"none", "fixed", "still_present"} \cup Inconclusive

\* Items are "running" only while a scan of their group is.
ScanItems ==
  \A w \in Workers :
    /\ job[w].pc = "group" => /\ job[w].present = {}
                              /\ \A f \in Findings : job[w].items[f] # "running"
    /\ job[w].pc \in {"scan", "judge"} =>
         /\ job[w].group \in Tooled
         /\ \A f \in job[w].present : GroupOf[f] = job[w].group
         /\ \A f \in Findings : job[w].items[f] = "running" => GroupOf[f] = job[w].group

\* What is known of the items of run r, with row "row": they are there; those of a
\* run that waits are not "running"; stored credentials belong to an active technical
\* run, and while it waits none of its items was judged.
RunKept(r, row, items) ==
  /\ row.status # "none" => ItemsOf(items) # {}
  /\ Settled(row) => ~row.envelope
  /\ row.envelope => DocumentItems(items) = {}
RunWaiting(row, items) ==
  \A f \in Findings : /\ items[f] # "running"
                      /\ row.envelope => items[f] \in {"none"} \cup Unjudged

Kept == \A r \in Runs : RunKept(r, vrun[r], outcome[r])
Waiting == \A r \in Runs : Ready(r) => RunWaiting(vrun[r], outcome[r])

Books == Records /\ AnalysisVerdicts /\ ScanItems /\ Kept /\ Waiting

\* A step that, of run r, changes at most the lease, the stop request, or the claim.
Untouched(r) ==
  /\ outcome'[r] = outcome[r]
  /\ vrun'[r].envelope = vrun[r].envelope
  /\ Settled(vrun'[r]) => Settled(vrun[r])
  /\ vrun[r].status = "none" => vrun'[r].status = "none"
  /\ Ready(r)' => Ready(r)

\* The items of a run after a step, judged run by run.
LEMMA BooksStep ==
  ASSUME Books, Records', AnalysisVerdicts', ScanItems',
         \A r \in Runs :
           \/ Untouched(r)
           \/ /\ RunKept(r, vrun'[r], outcome'[r])
              /\ Ready(r)' => RunWaiting(vrun'[r], outcome'[r])
  PROVE  Books'
<1>1. Kept'
  BY DEF Books, Kept, RunKept, Untouched
<1>2. Waiting'
  BY DEF Books, Waiting, RunWaiting, Untouched
<1>. QED
  BY <1>1, <1>2 DEF Books

\* A run keeps its items under any verdicts, and gets none from verdicts on its own.
LEMMA JudgedItems ==
  ASSUME NEW items \in Items, NEW verdicts \in Items
  PROVE  /\ ItemsOf(items) \subseteq ItemsOf(Judged(items, verdicts))
         /\ (\A f \in Findings : verdicts[f] # "none" => items[f] # "none") =>
              ItemsOf(Judged(items, verdicts)) = ItemsOf(items)
BY DEF ItemsOf, Judged, Items

\* The credentials of a run that finishes are erased.
LEMMA FinishedEnvelope ==
  ASSUME NEW row \in RunRow, row.status = "running", NEW items
  PROVE  /\ Settled(Finished(row, items)) => ~Finished(row, items).envelope
         /\ Finished(row, items).envelope => row.envelope
         /\ Finished(row, items).status # "none"
         /\ ItemsOf(items) # {} /\ UnjudgedItems(items) = {} => Settled(Finished(row, items))
BY DEF Finished, Settled, SettledStatus, RunRow

\* On PostgreSQL a poll claims only runs without a lease.
LEMMA ClaimsReady ==
  ASSUME AwareTimes, Claims, NEW w \in Workers, PollCommit(w), NEW r \in Claimed(w)
  PROVE  vrun[r].lease = "none"
<1>1. r \in polled[w] /\ r \in Runs /\ Claimable(vrun[r])
  BY DEF Claimed, Claims, TypeOK
<1>2. ~Recovering(seen[w][r])
  BY <1>1 DEF PollCommit, PollRaises
<1>3. vrun[r].lease # "expired"
  BY <1>1, <1>2 DEF Claims, PollSeen, Claimable
<1>4. vrun[r] \in RunRow
  BY <1>1 DEF Claims, TypeOK
<1>. QED
  BY <1>1, <1>3, <1>4 DEF Claimable, RunRow

\* A run being executed does not wait.
LEMMA ExecutedNotReady ==
  ASSUME Claims, NEW w \in Workers, NEW r \in Runs, job[w].run = r
  PROVE  ~Ready(r)
<1>1. vrun[r].owner = w /\ vrun[r].lease # "none"
  BY DEF Claims, HeldRows, Holds
<1>2. \A v \in Workers : r \notin batch[v]
  BY <1>1 DEF Claims, HeldRows, Holds, BatchApart
<1>. QED
  BY <1>1, <1>2 DEF Ready

\* At the start there is nothing to keep.
LEMMA BooksInit == Init => Books
<1>. SUFFICES ASSUME Init PROVE Books
  OBVIOUS
<1>1. Records
  BY RecordsInit
<1>2. AnalysisVerdicts
  BY DEF Init, AnalysisVerdicts, NoItems
<1>3. ScanItems
  BY DEF Init, ScanItems, FreeJob
<1>4. Kept /\ Waiting
  BY DEF Init, Kept, RunKept, Waiting, RunWaiting, BlankRow, NoItems, Settled, SettledStatus
<1>. QED
  BY <1>1, <1>2, <1>3, <1>4 DEF Books

\* On PostgreSQL every step keeps the books.
LEMMA BooksNext == AwareTimes /\ Books /\ [Next]_vars => Books'
<1>. SUFFICES ASSUME AwareTimes, Books, [Next]_vars
              PROVE  Books'
  OBVIOUS
<1>r. Records /\ Records' /\ Claims /\ Claims'
  BY RecordsNext DEF Books, Deployment, Records
<1>t. TypeOK /\ JobRuns /\ TypeOK' /\ JobRuns'
  BY <1>r DEF Claims
<1>u. \A fs, v : v \in Outcome => Uniformly(fs, v) \in Items
  BY UniformlyType
<1>o. {"queued", "running", "unable", "cancelled"} \subseteq Outcome
  BY DEF Outcome, Unjudged, Inconclusive
<1>a. analysis' = analysis => AnalysisVerdicts'
  BY DEF Books, AnalysisVerdicts
<1>j. job' = job => ScanItems'
  BY DEF Books, ScanItems
<1>s. ASSUME UNCHANGED <<vrun, outcome, batch>>, NEW r \in Runs
      PROVE  Untouched(r)
  BY <1>s DEF Untouched, Ready
<1>1. ASSUME NEW r \in Runs, NEW fs \in SUBSET Findings, Submit(r, fs)
      PROVE  Books'
  BY <1>1, <1>r, <1>a, <1>j, <1>s, BooksStep DEF Submit, tables, workers
<1>2. ASSUME NEW r \in Runs, Insert(r)
      PROVE  Books'
  <2>. DEFINE technical == \A f \in request[r] : ~IsDocument(f)
              row == [BlankRow EXCEPT !.status = "queued", !.envelope = technical]
              items == Uniformly(request[r], "queued")
  <2>1. /\ vrun' = [vrun EXCEPT ![r] = row]
        /\ outcome' = [outcome EXCEPT ![r] = items]
        /\ UNCHANGED <<analysis, batch, job>> /\ request[r] # {} /\ request[r] \subseteq Findings
    BY <1>2, <1>t DEF Insert, workers, TypeOK
  <2>2. ItemsOf(items) = request[r] /\ \A f \in Findings : items[f] \in {"none", "queued"}
    BY <2>1 DEF ItemsOf, Uniformly
  <2>3. technical => DocumentItems(items) = {}
    BY <2>2 DEF DocumentItems
  <2>4. technical \in BOOLEAN
    OBVIOUS
  <2>. HIDE DEF technical
  <2>5. row.status = "queued" /\ row.envelope = technical
    BY <2>4 DEF BlankRow
  <2>. HIDE DEF row, items
  <2>6. RunKept(r, row, items) /\ RunWaiting(row, items)
    BY <2>1, <2>2, <2>3, <2>5 DEF RunKept, RunWaiting, Settled, SettledStatus, Unjudged
  <2>7. vrun'[r] = row /\ outcome'[r] = items
    BY <1>t, <2>1 DEF TypeOK
  <2>8. ASSUME NEW q \in Runs, q # r PROVE Untouched(q)
    BY <1>t, <2>1, <2>8 DEF TypeOK, Untouched, Ready
  <2>. QED
    BY <1>r, <1>a, <1>j, <2>1, <2>6, <2>7, <2>8, BooksStep
<1>3. ASSUME NEW r \in Runs, Stop(r) \/ LeaseExpires(r)
      PROVE  Books'
  <2>1. UNCHANGED <<outcome, analysis, batch, job>>
    BY <1>3 DEF Stop, LeaseExpires, workers
  <2>2. ASSUME NEW q \in Runs PROVE Untouched(q)
    <3>1. vrun[q] \in RunRow
      BY <1>t DEF TypeOK
    <3>2. \/ vrun'[q] = vrun[q]
          \/ vrun'[q] = [vrun[q] EXCEPT !.cancel = TRUE]
          \/ vrun'[q] = [vrun[q] EXCEPT !.lease = "expired"] /\ vrun[q].lease = "live"
      BY <1>3, <1>t DEF Stop, LeaseExpires, TypeOK
    <3>3. /\ vrun'[q].status = vrun[q].status /\ vrun'[q].envelope = vrun[q].envelope
          /\ vrun'[q].lease = "none" => vrun[q].lease = "none"
      BY <3>1, <3>2 DEF RunRow
    <3>. QED
      BY <2>1, <3>3 DEF Untouched, Ready, Settled
  <2>. QED
    BY <1>r, <1>a, <1>j, <2>1, <2>2, BooksStep
<1>4. ASSUME NEW r \in Runs, Resume(r)
      PROVE  Books'
  <2>. DEFINE verdicts == Uniformly({f \in Findings : outcome[r][f] \in Inconclusive}, "queued")
  <2>1. /\ vrun[r].status \in {"cancelled", "failed", "partial"}
        /\ outcome' = [outcome EXCEPT ![r] = Judged(@, verdicts)]
        /\ UNCHANGED <<analysis, batch, job>>
    BY <1>4 DEF Resume, workers
  <2>2. /\ vrun'[r].status = "queued" /\ vrun'[r].envelope = vrun[r].envelope
        /\ \A q \in Runs \ {r} : vrun'[q] = vrun[q]
    BY <1>4, <1>t DEF Resume, TypeOK, RunRow
  <2>3. UnjudgedItems(outcome[r]) = {}
    BY <1>r, <2>1 DEF Records, SettledIsCovered, SettledItems
  <2>4. ~vrun[r].envelope /\ ItemsOf(outcome[r]) # {}
    BY <2>1 DEF Books, Kept, RunKept, Settled, SettledStatus
  <2>5. verdicts \in Items /\ outcome[r] \in Items /\ \A f \in Findings : verdicts[f] # "running"
    <3>1. verdicts \in Items
      BY <1>u, <1>o
    <3>2. \A f \in Findings : verdicts[f] \in {"none", "queued"}
      BY DEF Uniformly
    <3>. QED
      BY <1>t, <3>1, <3>2 DEF TypeOK
  <2>. HIDE DEF verdicts
  <2>6. ItemsOf(outcome'[r]) # {} /\ \A f \in Findings : outcome'[r][f] # "running"
    <3>1. outcome'[r] = Judged(outcome[r], verdicts)
      BY <1>t, <2>1 DEF TypeOK
    <3>2. \A f \in Findings : outcome[r][f] # "running"
      BY <2>3 DEF UnjudgedItems, Unjudged
    <3>3. \A f \in Findings : outcome'[r][f] # "running"
      BY <2>5, <3>1, <3>2 DEF Judged
    <3>. QED
      BY <2>4, <2>5, <3>1, <3>3, JudgedItems
  <2>7. RunKept(r, vrun'[r], outcome'[r]) /\ RunWaiting(vrun'[r], outcome'[r])
    BY <2>2, <2>4, <2>6 DEF RunKept, RunWaiting, Settled, SettledStatus
  <2>8. ASSUME NEW q \in Runs, q # r PROVE Untouched(q)
    BY <1>t, <2>1, <2>2, <2>8 DEF TypeOK, Untouched, Ready
  <2>. QED
    BY <1>r, <1>a, <1>j, <2>1, <2>7, <2>8, BooksStep
<1>5. ASSUME NEW f \in Findings, Reopen(f)
      PROVE  Books'
  BY <1>5, <1>r, <1>a, <1>j, <1>s, BooksStep DEF Reopen, workers
<1>6. ASSUME NEW r \in Runs, DocumentRunEnds(r)
      PROVE  Books'
  <2>. DEFINE fs == DocumentItems(outcome[r])
  <2>1. AnalysisVerdicts'
    <3>. SUFFICES ASSUME NEW q \in Runs, NEW f \in Findings
                  PROVE  analysis'[q][f] \in {"none", "fixed", "still_present"} \cup Inconclusive
      BY DEF AnalysisVerdicts
    <3>1. CASE \E v \in [fs -> {"fixed", "still_present", "unable"}] :
                 analysis' = [analysis EXCEPT ![r] =
                                [g \in Findings |-> IF g \in fs THEN v[g] ELSE "none"]]
      BY <1>t, <3>1 DEF Books, AnalysisVerdicts, Inconclusive, TypeOK
    <3>2. CASE analysis' = [analysis EXCEPT ![r] = Uniformly(fs, "cancelled")]
      BY <1>t, <3>2 DEF Books, AnalysisVerdicts, Inconclusive, TypeOK, Uniformly
    <3>. QED
      BY <1>6, <3>1, <3>2 DEF DocumentRunEnds
  <2>2. UNCHANGED <<vrun, outcome, batch, job>>
    BY <1>6 DEF DocumentRunEnds, workers
  <2>. QED
    BY <1>r, <1>j, <1>s, <2>1, <2>2, BooksStep
<1>7. ASSUME NEW w \in Workers, PollRead(w) \/ PollFails(w)
      PROVE  Books'
  <2>1. UNCHANGED <<vrun, outcome, analysis, batch, job>>
    BY <1>7 DEF PollRead, PollFails, tables
  <2>. QED
    BY <1>r, <1>a, <1>j, <1>s, <2>1, BooksStep
<1>8. ASSUME NEW w \in Workers, PollCommit(w)
      PROVE  Books'
  <2>1. UNCHANGED <<analysis, job>> /\ batch' = [batch EXCEPT ![w] = Claimed(w)]
    BY <1>8 DEF PollCommit
  <2>2. ASSUME NEW r \in Runs, r \in GivenUp(w)
        PROVE  RunKept(r, vrun'[r], outcome'[r]) /\ RunWaiting(vrun'[r], outcome'[r])
    <3>. DEFINE verdicts == Uniformly(UnjudgedItems(outcome[r]), "unable")
    <3>1. vrun'[r] = [vrun[r] EXCEPT !.status = "failed", !.envelope = FALSE]
          /\ outcome'[r] = Judged(outcome[r], verdicts)
      BY <1>8, <2>2 DEF PollCommit
    <3>2. vrun[r] \in RunRow /\ outcome[r] \in Items /\ verdicts \in Items
      BY <1>t, <1>u, <1>o DEF TypeOK
    <3>3. ~vrun'[r].envelope
      BY <3>1, <3>2 DEF RunRow
    <3>4. vrun[r].status # "none"
      BY <1>r, <2>2 DEF GivenUp, Claims, PollSeen
    <3>5. ItemsOf(outcome'[r]) # {}
      BY <3>1, <3>2, <3>4, JudgedItems DEF Books, Kept, RunKept
    <3>6. UnjudgedItems(outcome'[r]) = {}
      BY <3>1, <3>2, AllJudged DEF Inconclusive
    <3>. QED
      BY <3>3, <3>5, <3>6 DEF RunKept, RunWaiting, UnjudgedItems, Unjudged
  <2>3. ASSUME NEW r \in Runs, r \notin GivenUp(w)
        PROVE  Untouched(r)
    <3>1. outcome'[r] = outcome[r]
      <4>1. outcome'[r] = Judged(outcome[r], Uniformly({}, "unable"))
        BY <1>8, <2>3 DEF PollCommit
      <4>. QED
        BY <1>t, <4>1, NoVerdicts DEF TypeOK
    <3>2. CASE r \in Claimed(w)
      <4>1. vrun[r].lease = "none" /\ Active(vrun[r])
        BY <1>8, <1>r, <3>2, ClaimsReady DEF Claimed, Claimable
      <4>2. vrun'[r] = [vrun[r] EXCEPT !.status = "running", !.owner = w, !.lease = "live",
                                       !.attempts = NextAttempt(seen[w][r])]
        BY <1>8, <2>3, <3>2 DEF PollCommit
      <4>3. vrun'[r].envelope = vrun[r].envelope /\ vrun'[r].status = "running"
        BY <1>t, <4>2 DEF TypeOK, RunRow
      <4>. QED
        BY <3>1, <4>1, <4>3 DEF Untouched, Ready, Settled, SettledStatus, Active, ActiveStatus
    <3>3. CASE r \notin Claimed(w)
      <4>1. vrun'[r] = vrun[r]
        BY <1>8, <2>3, <3>3 DEF PollCommit
      <4>2. \A v \in Workers : r \in batch'[v] => r \in batch[v]
        BY <1>t, <2>1, <3>3 DEF TypeOK
      <4>. QED
        BY <3>1, <4>1, <4>2 DEF Untouched, Ready
    <3>. QED
      BY <3>2, <3>3
  <2>. QED
    BY <1>r, <1>a, <1>j, <2>1, <2>2, <2>3, BooksStep
<1>9. ASSUME NEW w \in Workers, NEW r \in Runs, Begins(w, r)
      PROVE  /\ Ready(r) /\ RunWaiting(vrun[r], outcome[r]) /\ vrun[r].status = "running"
             /\ vrun[r] \in RunRow /\ outcome[r] \in Items
             /\ RunKept(r, vrun[r], outcome[r]) /\ ItemsOf(outcome[r]) # {}
             /\ \A q \in Runs : (\E v \in Workers : q \in batch'[v]) => \E v \in Workers : q \in batch[v]
  <2>1. r \in batch[w] /\ batch' = [batch EXCEPT ![w] = @ \ {r}]
    BY <1>9 DEF Begins
  <2>2. Ready(r) /\ vrun[r].status = "running"
    BY <1>r, <2>1, HeldBorn DEF Ready, Holds
  <2>3. \A q \in Runs, v \in Workers : q \in batch'[v] => q \in batch[v]
    BY <1>t, <2>1 DEF TypeOK
  <2>. QED
    BY <1>t, <2>2, <2>3 DEF Books, Waiting, Kept, RunKept, TypeOK
<1>10. ASSUME NEW w \in Workers, NEW r \in Runs, Begins(w, r), UNCHANGED <<analysis, job>>,
              NEW verdicts \in Items, NEW row \in RunRow, Settle(r, verdicts, row),
              \A f \in Findings : /\ verdicts[f] # "running"
                                  /\ verdicts[f] # "none" => outcome[r][f] # "none",
              ~row.envelope
       PROVE  Books'
  <2>1. /\ vrun' = [vrun EXCEPT ![r] = row]
        /\ outcome' = [outcome EXCEPT ![r] = Judged(@, verdicts)]
    BY <1>10 DEF Settle
  <2>2. vrun'[r] = row /\ outcome'[r] = Judged(outcome[r], verdicts)
    BY <1>t, <2>1 DEF TypeOK
  <2>3. ItemsOf(outcome'[r]) # {}
    BY <1>9, <1>10, <2>2, JudgedItems
  <2>4. \A f \in Findings : outcome'[r][f] # "running"
    BY <1>9, <1>10, <2>2 DEF Judged, RunWaiting
  <2>5. RunKept(r, row, outcome'[r]) /\ RunWaiting(row, outcome'[r])
    BY <1>10, <2>3, <2>4 DEF RunKept, RunWaiting
  <2>6. ASSUME NEW q \in Runs, q # r PROVE Untouched(q)
    BY <1>t, <1>9, <1>10, <2>1, <2>6 DEF TypeOK, Untouched, Ready
  <2>. QED
    BY <1>r, <1>a, <1>j, <1>10, <2>2, <2>5, <2>6, BooksStep
<1>11. ASSUME NEW w \in Workers, NEW r \in Runs, RunCancelled(w, r)
       PROVE  Books'
  <2>. DEFINE verdicts == Uniformly(UnjudgedItems(outcome[r]), "cancelled")
              row == [vrun[r] EXCEPT !.status = "cancelled", !.envelope = FALSE]
  <2>1. Begins(w, r) /\ Settle(r, verdicts, row) /\ UNCHANGED <<analysis, job>>
    BY <1>11 DEF RunCancelled
  <2>2. verdicts \in Items /\ row \in RunRow
    BY <1>u, <1>o, <1>9, <2>1, RowEdits
  <2>3. ~row.envelope
    BY <1>9, <2>1 DEF RunRow
  <2>4. \A f \in Findings : /\ verdicts[f] # "running"
                            /\ verdicts[f] # "none" => outcome[r][f] # "none"
    BY DEF Uniformly, UnjudgedItems, Unjudged
  <2>. HIDE DEF verdicts, row
  <2>. QED
    BY <1>10, <2>1, <2>2, <2>3, <2>4
<1>12. ASSUME NEW w \in Workers, NEW r \in Runs, RunUndecryptable(w, r)
       PROVE  Books'
  <2>. DEFINE verdicts == Uniformly(ItemsOf(outcome[r]), "unable")
              row == Finished(vrun[r], Judged(outcome[r], verdicts))
  <2>1. Begins(w, r) /\ Settle(r, verdicts, row) /\ UNCHANGED <<analysis, job>>
    BY <1>12 DEF RunUndecryptable
  <2>2. verdicts \in Items
    BY <1>u, <1>o
  <2>3. row \in RunRow
    BY <1>9, <2>1, FinishedType
  <2>4. \A f \in Findings : /\ verdicts[f] # "running"
                            /\ verdicts[f] # "none" => outcome[r][f] # "none"
    BY DEF Uniformly, ItemsOf
  <2>5. ItemsOf(Judged(outcome[r], verdicts)) # {}
    BY <1>9, <2>1, <2>2, JudgedItems
  <2>6. UnjudgedItems(Judged(outcome[r], verdicts)) = {}
    BY <1>9, <2>1 DEF UnjudgedItems, Judged, Uniformly, ItemsOf, Unjudged, Items
  <2>7. ~row.envelope
    BY <1>9, <2>1, <2>5, <2>6, FinishedEnvelope
  <2>. HIDE DEF verdicts, row
  <2>. QED
    BY <1>10, <2>1, <2>2, <2>3, <2>4, <2>7
<1>13. ASSUME NEW w \in Workers, NEW r \in Runs, RunDocuments(w, r)
       PROVE  Books'
  <2>. DEFINE due == {f \in UnjudgedItems(outcome[r]) : analysis[r][f] # "none"}
              verdicts == [f \in Findings |-> IF f \in due THEN analysis[r][f] ELSE "none"]
              row == Finished(vrun[r], Judged(outcome[r], verdicts))
  <2>1. /\ Begins(w, r) /\ Settle(r, verdicts, row) /\ UNCHANGED <<analysis, job>>
        /\ DocumentItems(outcome[r]) # {}
    BY <1>13 DEF RunDocuments
  <2>2. verdicts \in Items
    BY <1>t DEF TypeOK, Items, Outcome
  <2>3. row \in RunRow
    BY <1>9, <2>1, FinishedType
  <2>4. \A f \in Findings : /\ verdicts[f] # "running"
                            /\ verdicts[f] # "none" => outcome[r][f] # "none"
    BY DEF UnjudgedItems, Unjudged, Books, AnalysisVerdicts, Inconclusive
  <2>5. ~vrun[r].envelope
    BY <1>9, <2>1 DEF RunKept
  <2>6. ~row.envelope
    BY <1>9, <2>1, <2>5, FinishedEnvelope
  <2>. HIDE DEF verdicts, row
  <2>. QED
    BY <1>10, <2>1, <2>2, <2>3, <2>4, <2>6
<1>14. ASSUME NEW w \in Workers, NEW r \in Runs, RunTechnical(w, r)
       PROVE  Books'
  <2>1. Begins(w, r) /\ UNCHANGED <<vrun, outcome, analysis>>
    BY <1>14 DEF RunTechnical, tables
  <2>2. \A q \in Runs : Untouched(q)
    BY <1>9, <2>1 DEF Untouched, Ready
  <2>3. ScanItems'
    <3>. SUFFICES ASSUME NEW v \in Workers
                  PROVE  /\ job'[v].pc = "group" => /\ job'[v].present = {}
                                                 /\ \A f \in Findings : job'[v].items[f] # "running"
                         /\ job'[v].pc \in {"scan", "judge"} =>
                              /\ job'[v].group \in Tooled
                              /\ \A f \in job'[v].present : GroupOf[f] = job'[v].group
                              /\ \A f \in Findings : job'[v].items[f] = "running" =>
                                   GroupOf[f] = job'[v].group
      BY DEF ScanItems
    <3>1. CASE job'[v] = job[v]
      BY <3>1 DEF Books, ScanItems
    <3>2. CASE job'[v] # job[v]
      <4>1. job'[v].pc = "group" /\ job'[v].items = outcome[r] /\ job'[v].present = {}
        BY <1>14, <1>t, <3>2 DEF RunTechnical, TypeOK, FreeJob
      <4>. QED
        BY <1>9, <2>1, <4>1 DEF RunWaiting
    <3>. QED
      BY <3>1, <3>2
  <2>. QED
    BY <1>r, <1>a, <2>1, <2>2, <2>3, BooksStep
<1>15. ASSUME NEW w \in Workers, job[w].pc # "free", job'[w].run = job[w].run, UNCHANGED <<analysis, batch>>,
              \A v \in Workers : v # w => job'[v] = job[v],
              NEW verdicts \in Items,
              outcome' = [outcome EXCEPT ![job[w].run] = Judged(@, verdicts)],
              \/ vrun' = vrun
              \/ vrun' = [vrun EXCEPT ![job[w].run] = [vrun[job[w].run] EXCEPT !.lease = "live"]],
              \A f \in Findings : IsDocument(f) /\ verdicts[f] # "none" => job[w].items[f] # "none",
              /\ job'[w].pc = "group" => /\ job'[w].present = {}
                                         /\ \A f \in Findings : job'[w].items[f] # "running"
              /\ job'[w].pc \in {"scan", "judge"} =>
                   /\ job'[w].group \in Tooled
                   /\ \A f \in job'[w].present : GroupOf[f] = job'[w].group
                   /\ \A f \in Findings : job'[w].items[f] = "running" => GroupOf[f] = job'[w].group
       PROVE  Books'
  <2>. DEFINE r == job[w].run
  <2>1. r \in Runs /\ outcome[r] = job[w].items /\ vrun[r] \in RunRow /\ outcome[r] \in Items
    BY <1>15, <1>r, <1>t DEF Records, CopyExact, JobRuns, TypeOK, Job
  <2>2. ScanItems'
    BY <1>15 DEF Books, ScanItems
  <2>3. ~Ready(r)'
    <3>1. \A v \in Workers : job'[v].run = r \/ r \in batch'[v] =>
            vrun'[r].owner = v /\ vrun'[r].lease # "none"
      BY <1>r, <2>1 DEF Claims, HeldRows, Holds
    <3>2. job'[w].run = r /\ r \notin batch'[w]
      BY <1>r, <1>15 DEF Claims, BatchApart
    <3>. QED
      BY <3>1, <3>2 DEF Ready
  <2>4. vrun'[r].status = vrun[r].status /\ vrun'[r].envelope = vrun[r].envelope
    <3>1. CASE vrun' = vrun
      BY <3>1
    <3>2. CASE vrun' = [vrun EXCEPT ![r] = [vrun[r] EXCEPT !.lease = "live"]]
      <4>1. vrun'[r] = [vrun[r] EXCEPT !.lease = "live"]
        BY <1>t, <2>1, <3>2 DEF TypeOK
      <4>. QED
        BY <2>1, <4>1 DEF RunRow
    <3>. QED
      BY <1>15, <3>1, <3>2
  <2>5. outcome'[r] = Judged(outcome[r], verdicts)
    BY <1>15, <1>t, <2>1 DEF TypeOK
  <2>6. ItemsOf(outcome[r]) \subseteq ItemsOf(outcome'[r])
    BY <1>15, <2>1, <2>5, JudgedItems
  <2>7. DocumentItems(outcome'[r]) = DocumentItems(outcome[r])
    BY <1>15, <2>1, <2>5 DEF DocumentItems, ItemsOf, Judged
  <2>8. RunKept(r, vrun'[r], outcome'[r])
    BY <2>1, <2>4, <2>6, <2>7 DEF Books, Kept, RunKept, Settled
  <2>9. ASSUME NEW q \in Runs, q # r PROVE Untouched(q)
    <3>1. vrun'[q] = vrun[q] /\ outcome'[q] = outcome[q] /\ batch' = batch
      BY <1>15, <1>t, <2>9 DEF TypeOK
    <3>. QED
      BY <3>1 DEF Untouched, Ready
  <2>. QED
    BY <1>r, <1>a, <1>15, <2>2, <2>3, <2>8, <2>9, BooksStep
<1>16. ASSUME NEW w \in Workers, GroupUntooled(w)
       PROVE  Books'
  <2>1. PICK g \in Groups \ Tooled :
          job[w].pc = "group" /\ JudgeItems(w, Uniformly(QueuedItems(job[w], g), "unable"), job[w])
    BY <1>16 DEF GroupUntooled
  <2>. DEFINE verdicts == Uniformly(QueuedItems(job[w], g), "unable")
  <2>2. verdicts \in Items /\ job[w] \in Job
    BY <1>t, <1>u, <1>o DEF TypeOK
  <2>3. \A f \in Findings : /\ verdicts[f] \in {"none", "unable"}
                            /\ verdicts[f] # "none" => job[w].items[f] # "none"
    BY DEF Uniformly, QueuedItems
  <2>4. JudgeItems(w, verdicts, job[w])
    BY <2>1
  <2>. HIDE DEF verdicts
  <2>5. /\ \A v \in Workers : v # w => job'[v] = job[v]
        /\ job'[w].pc = "group" /\ job'[w].run = job[w].run
        /\ job'[w].present = job[w].present
        /\ job'[w].items = Judged(job[w].items, verdicts)
    BY <1>t, <2>1, <2>2, <2>4 DEF JudgeItems, TypeOK, Job
  <2>6. job'[w].present = {} /\ \A f \in Findings : job'[w].items[f] # "running"
    BY <2>1, <2>3, <2>5 DEF Judged, Books, ScanItems
  <2>7. /\ outcome' = [outcome EXCEPT ![job[w].run] = Judged(@, verdicts)]
        /\ vrun' = [vrun EXCEPT ![job[w].run] = [vrun[job[w].run] EXCEPT !.lease = "live"]]
        /\ UNCHANGED <<analysis, batch>>
    BY <2>4 DEF JudgeItems, Settle
  <2>. QED
    BY <1>15, <2>1, <2>2, <2>3, <2>5, <2>6, <2>7
<1>17. ASSUME NEW w \in Workers, GroupBegin(w)
       PROVE  Books'
  <2>1. PICK g \in Tooled :
          /\ job[w].pc = "group"
          /\ outcome' = [outcome EXCEPT ![job[w].run] =
                           Judged(@, Uniformly(QueuedItems(job[w], g), "running"))]
          /\ job' = [job EXCEPT ![w].pc = "scan", ![w].group = g,
                       ![w].items = Judged(@, Uniformly(QueuedItems(job[w], g), "running"))]
          /\ UNCHANGED <<vrun, analysis, batch>>
    BY <1>17 DEF GroupBegin
  <2>. DEFINE verdicts == Uniformly(QueuedItems(job[w], g), "running")
  <2>2. verdicts \in Items /\ job[w] \in Job
    BY <1>t, <1>u, <1>o DEF TypeOK
  <2>3. \A f \in Findings : /\ verdicts[f] \in {"none", "running"}
                            /\ verdicts[f] # "none" => job[w].items[f] # "none" /\ GroupOf[f] = g
    BY DEF Uniformly, QueuedItems
  <2>4. /\ outcome' = [outcome EXCEPT ![job[w].run] = Judged(@, verdicts)]
        /\ job' = [job EXCEPT ![w].pc = "scan", ![w].group = g, ![w].items = Judged(@, verdicts)]
    BY <2>1
  <2>. HIDE DEF verdicts
  <2>5. /\ \A v \in Workers : v # w => job'[v] = job[v]
        /\ job'[w].pc = "scan" /\ job'[w].run = job[w].run /\ job'[w].group = g
        /\ job'[w].present = job[w].present
        /\ job'[w].items = Judged(job[w].items, verdicts)
    BY <1>t, <2>2, <2>4 DEF TypeOK, Job
  <2>6. \A f \in Findings : job'[w].items[f] = "running" => GroupOf[f] = g
    BY <2>1, <2>3, <2>5 DEF Judged, Books, ScanItems
  <2>7. job[w].present = {}
    <3>1. job[w].pc = "group"
      BY <2>1
    <3>. QED
      BY <3>1 DEF Books, ScanItems
  <2>8. /\ job'[w].pc = "scan" /\ job'[w].group \in Tooled
        /\ \A f \in job'[w].present : GroupOf[f] = job'[w].group
        /\ \A f \in Findings : job'[w].items[f] = "running" => GroupOf[f] = job'[w].group
    BY <2>5, <2>6, <2>7
  <2>9. job[w].pc # "free" /\ vrun' = vrun /\ UNCHANGED <<analysis, batch>>
    BY <2>1
  <2>. QED
    BY <1>15, <2>2, <2>3, <2>4, <2>5, <2>8, <2>9
<1>18. ASSUME NEW w \in Workers, GroupScanned(w)
       PROVE  Books'
  <2>1. PICK present \in SUBSET {f \in Findings : GroupOf[f] = job[w].group}, complete \in BOOLEAN :
          /\ job[w].pc = "scan"
          /\ job' = [job EXCEPT ![w].pc = "judge", ![w].present = present,
                                ![w].complete = complete]
    BY <1>18 DEF GroupScanned
  <2>2. UNCHANGED <<vrun, outcome, analysis, batch>>
    BY <1>18 DEF GroupScanned
  <2>3. job[w] \in Job
    BY <1>t DEF TypeOK
  <2>4. /\ \A v \in Workers : v # w => job'[v] = job[v]
        /\ job'[w].pc = "judge" /\ job'[w].group = job[w].group
        /\ job'[w].present = present /\ job'[w].items = job[w].items
    <3>1. job' = [job EXCEPT ![w] = [job[w] EXCEPT !.pc = "judge", !.present = present,
                                                   !.complete = complete]]
      BY <2>1
    <3>2. \A v \in Workers : v # w => job'[v] = job[v]
      BY <1>t, <3>1 DEF TypeOK
    <3>3. job'[w] = [job[w] EXCEPT !.pc = "judge", !.present = present, !.complete = complete]
      BY <1>t, <3>1 DEF TypeOK
    <3>. QED
      BY <2>3, <3>2, <3>3 DEF Job
  <2>5. ScanItems'
    <3>1. /\ job[w].group \in Tooled
          /\ \A f \in Findings : job[w].items[f] = "running" => GroupOf[f] = job[w].group
      BY <2>1 DEF Books, ScanItems
    <3>2. \A f \in present : GroupOf[f] = job[w].group
      BY <2>1
    <3>3. \A v \in Workers : v # w => job'[v] = job[v]
      BY <2>4
    <3>. QED
      BY <2>4, <3>1, <3>2, <3>3 DEF Books, ScanItems
  <2>. QED
    BY <1>r, <1>a, <1>s, <2>2, <2>5, BooksStep
<1>19. ASSUME NEW w \in Workers, GroupJudged(w)
       PROVE  Books'
  <2>. DEFINE j == [job[w] EXCEPT !.pc = "group", !.group = "none", !.present = {},
                                  !.complete = FALSE]
              verdicts == ScanVerdicts(job[w])
  <2>1. job[w] \in Job /\ job[w].pc = "judge" /\ verdicts \in Items
    BY <1>19, <1>t, ScanVerdictsType DEF GroupJudged, TypeOK
  <2>2. j \in Job
    BY <2>1, JobEdits
  <2>3. j.pc = "group" /\ j.run = job[w].run /\ j.items = job[w].items /\ j.present = {}
    BY <2>1 DEF Job
  <2>4. JudgeItems(w, verdicts, j)
    BY <1>19 DEF GroupJudged
  <2>5. job[w].group \in Tooled /\ \A f \in job[w].present : GroupOf[f] = job[w].group
    BY <2>1 DEF Books, ScanItems
  <2>6. ASSUME NEW f \in Findings
        PROVE  /\ IsDocument(f) /\ verdicts[f] # "none" => job[w].items[f] # "none"
               /\ job[w].items[f] = "running" => verdicts[f] # "none"
               /\ verdicts[f] # "running"
    <3>1. job[w].items[f] = "running" => GroupOf[f] = job[w].group
      BY <2>1 DEF Books, ScanItems
    <3>2. IsDocument(f) => GroupOf[f] # job[w].group
      BY <2>5, VerificationAssumption DEF IsDocument
    <3>3. verdicts[f] \in {"none", "unable", "still_present", "fixed", "new"}
      BY DEF ScanVerdicts
    <3>4. job[w].items[f] = "running" => verdicts[f] # "none"
      BY <3>1 DEF ScanVerdicts
    <3>5. IsDocument(f) => verdicts[f] = "none"
      BY <2>5, <3>2 DEF ScanVerdicts
    <3>. QED
      BY <3>3, <3>4, <3>5
  <2>. HIDE DEF j, verdicts
  <2>7. job' = [job EXCEPT ![w] = [j EXCEPT !.items = Judged(j.items, verdicts)]]
    BY <2>4 DEF JudgeItems
  <2>8. /\ \A v \in Workers : v # w => job'[v] = job[v]
        /\ job'[w].pc = "group" /\ job'[w].run = job[w].run /\ job'[w].present = {}
        /\ job'[w].items = Judged(job[w].items, verdicts)
    BY <1>t, <2>2, <2>3, <2>7 DEF TypeOK, Job
  <2>9. \A f \in Findings : job'[w].items[f] # "running"
    BY <2>6, <2>8 DEF Judged
  <2>10. /\ outcome' = [outcome EXCEPT ![job[w].run] = Judged(@, verdicts)]
         /\ vrun' = [vrun EXCEPT ![job[w].run] = [vrun[job[w].run] EXCEPT !.lease = "live"]]
         /\ UNCHANGED <<analysis, batch>>
    BY <2>4 DEF JudgeItems, Settle
  <2>. QED
    BY <1>15, <2>1, <2>6, <2>8, <2>9, <2>10
<1>20. ASSUME NEW w \in Workers, RunFinish(w)
       PROVE  Books'
  <2>. DEFINE r == job[w].run
              row == Finished(vrun[r], job[w].items)
  <2>1. r \in Runs /\ job[w].items = outcome[r] /\ vrun[r] \in RunRow /\ vrun[r].status = "running"
    BY <1>20, <1>r, <1>t, HeldBorn DEF RunFinish, Records, CopyExact, JobRuns, TypeOK, Job, Holds
  <2>2. /\ vrun' = [vrun EXCEPT ![r] = row] /\ job' = [job EXCEPT ![w] = FreeJob]
        /\ UNCHANGED <<outcome, analysis, batch>>
    BY <1>20 DEF RunFinish
  <2>3. \A f \in Findings : outcome[r][f] \notin Unjudged
    BY <1>20, <2>1 DEF RunFinish, Books, ScanItems, Unjudged
  <2>4. ItemsOf(outcome[r]) # {}
    BY <2>1 DEF Books, Kept, RunKept
  <2>5. UnjudgedItems(outcome[r]) = {}
    BY <2>3 DEF UnjudgedItems
  <2>6. ~row.envelope
    BY <2>1, <2>4, <2>5, FinishedEnvelope
  <2>7. vrun'[r] = row
    BY <1>t, <2>1, <2>2 DEF TypeOK
  <2>. HIDE DEF row
  <2>8. RunKept(r, vrun'[r], outcome'[r]) /\ RunWaiting(vrun'[r], outcome'[r])
    BY <2>2, <2>3, <2>4, <2>6, <2>7 DEF RunKept, RunWaiting, Unjudged
  <2>9. ASSUME NEW q \in Runs, q # r PROVE Untouched(q)
    BY <1>t, <2>2, <2>9 DEF TypeOK, Untouched, Ready
  <2>10. ScanItems'
    <3>1. \A v \in Workers : job'[v] = job[v] \/ job'[v].pc = "free"
      BY <1>t, <2>2 DEF TypeOK, FreeJob
    <3>. QED
      BY <3>1 DEF Books, ScanItems
  <2>. QED
    BY <1>r, <1>a, <2>2, <2>8, <2>9, <2>10, BooksStep
<1>21. ASSUME NEW w \in Workers, MonitorRenew(w)
       PROVE  Books'
  <2>1. UNCHANGED <<outcome, analysis, batch>>
    BY <1>21 DEF MonitorRenew
  <2>2. ScanItems'
    <3>1. \A v \in Workers : /\ job'[v].pc = job[v].pc /\ job'[v].items = job[v].items
                             /\ job'[v].group = job[v].group /\ job'[v].present = job[v].present
      BY <1>21, <1>t DEF MonitorRenew, TypeOK, Job
    <3>. QED
      BY <3>1 DEF Books, ScanItems
  <2>3. ASSUME NEW q \in Runs PROVE Untouched(q)
    <3>1. vrun[q] \in RunRow
      BY <1>t DEF TypeOK
    <3>2. vrun'[q] = vrun[q] \/ vrun'[q] = [vrun[q] EXCEPT !.lease = "live"]
      BY <1>21, <1>t DEF MonitorRenew, TypeOK
    <3>3. /\ vrun'[q].status = vrun[q].status /\ vrun'[q].envelope = vrun[q].envelope
          /\ vrun'[q].lease = "none" => vrun[q].lease = "none"
      BY <3>1, <3>2 DEF RunRow
    <3>. QED
      BY <2>1, <3>3 DEF Untouched, Ready, Settled
  <2>. QED
    BY <1>r, <1>a, <2>1, <2>2, <2>3, BooksStep
<1>22. ASSUME NEW w \in Workers, WorkerLost(w)
       PROVE  Books'
  <2>1. UNCHANGED <<vrun, outcome, analysis>> /\ batch' = [batch EXCEPT ![w] = {}]
        /\ job' = [job EXCEPT ![w] = FreeJob]
    BY <1>22 DEF WorkerLost, tables
  <2>2. ScanItems'
    <3>1. \A v \in Workers : job'[v] = job[v] \/ job'[v].pc = "free"
      BY <1>t, <2>1 DEF TypeOK, FreeJob
    <3>. QED
      BY <3>1 DEF Books, ScanItems
  <2>3. \A v \in Workers : batch'[v] \subseteq batch[v]
    BY <1>t, <2>1 DEF TypeOK
  <2>4. \A q \in Runs : Untouched(q)
    BY <2>1, <2>3 DEF Untouched, Ready
  <2>. QED
    BY <1>r, <1>a, <2>1, <2>2, <2>4, BooksStep
<1>23. CASE UNCHANGED vars
  BY <1>23, <1>r, <1>a, <1>j, <1>s, BooksStep DEF vars
<1>. QED
  BY <1>1, <1>2, <1>3, <1>4, <1>5, <1>6, <1>7, <1>8, <1>11, <1>12, <1>13, <1>14, <1>16,
     <1>17, <1>18, <1>19, <1>20, <1>21, <1>22, <1>23 DEF Next, UserStep, RunStep

-----------------------------------------------------------------------------
(* Each step of the queue is a step of Retests for each run, or none.       *)

\* The state of Retests has its types.
LEMMA LedgerType ==
  ASSUME NEW rows \in [Runs -> RunRow], NEW items \in [Runs -> Items]
  PROVE  /\ [r \in Runs |-> IF Active(rows[r]) THEN "active" ELSE rows[r].status]
              \in [Runs -> Ledger!Status]
         /\ [r \in Runs |-> [f \in Findings |->
               IF items[r][f] \in Unjudged THEN "due" ELSE items[r][f]]]
              \in [Runs -> [Findings -> Ledger!Verdict]]
<1>1. ASSUME NEW r \in Runs
      PROVE  (IF Active(rows[r]) THEN "active" ELSE rows[r].status) \in Ledger!Status
  <2>1. rows[r] \in RunRow
    OBVIOUS
  <2>. QED
    BY <2>1 DEF RunRow, Active, ActiveStatus, SettledStatus, Ledger!Status, Ledger!Closed
<1>2. ASSUME NEW r \in Runs, NEW f \in Findings
      PROVE  (IF items[r][f] \in Unjudged THEN "due" ELSE items[r][f]) \in Ledger!Verdict
  <2>1. items[r][f] \in Outcome
    BY DEF Items
  <2>. QED
    BY <2>1 DEF Outcome, Unjudged, Conclusive, Inconclusive, Ledger!Verdict, Ledger!Firm,
                Ledger!Weak
<1>. QED
  BY <1>1, <1>2

\* A step that keeps the status and the verdicts of a run, but for what is in progress.
LEMMA LedgerSame ==
  ASSUME NEW r \in Runs,
         \/ vrun'[r].status = vrun[r].status
         \/ Active(vrun[r]) /\ Active(vrun'[r]),
         \A f \in Findings : \/ outcome'[r][f] = outcome[r][f]
                             \/ outcome'[r][f] \in Unjudged /\ outcome[r][f] \in Unjudged
  PROVE  Ledger!Same(r)
BY DEF Ledger!Same, Active

\* Verdicts on the items of an active run, which may finish by them.
LEMMA LedgerJudge ==
  ASSUME NEW r \in Runs, NEW verdicts,
         Active(vrun[r]),
         outcome[r] \in Items, outcome'[r] \in Items,
         outcome'[r] = Judged(outcome[r], verdicts),
         \A f \in Findings :
           \/ verdicts[f] = "none"
           \/ outcome[r][f] \in Unjudged /\ verdicts[f] \in Conclusive \cup Inconclusive
           \/ outcome[r][f] = "none" /\ verdicts[f] = "new",
         Active(vrun'[r]) \/ (Settled(vrun'[r]) /\ SettledItems(vrun'[r], outcome'[r]))
  PROVE  Ledger!Judge(r)
<1>. DEFINE after == [f \in Findings |->
                        IF outcome'[r][f] \in Unjudged THEN "due" ELSE outcome'[r][f]]
<1>1. \A f \in Findings :
        \/ outcome'[r][f] = outcome[r][f]
        \/ outcome[r][f] \in Unjudged /\ outcome'[r][f] \in Conclusive \cup Inconclusive
        \/ outcome[r][f] = "none" /\ outcome'[r][f] = "new"
  BY DEF Judged
<1>2. CASE Active(vrun'[r])
  BY <1>1, <1>2 DEF Ledger!Judge, Ledger!Outcomes, Ledger!Firm, Ledger!Weak, Conclusive,
                    Inconclusive, Unjudged
<1>3. CASE ~Active(vrun'[r])
  <2>1. Settled(vrun'[r]) /\ SettledItems(vrun'[r], outcome'[r])
    BY <1>3
  <2>2. \A f \in Findings : outcome'[r][f] \notin Unjudged
    BY <2>1 DEF SettledItems, Settled, SettledStatus, UnjudgedItems, ItemsOf, Unjudged, Conclusive
  <2>3. Ledger!Due(after) = {}
    BY <2>2 DEF Ledger!Due, Items, Outcome, Unjudged, Conclusive, Inconclusive
  <2>4. vrun'[r].status = "completed" => \A f \in Findings : after[f] \notin Ledger!Weak
    BY <2>1, <2>2 DEF SettledItems, ItemsOf, Ledger!Weak, Conclusive
  <2>5. vrun'[r].status = "partial" => \E f \in Findings : after[f] \in Ledger!Weak
    BY <2>1, <2>2 DEF SettledItems, Ledger!Weak, Inconclusive
  <2>. HIDE DEF after
  <2>6. vrun'[r].status \in Ledger!Outcomes(after)
    BY <2>1, <2>3, <2>4, <2>5 DEF Ledger!Outcomes, Settled, SettledStatus
  <2>. USE DEF after
  <2>. QED
    BY <1>1, <1>3, <2>6 DEF Ledger!Judge, Ledger!Firm, Ledger!Weak, Conclusive, Inconclusive,
                            Unjudged
<1>. QED
  BY <1>2, <1>3

\* The items of a run that is inserted.
LEMMA LedgerOpen ==
  ASSUME NEW r \in Runs, vrun[r].status = "none", Active(vrun'[r]),
         NEW fs \in SUBSET Findings, fs # {}, outcome'[r] = Uniformly(fs, "queued")
  PROVE  Ledger!Open(r)
BY DEF Ledger!Open, Ledger!Due, Active, ActiveStatus, Uniformly, Unjudged

\* The items of a run that is resumed.
LEMMA LedgerRedo ==
  ASSUME NEW r \in Runs, NEW redo \in SUBSET Findings,
         redo = {f \in Findings : outcome[r][f] \in Inconclusive}, redo # {},
         Settled(vrun[r]), Active(vrun'[r]),
         outcome'[r] = Judged(outcome[r], Uniformly(redo, "queued"))
  PROVE  Ledger!Redo(r)
BY DEF Ledger!Redo, Ledger!Closed, Ledger!Weak, Settled, SettledStatus, Active, ActiveStatus,
       Judged, Uniformly, Inconclusive, Unjudged

\* What a step of Retests does to run r.
RunMoves(r) == Ledger!Open(r) \/ Ledger!Judge(r) \/ Ledger!Redo(r) \/ Ledger!Same(r)

\* Every step of the queue is a step of Retests.
LEMMA LedgerStep == AwareTimes /\ Books /\ [Next]_vars => Ledger!Next
<1>. SUFFICES ASSUME AwareTimes, Books, [Next]_vars
              PROVE  Ledger!Next
  OBVIOUS
<1>r. Records /\ Records' /\ Claims /\ Claims'
  BY RecordsNext DEF Books, Deployment, Records
<1>t. TypeOK /\ JobRuns /\ TypeOK' /\ JobRuns'
  BY <1>r DEF Claims
<1>v. \A r \in Runs : /\ vrun[r] \in RunRow /\ vrun'[r] \in RunRow
                      /\ outcome[r] \in Items /\ outcome'[r] \in Items
                      /\ SettledItems(vrun'[r], outcome'[r])
  BY <1>t, <1>r DEF TypeOK, Records, SettledIsCovered
<1>y. ASSUME \A r \in Runs : RunMoves(r)
      PROVE  Ledger!Next
  <2>1. /\ [r \in Runs |-> IF Active(vrun[r]) THEN "active" ELSE vrun[r].status]'
             \in [Runs -> Ledger!Status]
        /\ [r \in Runs |-> [f \in Findings |->
              IF outcome[r][f] \in Unjudged THEN "due" ELSE outcome[r][f]]]'
             \in [Runs -> [Findings -> Ledger!Verdict]]
    BY <1>t, LedgerType DEF TypeOK
  <2>. QED
    BY <1>y, <2>1 DEF Ledger!Next, RunMoves
<1>s. ASSUME NEW r \in Runs, vrun'[r].status = vrun[r].status, outcome'[r] = outcome[r]
      PROVE  RunMoves(r)
  BY <1>s, LedgerSame DEF RunMoves
<1>u. ASSUME UNCHANGED <<vrun, outcome>>
      PROVE  Ledger!Next
  BY <1>u, <1>s, <1>y
<1>1. ASSUME NEW r \in Runs, NEW fs \in SUBSET Findings, Submit(r, fs)
      PROVE  Ledger!Next
  BY <1>1, <1>u DEF Submit, tables
<1>2. ASSUME NEW r \in Runs, Insert(r)
      PROVE  Ledger!Next
  <2>1. vrun[r].status = "none" /\ request[r] \in SUBSET Findings /\ request[r] # {}
    BY <1>2, <1>r, <1>t DEF Insert, Claims, Unborn, TypeOK
  <2>2. outcome'[r] = Uniformly(request[r], "queued")
    BY <1>2, <1>t DEF Insert, TypeOK
  <2>3. vrun'[r].status = "queued"
    BY <1>2, <1>t DEF Insert, TypeOK, BlankRow
  <2>4. RunMoves(r)
    BY <2>1, <2>2, <2>3, LedgerOpen DEF RunMoves, Active, ActiveStatus
  <2>5. ASSUME NEW q \in Runs, q # r PROVE vrun'[q] = vrun[q] /\ outcome'[q] = outcome[q]
    BY <1>2, <1>t, <2>5 DEF Insert, TypeOK
  <2>. QED
    BY <1>s, <1>y, <2>4, <2>5
<1>3. ASSUME NEW r \in Runs, Stop(r) \/ LeaseExpires(r)
      PROVE  Ledger!Next
  <2>1. ASSUME NEW q \in Runs PROVE vrun'[q].status = vrun[q].status
    <3>1. vrun'[q] \in {vrun[q], [vrun[q] EXCEPT !.cancel = TRUE],
                       [vrun[q] EXCEPT !.lease = "expired"]}
      BY <1>3, <1>t DEF Stop, LeaseExpires, TypeOK
    <3>. QED
      BY <1>v, <3>1, RowStatus
  <2>2. outcome' = outcome
    BY <1>3 DEF Stop, LeaseExpires
  <2>. QED
    BY <1>s, <1>y, <2>1, <2>2
<1>4. ASSUME NEW r \in Runs, Resume(r)
      PROVE  Ledger!Next
  <2>. DEFINE redo == {f \in Findings : outcome[r][f] \in Inconclusive}
  <2>1. Settled(vrun[r]) /\ redo # {} /\ redo \in SUBSET Findings
    BY <1>4 DEF Resume, Settled, SettledStatus
  <2>2. outcome'[r] = Judged(outcome[r], Uniformly(redo, "queued"))
    BY <1>4, <1>t DEF Resume, TypeOK
  <2>3. Active(vrun'[r])
    BY <1>4, <1>t DEF Resume, TypeOK, RunRow, Active, ActiveStatus
  <2>4. RunMoves(r)
    BY <2>1, <2>2, <2>3, LedgerRedo DEF RunMoves
  <2>5. ASSUME NEW q \in Runs, q # r PROVE vrun'[q] = vrun[q] /\ outcome'[q] = outcome[q]
    BY <1>4, <1>t, <2>5 DEF Resume, TypeOK
  <2>. QED
    BY <1>s, <1>y, <2>4, <2>5
<1>5. ASSUME NEW f \in Findings, Reopen(f)
      PROVE  Ledger!Next
  BY <1>5, <1>u DEF Reopen
<1>6. ASSUME NEW r \in Runs, DocumentRunEnds(r)
      PROVE  Ledger!Next
  BY <1>6, <1>u DEF DocumentRunEnds
<1>7. ASSUME NEW w \in Workers, PollRead(w) \/ PollFails(w) \/ GroupScanned(w) \/ WorkerLost(w)
      PROVE  Ledger!Next
  BY <1>7, <1>u DEF PollRead, PollFails, GroupScanned, WorkerLost, tables
<1>8. ASSUME NEW w \in Workers, PollCommit(w)
      PROVE  Ledger!Next
  <2>. SUFFICES ASSUME NEW r \in Runs PROVE RunMoves(r)
    BY <1>y
  <2>1. CASE r \in GivenUp(w) /\ Settled(vrun[r])
    <3>1. ~Resume(r)
      <4>1. outcome'[r] = Judged(outcome[r], Uniformly(UnjudgedItems(outcome[r]), "unable"))
            /\ vrun'[r] = [vrun[r] EXCEPT !.status = "failed", !.envelope = FALSE]
        BY <1>8, <2>1 DEF PollCommit
      <4>2. vrun'[r].status = "failed"
        BY <1>v, <4>1, RowStatus
      <4>3. Resume(r) => vrun'[r].status = "queued"
        BY <1>t DEF Resume, TypeOK, RunRow
      <4>. QED
        BY <4>2, <4>3
    <3>2. vrun'[r].status = vrun[r].status /\ outcome'[r] = outcome[r]
      BY <2>1, <3>1, SettledStep DEF Books, Deployment, vars
    <3>. QED
      BY <1>s, <3>2
  <2>2. CASE r \in GivenUp(w) /\ ~Settled(vrun[r])
    <3>. DEFINE verdicts == Uniformly(UnjudgedItems(outcome[r]), "unable")
    <3>1. outcome'[r] = Judged(outcome[r], verdicts)
          /\ vrun'[r] = [vrun[r] EXCEPT !.status = "failed", !.envelope = FALSE]
      BY <1>8, <2>2 DEF PollCommit
    <3>2. Settled(vrun'[r])
      BY <1>v, <3>1, RowStatus DEF Settled, SettledStatus
    <3>3. Active(vrun[r])
      <4>1. vrun[r].status # "none"
        BY <1>r, <2>2 DEF GivenUp, Claims, PollSeen
      <4>. QED
        BY <1>v, <2>2, <4>1 DEF RunRow, Settled, Active
    <3>4. \A f \in Findings : \/ verdicts[f] = "none"
                              \/ outcome[r][f] \in Unjudged /\ verdicts[f] \in Inconclusive
      BY DEF Uniformly, UnjudgedItems, Inconclusive
    <3>. HIDE DEF verdicts
    <3>5. Ledger!Judge(r)
      BY <1>v, <3>1, <3>2, <3>3, <3>4, LedgerJudge
    <3>. QED
      BY <3>5 DEF RunMoves
  <2>3. CASE r \notin GivenUp(w)
    <3>1. outcome'[r] = outcome[r]
      <4>1. outcome'[r] = Judged(outcome[r], Uniformly({}, "unable"))
        BY <1>8, <2>3 DEF PollCommit
      <4>. QED
        BY <1>v, <4>1, NoVerdicts
    <3>2. CASE r \in Claimed(w)
      <4>1. vrun'[r] = [vrun[r] EXCEPT !.status = "running", !.owner = w, !.lease = "live",
                                       !.attempts = NextAttempt(seen[w][r])]
        BY <1>8, <2>3, <3>2 DEF PollCommit
      <4>2. vrun'[r].status = "running"
        BY <1>v, <4>1, RowStatus
      <4>3. Active(vrun[r]) /\ Active(vrun'[r])
        BY <3>2, <4>2 DEF Claimed, Claimable, Active, ActiveStatus
      <4>. QED
        BY <3>1, <4>3, LedgerSame DEF RunMoves
    <3>3. CASE r \notin Claimed(w)
      BY <1>8, <1>s, <2>3, <3>1, <3>3 DEF PollCommit
    <3>. QED
      BY <3>2, <3>3
  <2>. QED
    BY <2>1, <2>2, <2>3
<1>9. ASSUME NEW w \in Workers, NEW r \in Runs, Holds(w, r), NEW verdicts, NEW row \in RunRow,
             Settle(r, verdicts, row), row.status \in {"running"} \cup SettledStatus,
             \A f \in Findings :
               \/ verdicts[f] = "none"
               \/ outcome[r][f] \in Unjudged /\ verdicts[f] \in Conclusive \cup Inconclusive
               \/ outcome[r][f] = "none" /\ verdicts[f] = "new"
      PROVE  Ledger!Next
  <2>1. vrun[r].status = "running"
    BY <1>9, <1>r, HeldBorn
  <2>2. vrun' = [vrun EXCEPT ![r] = row] /\ outcome' = [outcome EXCEPT ![r] = Judged(@, verdicts)]
    BY <1>9 DEF Settle
  <2>3. vrun'[r] = row /\ outcome'[r] = Judged(outcome[r], verdicts)
    BY <1>t, <2>2 DEF TypeOK
  <2>4. Active(vrun[r]) /\ (Active(vrun'[r]) \/ Settled(vrun'[r]))
    BY <1>9, <2>1, <2>3 DEF Active, ActiveStatus, Settled
  <2>5. Ledger!Judge(r)
    BY <1>9, <1>v, <2>3, <2>4, LedgerJudge
  <2>6. ASSUME NEW q \in Runs, q # r PROVE vrun'[q] = vrun[q] /\ outcome'[q] = outcome[q]
    BY <1>t, <2>2, <2>6 DEF TypeOK
  <2>. QED
    BY <1>s, <1>y, <2>5, <2>6 DEF RunMoves
<1>f. ASSUME NEW row \in RunRow, row.status = "running", NEW items
      PROVE  /\ Finished(row, items) \in RunRow
             /\ Finished(row, items).status \in {"running"} \cup SettledStatus
  BY <1>f, FinishedType, FinishedReleases
<1>b. ASSUME NEW w \in Workers, NEW r \in Runs, Begins(w, r)
      PROVE  /\ Holds(w, r) /\ vrun[r].status = "running"
             /\ \A f \in Findings : /\ vrun[r].envelope => outcome[r][f] \in {"none"} \cup Unjudged
                                    /\ outcome[r][f] # "running"
  <2>1. Holds(w, r) /\ Ready(r)
    BY <1>b DEF Begins, Holds, Ready
  <2>. QED
    BY <1>r, <2>1, HeldBorn DEF Books, Waiting, RunWaiting
<1>10. ASSUME NEW w \in Workers, NEW r \in Runs, RunCancelled(w, r)
       PROVE  Ledger!Next
  <2>. DEFINE verdicts == Uniformly(UnjudgedItems(outcome[r]), "cancelled")
              row == [vrun[r] EXCEPT !.status = "cancelled", !.envelope = FALSE]
  <2>1. Begins(w, r) /\ Settle(r, verdicts, row)
    BY <1>10 DEF RunCancelled
  <2>2. row \in RunRow /\ row.status = "cancelled"
    BY <1>v, RowEdits, RowStatus
  <2>3. \A f \in Findings : \/ verdicts[f] = "none"
                            \/ outcome[r][f] \in Unjudged /\ verdicts[f] \in Inconclusive
    BY DEF Uniformly, UnjudgedItems, Inconclusive
  <2>. HIDE DEF verdicts, row
  <2>. QED
    BY <1>9, <1>b, <2>1, <2>2, <2>3 DEF SettledStatus
<1>11. ASSUME NEW w \in Workers, NEW r \in Runs, RunUndecryptable(w, r)
       PROVE  Ledger!Next
  <2>. DEFINE verdicts == Uniformly(ItemsOf(outcome[r]), "unable")
              row == Finished(vrun[r], Judged(outcome[r], verdicts))
  <2>1. Begins(w, r) /\ Settle(r, verdicts, row) /\ vrun[r].envelope
    BY <1>11 DEF RunUndecryptable
  <2>2. row \in RunRow /\ row.status \in {"running"} \cup SettledStatus
    BY <1>b, <1>f, <1>v, <2>1
  <2>3. \A f \in Findings : outcome[r][f] \in {"none"} \cup Unjudged
    BY <1>b, <2>1
  <2>4. \A f \in Findings : \/ verdicts[f] = "none"
                            \/ outcome[r][f] \in Unjudged /\ verdicts[f] \in Inconclusive
    BY <2>3 DEF Uniformly, ItemsOf, Inconclusive
  <2>. HIDE DEF verdicts, row
  <2>. QED
    BY <1>9, <1>b, <2>1, <2>2, <2>4
<1>12. ASSUME NEW w \in Workers, NEW r \in Runs, RunDocuments(w, r)
       PROVE  Ledger!Next
  <2>. DEFINE due == {f \in UnjudgedItems(outcome[r]) : analysis[r][f] # "none"}
              verdicts == [f \in Findings |-> IF f \in due THEN analysis[r][f] ELSE "none"]
              row == Finished(vrun[r], Judged(outcome[r], verdicts))
  <2>1. Begins(w, r) /\ Settle(r, verdicts, row)
    BY <1>12 DEF RunDocuments
  <2>2. row \in RunRow /\ row.status \in {"running"} \cup SettledStatus
    BY <1>b, <1>f, <1>v, <2>1
  <2>3. \A f \in Findings :
          \/ verdicts[f] = "none"
          \/ outcome[r][f] \in Unjudged /\ verdicts[f] \in Conclusive \cup Inconclusive
    BY DEF UnjudgedItems, Conclusive, Books, AnalysisVerdicts
  <2>. HIDE DEF verdicts, row
  <2>. QED
    BY <1>9, <1>b, <2>1, <2>2, <2>3
<1>13. ASSUME NEW w \in Workers, NEW r \in Runs, RunTechnical(w, r)
       PROVE  Ledger!Next
  BY <1>13, <1>u DEF RunTechnical, tables
<1>14. ASSUME NEW w \in Workers, job[w].pc # "free", NEW verdicts, NEW j, JudgeItems(w, verdicts, j),
              \A f \in Findings :
                \/ verdicts[f] = "none"
                \/ job[w].items[f] \in Unjudged /\ verdicts[f] \in Conclusive \cup Inconclusive
                \/ job[w].items[f] = "none" /\ verdicts[f] = "new"
       PROVE  Ledger!Next
  <2>. DEFINE r == job[w].run
              row == [vrun[r] EXCEPT !.lease = "live"]
  <2>1. r \in Runs /\ Holds(w, r) /\ outcome[r] = job[w].items
    BY <1>14, <1>r, <1>t DEF Records, CopyExact, JobRuns, TypeOK, Job, Holds
  <2>2. vrun[r].status = "running"
    BY <1>r, <2>1, HeldBorn
  <2>3. row \in RunRow /\ row.status = "running"
    <3>1. row \in RunRow
      BY <1>v, <2>1, RowEdits
    <3>2. row.status = vrun[r].status
      BY <1>v, <2>1, RowStatus
    <3>. QED
      BY <2>2, <3>1, <3>2
  <2>4. Settle(r, verdicts, row)
    BY <1>14 DEF JudgeItems
  <2>. HIDE DEF r, row
  <2>. QED
    BY <1>9, <1>14, <2>1, <2>3, <2>4
<1>15. ASSUME NEW w \in Workers, GroupUntooled(w)
       PROVE  Ledger!Next
  <2>1. PICK g \in Groups \ Tooled :
          job[w].pc = "group" /\ JudgeItems(w, Uniformly(QueuedItems(job[w], g), "unable"), job[w])
    BY <1>15 DEF GroupUntooled
  <2>2. \A f \in Findings : \/ Uniformly(QueuedItems(job[w], g), "unable")[f] = "none"
                            \/ /\ job[w].items[f] \in Unjudged
                               /\ Uniformly(QueuedItems(job[w], g), "unable")[f] \in Inconclusive
    BY DEF Uniformly, QueuedItems, Unjudged, Inconclusive
  <2>. QED
    BY <1>14, <2>1, <2>2
<1>16. ASSUME NEW w \in Workers, GroupBegin(w)
       PROVE  Ledger!Next
  <2>1. PICK g \in Tooled :
          /\ job[w].pc = "group" /\ vrun' = vrun
          /\ outcome' = [outcome EXCEPT ![job[w].run] =
                           Judged(@, Uniformly(QueuedItems(job[w], g), "running"))]
    BY <1>16 DEF GroupBegin
  <2>2. job[w].run \in Runs /\ outcome[job[w].run] = job[w].items
    BY <1>r, <1>t, <2>1 DEF Records, CopyExact, JobRuns, TypeOK, Job
  <2>3. ASSUME NEW q \in Runs, NEW f \in Findings
        PROVE  \/ outcome'[q][f] = outcome[q][f]
               \/ outcome'[q][f] \in Unjudged /\ outcome[q][f] \in Unjudged
    <3>1. CASE q = job[w].run
      <4>1. outcome'[q] = Judged(outcome[q], Uniformly(QueuedItems(job[w], g), "running"))
        BY <1>t, <2>1, <3>1 DEF TypeOK
      <4>. QED
        BY <2>2, <3>1, <4>1 DEF Judged, Uniformly, QueuedItems, Unjudged
    <3>2. CASE q # job[w].run
      BY <1>t, <2>1, <3>2 DEF TypeOK
    <3>. QED
      BY <3>1, <3>2
  <2>. QED
    BY <1>y, <2>1, <2>3, LedgerSame DEF RunMoves
<1>17. ASSUME NEW w \in Workers, GroupJudged(w)
       PROVE  Ledger!Next
  <2>1. job[w].pc = "judge" /\ \E j : JudgeItems(w, ScanVerdicts(job[w]), j)
    BY <1>17 DEF GroupJudged
  <2>2. \A f \in Findings :
          \/ ScanVerdicts(job[w])[f] = "none"
          \/ job[w].items[f] \in Unjudged /\ ScanVerdicts(job[w])[f] \in Conclusive \cup Inconclusive
          \/ job[w].items[f] = "none" /\ ScanVerdicts(job[w])[f] = "new"
    BY DEF ScanVerdicts, Unjudged, Conclusive, Inconclusive
  <2>. QED
    BY <1>14, <2>1, <2>2
<1>18. ASSUME NEW w \in Workers, RunFinish(w)
       PROVE  Ledger!Next
  <2>0. PICK r \in Runs : r = job[w].run
    BY <1>18, <1>t DEF RunFinish, JobRuns, TypeOK, Job
  <2>. DEFINE row == Finished(vrun[r], job[w].items)
  <2>1. r \in Runs /\ Holds(w, r)
    BY <2>0 DEF Holds
  <2>2. vrun[r].status = "running"
    BY <1>r, <2>1, HeldBorn
  <2>3. vrun' = [vrun EXCEPT ![r] = row] /\ outcome' = outcome
    BY <1>18, <2>0 DEF RunFinish
  <2>4. vrun'[r] = row /\ \A q \in Runs \ {r} : vrun'[q] = vrun[q]
    BY <1>t, <2>1, <2>3 DEF TypeOK
  <2>5. row.status \in {"running"} \cup SettledStatus
    BY <1>f, <1>v, <2>1, <2>2
  <2>. DEFINE verdicts == Uniformly({}, "unable")
  <2>6. outcome'[r] = Judged(outcome[r], verdicts)
    BY <1>v, <2>1, <2>3, NoVerdicts
  <2>7. \A f \in Findings : verdicts[f] = "none"
    BY DEF Uniformly
  <2>. HIDE DEF row, verdicts
  <2>8. Active(vrun[r]) /\ (Active(vrun'[r]) \/ Settled(vrun'[r]))
    BY <2>2, <2>4, <2>5 DEF Active, ActiveStatus, Settled
  <2>9. Ledger!Judge(r)
    BY <1>v, <2>1, <2>6, <2>7, <2>8, LedgerJudge
  <2>10. ASSUME NEW q \in Runs, q # r PROVE RunMoves(q)
    <3>1. vrun'[q].status = vrun[q].status /\ outcome'[q] = outcome[q]
      BY <2>3, <2>4, <2>10
    <3>. QED
      BY <1>s, <3>1
  <2>. QED
    BY <1>y, <2>9, <2>10 DEF RunMoves
<1>19. ASSUME NEW w \in Workers, MonitorRenew(w)
       PROVE  Ledger!Next
  <2>1. ASSUME NEW q \in Runs PROVE vrun'[q].status = vrun[q].status
    <3>1. vrun'[q] \in {vrun[q], [vrun[q] EXCEPT !.lease = "live"]}
      BY <1>19, <1>t DEF MonitorRenew, TypeOK
    <3>. QED
      BY <1>v, <3>1, RowStatus
  <2>2. outcome' = outcome
    BY <1>19 DEF MonitorRenew
  <2>. QED
    BY <1>s, <1>y, <2>1, <2>2
<1>20. CASE UNCHANGED vars
  BY <1>20, <1>u DEF vars
<1>. QED
  BY <1>1, <1>2, <1>3, <1>4, <1>5, <1>6, <1>7, <1>8, <1>10, <1>11, <1>12, <1>13, <1>15,
     <1>16, <1>17, <1>18, <1>19, <1>20 DEF Next, UserStep, RunStep

\* The queue keeps the promise of Retests on PostgreSQL, with any number of workers and
\* whatever is stopped, resumed or lost: a conclusive verdict stands, a run closes when
\* nothing is due and with the status its verdicts call for, and a closed run is frozen
\* until a user resumes it.
THEOREM PromiseKept ==
  ASSUME AwareTimes
  PROVE  Spec => KeepsPromise
<1>1. Init => Ledger!Init
  BY DEF Init, Ledger!Init, BlankRow, NoItems, Active, ActiveStatus, Unjudged
<1>2. Books /\ [Next]_vars => [Ledger!Next]_(Ledger!vars)
  BY LedgerStep
<1>3. Init => Books
  BY BooksInit
<1>4. Books /\ [Next]_vars => Books'
  BY BooksNext
<1>. QED
  BY <1>1, <1>2, <1>3, <1>4, PTL DEF Spec, KeepsPromise, Ledger!Spec
=============================================================================
