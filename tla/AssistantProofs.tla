---------------------------- MODULE AssistantProofs ----------------------------
(***************************************************************************)
(* Theorems about what users hand to the assistant: the documents that it  *)
(* judges (DocumentVerdicts) and the conversations that it keeps           *)
(* (Conversations), for any points, files, attempts, threads, archives,    *)
(* requests, messages and summaries.                                       *)
(* The last part joins them with AssessmentQueueProofs for the run of all  *)
(* three (MCAssessmentRoles).                                              *)
(*                                                                         *)
(* A gap is closed only by a completed retest in which the model found the *)
(* point in documents that were read whole, and what the latest analysis   *)
(* lacks stands open as a finding.  The invariant keeps what an analysis   *)
(* proves with its report, the items with the retest they belong to, and   *)
(* the report of the last retest with what is shown until a check          *)
(* overtakes it.                                                           *)
(*                                                                         *)
(* No message is forgotten.  Its invariant, Remembered, is about every     *)
(* summary and not only the newest completed one: behind a segment that is *)
(* written or waits to be, everything is covered by a completed summary or *)
(* deleted by the transaction that cut the segment.  The segments need not *)
(* be completed in the order in which they were cut.                       *)
(***************************************************************************)
EXTENDS AssessmentQueueProofs, MCAssessmentRoles, FiniteSetTheorems, WellFoundedInduction, TLAPS

USE VerdictAssumption, ConversationAssumption

-----------------------------------------------------------------------------
(* Documents.                                                              *)

Stages == {"none", "queued", "published", "completed", "cancelled", "failed"}
JobRow == [stage : Stages, report : Reports]
ItemStates == {"none", "due", "new", "present", "fixed", "unable", "cancelled"}

\* A point counts as found only where the model found it in documents read whole.
Honest(r) == \A p \in Points : r.status # "unable" /\ r.points[p] = "pass" => p \in r.proven

\* A retest that nobody asked for has no items.
ItemsHaveRetest == job["retest"].stage = "none" => \A i \in Issues : item[i] = "none"
\* Unless a check was published after it, what the last retest said is what is shown.
RetestIsShown ==
  ~late /\ (job["retest"].stage = "published" \/ job["retest"].stage = "completed")
  => shown = job["retest"].report

DocInvariant ==
  /\ DocTypeOK /\ Honest(job["retest"].report)
  /\ ItemsHaveRetest /\ RetestIsShown /\ LatestVerdictStands

-----------------------------------------------------------------------------
(* What an analysis says.                                                   *)

\* Whether evidence was found and whatever the model says of it, the points have a status,
\* and one that passes was judged by the model on evidence.
LEMMA PointsJudged ==
  ASSUME NEW e \in Evidence, NEW complete \in BOOLEAN, NEW given \in BOOLEAN,
         NEW says \in [e -> Decisions], NEW points,
         points = IF given THEN Reviewed(Candidates(e, complete), e, says) ELSE Candidates(e, complete)
  PROVE  /\ points \in [Points -> PointStatus]
         /\ \A p \in Points : points[p] = "pass" => given /\ p \in e /\ says[p] = "pass"
<1>1. /\ Candidates(e, complete) \in [Points -> PointStatus]
      /\ \A p \in Points : Candidates(e, complete)[p] # "pass"
      /\ \A p \in Points : p \notin e => Candidates(e, complete)[p] # "partial"
  BY DEF Candidates, PointStatus
<1>2. CASE ~given
  BY <1>1, <1>2
<1>3. CASE given
  <2>1. points = Reviewed(Candidates(e, complete), e, says)
    BY <1>3
  <2>2. ASSUME NEW p \in Points
        PROVE  points[p] \in PointStatus /\ (points[p] = "pass" => p \in e /\ says[p] = "pass")
    <3>1. points[p] = IF p \notin e THEN Candidates(e, complete)[p]
                      ELSE IF says[p] = "contradict" THEN "fail" ELSE says[p]
      BY <2>1 DEF Reviewed
    <3>2. p \in e => says[p] \in Decisions
      OBVIOUS
    <3> QED BY <1>1, <3>1, <3>2 DEF Decisions, PointStatus
  <2> QED BY <1>3, <2>1, <2>2 DEF Reviewed
<1> QED BY <1>2, <1>3

\* The status of the control is a status.
LEMMA OverallType ==
  ASSUME NEW points
  PROVE  Overall(points) \in PointStatus
BY DEF Overall, PointStatus

\* Every analysis is a report, is not empty, and is honest about what it found.
LEMMA JudgementsHonest ==
  ASSUME NEW report \in Judgements
  PROVE  report \in Reports /\ report.status # "none" /\ Honest(report)
<1>1. PICK e \in Evidence :
        report \in {Judgement(x, e, complete, given, says) :
                      x \in {y \in Extractions : \E f \in Papers : y[f] # "broken"},
                      complete \in BOOLEAN, given \in BOOLEAN, says \in [e -> Decisions]}
  BY DEF Judgements
<1>2. PICK x \in Extractions, complete \in BOOLEAN, given \in BOOLEAN, says \in [e -> Decisions] :
        report = Judgement(x, e, complete, given, says)
  BY <1>1
<1> DEFINE points == IF given THEN Reviewed(Candidates(e, complete), e, says) ELSE Candidates(e, complete)
           status == IF Doubt(x, e, given) THEN "unable" ELSE Overall(points)
           proven == {p \in e : given /\ says[p] = "pass" /\ \A f \in Papers : x[f] = "parsed"}
<1>3. report = [points |-> points, status |-> status, proven |-> proven]
  BY <1>2 DEF Judgement
<1>4. /\ points \in [Points -> PointStatus]
      /\ \A p \in Points : points[p] = "pass" => given /\ p \in e /\ says[p] = "pass"
  BY PointsJudged
<1>5. proven \subseteq Points
  BY DEF Evidence
<1>6. status \in PointStatus
  BY OverallType DEF PointStatus
<1>7. ASSUME NEW p \in Points, status # "unable", points[p] = "pass"
      PROVE  p \in proven
  <2>1. given /\ p \in e /\ says[p] = "pass"
    BY <1>4, <1>7
  <2>2. \A f \in Papers : x[f] = "parsed"
    BY <1>7 DEF Doubt
  <2> QED BY <2>1, <2>2
<1> HIDE DEF points, status, proven
<1>8. report \in Reports
  BY <1>3, <1>4, <1>5, <1>6 DEF Reports
<1>9. report.status # "none"
  BY <1>3, <1>6 DEF PointStatus
<1> QED BY <1>3, <1>7, <1>8, <1>9 DEF Honest

\* The report of nothing found.
LEMMA NoReportHonest == NoReport \in Reports /\ NoReport.status = "none" /\ Honest(NoReport)
BY DEF NoReport, Reports, PointStatus, Honest

\* What an analysis fixes is not lacking in it.
LEMMA FixedIsNotLacking ==
  ASSUME NEW report, NEW i \in Issues, ClauseOutcome(report, i) = "fixed"
  PROVE  /\ report.status # "unable"
         /\ i # Blocker => report.points[i] = "pass"
BY DEF ClauseOutcome

LEMMA OutcomeType ==
  ASSUME NEW report, NEW i
  PROVE  ClauseOutcome(report, i) \in {"fixed", "present", "unable"}
BY DEF ClauseOutcome

-----------------------------------------------------------------------------
(* The steps.                                                               *)

LEMMA InitInvariant == VerdictsInit => DocInvariant
<1> SUFFICES ASSUME VerdictsInit PROVE DocInvariant
  OBVIOUS
<1>1. shown = NoReport /\ job = [j \in DocJobs |-> [stage |-> "none", report |-> NoReport]]
  BY DEF VerdictsInit
<1>2. job["retest"] = [stage |-> "none", report |-> NoReport] /\ job \in [DocJobs -> JobRow]
  BY <1>1, NoReportHonest DEF DocJobs, JobRow, Stages
<1>3. DocTypeOK
  BY <1>1, <1>2, NoReportHonest DEF VerdictsInit, DocTypeOK, JobRow, Stages
<1>4. LatestVerdictStands
  BY <1>1, NoReportHonest DEF LatestVerdictStands, Standing
<1> QED BY <1>2, <1>3, <1>4, NoReportHonest DEF VerdictsInit, DocInvariant, ItemsHaveRetest, RetestIsShown

\* A job whose row changes.
LEMMA JobMoves ==
  ASSUME DocTypeOK, NEW j \in DocJobs, NEW row \in JobRow, job' = [job EXCEPT ![j] = row]
  PROVE  /\ job' \in [DocJobs -> JobRow] /\ job'[j] = row
         /\ j # "retest" => job'["retest"] = job["retest"]
         /\ "retest" \in DocJobs /\ "check" \in DocJobs /\ job[j] \in JobRow
BY DEF DocTypeOK, DocJobs, JobRow, Stages

\* Steps that change only which analyses are asked for, and under way.
LEMMA JobsOnly ==
  ASSUME DocInvariant, NEW j \in DocJobs, NEW row \in JobRow, job' = [job EXCEPT ![j] = row],
         j = "retest" => /\ Honest(row.report) /\ row.stage # "none"
                         /\ row.stage # "published"
                         /\ row.stage = "completed" => /\ job["retest"].stage = "published"
                                                       /\ row.report = job["retest"].report,
         UNCHANGED <<shown, raised, item, late, overtaken>>
  PROVE  DocInvariant'
<1>1. /\ job' \in [DocJobs -> JobRow] /\ job'[j] = row
      /\ j # "retest" => job'["retest"] = job["retest"]
  BY JobMoves DEF DocInvariant
<1>2. DocTypeOK'
  BY <1>1 DEF DocInvariant, DocTypeOK, JobRow, Stages
<1>3. LatestVerdictStands'
  BY DEF DocInvariant, LatestVerdictStands, Standing
<1>4. CASE j = "retest"
  BY <1>1, <1>2, <1>3, <1>4 DEF DocInvariant, ItemsHaveRetest, RetestIsShown
<1>5. CASE j # "retest"
  BY <1>1, <1>2, <1>3, <1>5 DEF DocInvariant, ItemsHaveRetest, RetestIsShown
<1> QED BY <1>4, <1>5

LEMMA AskCheckKeeps == DocInvariant /\ AskCheck => DocInvariant'
<1> DEFINE row == [stage |-> "queued", report |-> NoReport]
<1>1. row \in JobRow /\ "check" \in DocJobs
  BY NoReportHonest DEF JobRow, Stages, DocJobs
<1> QED BY <1>1, JobsOnly DEF AskCheck, Queued

\* The items are those of the findings that are open.
LEMMA AskRetestKeeps == DocInvariant /\ AskRetest => DocInvariant'
<1> SUFFICES ASSUME DocInvariant, AskRetest PROVE DocInvariant'
  OBVIOUS
<1> DEFINE row == [stage |-> "queued", report |-> NoReport]
<1>1. row \in JobRow /\ "retest" \in DocJobs /\ row.stage = "queued" /\ row.report = NoReport
  BY NoReportHonest DEF JobRow, Stages, DocJobs
<1>2. /\ job' = [job EXCEPT !["retest"] = row]
      /\ UNCHANGED <<shown, raised, late, overtaken>>
  BY DEF AskRetest, Queued
<1> HIDE DEF row
<1>3. job' \in [DocJobs -> JobRow] /\ job'["retest"] = row
  BY <1>1, <1>2, JobMoves DEF DocInvariant
<1>4. item' \in [Issues -> ItemStates]
  BY DEF AskRetest, ItemStates
<1>5. DocTypeOK'
  BY <1>2, <1>3, <1>4 DEF DocInvariant, DocTypeOK, JobRow, Stages, ItemStates
<1>6. LatestVerdictStands'
  BY <1>2 DEF DocInvariant, LatestVerdictStands, Standing
<1> QED BY <1>1, <1>3, <1>5, <1>6, NoReportHonest DEF DocInvariant, ItemsHaveRetest, RetestIsShown

LEMMA EndsKeeps ==
  ASSUME DocInvariant, NEW j \in DocJobs, NEW stage \in Stages, Ends(j, stage),
         \/ stage = "completed" /\ job[j].stage = "published"
         \/ stage = "cancelled"
         \/ stage = "failed"
  PROVE  DocInvariant'
<1> DEFINE report == IF j = "retest" THEN job[j].report ELSE NoReport
           row == [stage |-> stage, report |-> report]
<1>1. job[j] \in JobRow
  BY DEF DocInvariant, DocTypeOK, JobRow, Stages
<1>2. row \in JobRow /\ row.stage = stage /\ row.report = report
  BY <1>1, NoReportHonest DEF JobRow
<1>3. job' = [job EXCEPT ![j] = row] /\ UNCHANGED <<shown, raised, item, late, overtaken>>
  BY DEF Ends
<1>4. j = "retest" => Honest(row.report)
  BY <1>2 DEF DocInvariant
<1> HIDE DEF row
<1> QED BY <1>2, <1>3, <1>4, JobsOnly

\* A publication opens what the analysis lacks.
LEMMA SyncedStands ==
  ASSUME NEW found \in [Issues -> {"none", "open", "fixed"}], NEW report \in Reports
  PROVE  /\ Synced(found, report) \in [Issues -> {"none", "open", "fixed"}]
         /\ report.status = "unable" => Synced(found, report)[Blocker] = "open"
         /\ \A p \in Points : report.status # "unable" /\ report.points[p] \in Lacking
                              => Synced(found, report)[p] = "open"
         /\ \A p \in Points : Synced(found, report)[p] = "fixed" => found[p] = "fixed"
<1>1. Blocker \notin Points
  BY DEF Blocker
<1> QED BY <1>1 DEF Synced, Issues

LEMMA PublishKeeps ==
  ASSUME DocInvariant, NEW j \in DocJobs, NEW report \in Judgements, Publish(j, report)
  PROVE  DocInvariant'
<1> DEFINE row == [stage |-> "published", report |-> report]
<1>1. report \in Reports /\ report.status # "none" /\ Honest(report)
  BY JudgementsHonest
<1>2. row \in JobRow /\ row.stage = "published" /\ row.report = report
  BY <1>1 DEF JobRow, Stages
<1>3. /\ job' = [job EXCEPT ![j] = row] /\ shown' = report /\ raised' = Synced(raised, report)
      /\ item' = WithNew(j, raised, raised') /\ overtaken' = {}
      /\ late' = (j = "check" /\ (late \/ job["retest"].stage \in {"published", "completed"}))
  BY DEF Publish
<1> HIDE DEF row
<1>4. /\ job' \in [DocJobs -> JobRow] /\ job'[j] = row
      /\ j # "retest" => job'["retest"] = job["retest"]
  BY <1>2, <1>3, JobMoves DEF DocInvariant
<1>5. raised \in [Issues -> {"none", "open", "fixed"}] /\ item \in [Issues -> ItemStates] /\ late \in BOOLEAN
  BY DEF DocInvariant, DocTypeOK, ItemStates
<1>6. item' \in [Issues -> ItemStates] /\ (j # "retest" => item' = item)
  BY <1>3, <1>5 DEF WithNew, ItemStates
<1>7. raised' \in [Issues -> {"none", "open", "fixed"}]
  BY <1>1, <1>3, <1>5, SyncedStands
<1>8. DocTypeOK'
  BY <1>1, <1>3, <1>4, <1>5, <1>6, <1>7 DEF DocTypeOK, JobRow, Stages, ItemStates
<1>9. LatestVerdictStands'
  <2> SUFFICES ASSUME NEW i \in Issues, Standing(i)' PROVE raised'[i] = "open"
    BY DEF LatestVerdictStands
  <2>1. CASE i = Blocker
    BY <1>1, <1>3, <1>5, <2>1, SyncedStands DEF Standing
  <2>2. CASE i # Blocker
    BY <1>1, <1>3, <1>5, <2>2, SyncedStands DEF Standing, Issues
  <2> QED BY <2>1, <2>2
<1>10. CASE j = "retest"
  BY <1>1, <1>2, <1>3, <1>4, <1>8, <1>9, <1>10 DEF DocInvariant, ItemsHaveRetest, RetestIsShown
<1>11. CASE j # "retest"
  <2>1. j = "check"
    BY <1>11 DEF DocJobs
  <2> QED BY <1>3, <1>4, <1>5, <1>6, <1>8, <1>9, <1>11, <2>1 DEF DocInvariant, ItemsHaveRetest, RetestIsShown
<1> QED BY <1>10, <1>11

\* Outcomes that close a finding close none that the analysis shown lacks, unless a check
\* was published after the retest.
LEMMA AppliedKeeps ==
  ASSUME DocInvariant, NEW outcomes \in [Issues -> ItemStates], Applied(outcomes), Due # {},
         \A i \in Due : outcomes[i] = "fixed" /\ ~late => ~Standing(i)
  PROVE  DocInvariant'
<1>1. /\ item' = [i \in Issues |-> IF i \in Due THEN outcomes[i] ELSE item[i]]
      /\ raised' = [i \in Issues |-> IF i \notin Due THEN raised[i]
                                     ELSE IF outcomes[i] = "fixed" THEN "fixed" ELSE "open"]
      /\ overtaken' = IF late THEN overtaken \cup {i \in Due : outcomes[i] = "fixed"} ELSE overtaken
      /\ UNCHANGED <<shown, job, late>>
  BY DEF Applied
<1>2. Due \subseteq Issues /\ job["retest"].stage # "none"
  BY DEF DocInvariant, ItemsHaveRetest, Due
<1>3. /\ item \in [Issues -> ItemStates] /\ raised \in [Issues -> {"none", "open", "fixed"}]
      /\ overtaken \subseteq Issues
  BY DEF DocInvariant, DocTypeOK, ItemStates
<1>4. item' \in [Issues -> ItemStates] /\ raised' \in [Issues -> {"none", "open", "fixed"}]
  BY <1>1, <1>3
<1>5. DocTypeOK'
  BY <1>1, <1>2, <1>3, <1>4 DEF DocInvariant, DocTypeOK, ItemStates
<1>6. LatestVerdictStands'
  <2> SUFFICES ASSUME NEW i \in Issues, i \notin overtaken', Standing(i)' PROVE raised'[i] = "open"
    BY DEF LatestVerdictStands
  <2>1. Standing(i) /\ i \notin overtaken
    BY <1>1 DEF Standing
  <2>2. CASE i \notin Due
    BY <1>1, <2>1, <2>2 DEF DocInvariant, LatestVerdictStands
  <2>3. CASE i \in Due
    <3>1. outcomes[i] # "fixed"
      BY <1>1, <2>1, <2>3
    <3> QED BY <1>1, <2>3, <3>1
  <2> QED BY <2>2, <2>3
<1> QED BY <1>1, <1>2, <1>5, <1>6 DEF DocInvariant, ItemsHaveRetest, RetestIsShown

\* What a conclusion makes of an item: it closes one only on a completed retest whose
\* analysis does not lack it.
LEMMA ConcludeCloses ==
  ASSUME DocInvariant, Conclude, NEW outcomes,
         outcomes = [i \in Issues |-> CASE job["retest"].stage = "cancelled" -> "cancelled"
                                        [] job["retest"].stage = "failed" -> "unable"
                                        [] OTHER -> ClauseOutcome(job["retest"].report, i)]
  PROVE  /\ outcomes \in [Issues -> ItemStates] /\ Applied(outcomes) /\ Due # {}
         /\ \A i \in Issues : outcomes[i] = "fixed" =>
              /\ job["retest"].stage = "completed" /\ job["retest"].report.status # "unable"
              /\ i # Blocker => job["retest"].report.points[i] = "pass"
<1>1. /\ Applied(outcomes) /\ Due # {}
      /\ job["retest"].stage # "queued" /\ job["retest"].stage # "published"
  BY DEF Conclude, Active
<1>2. job["retest"].stage # "none" /\ job["retest"].stage \in Stages
  BY <1>1 DEF DocInvariant, ItemsHaveRetest, Due, DocTypeOK, Stages, DocJobs
<1>3. ASSUME NEW i \in Issues
      PROVE  /\ outcomes[i] \in ItemStates
             /\ outcomes[i] = "fixed" =>
                  /\ job["retest"].stage = "completed"
                  /\ ClauseOutcome(job["retest"].report, i) = "fixed"
  <2>1. CASE job["retest"].stage = "cancelled"
    BY <2>1 DEF ItemStates
  <2>2. CASE job["retest"].stage = "failed"
    BY <2>2 DEF ItemStates
  <2>3. CASE job["retest"].stage = "completed"
    <3>1. outcomes[i] = ClauseOutcome(job["retest"].report, i)
      BY <2>3
    <3> QED BY <2>3, <3>1, OutcomeType DEF ItemStates
  <2> QED BY <1>1, <1>2, <2>1, <2>2, <2>3 DEF Stages
<1>4. outcomes \in [Issues -> ItemStates]
  BY <1>3
<1> QED BY <1>1, <1>3, <1>4, FixedIsNotLacking

LEMMA ConcludeKeeps == DocInvariant /\ Conclude => DocInvariant'
<1> SUFFICES ASSUME DocInvariant, Conclude PROVE DocInvariant'
  OBVIOUS
<1> DEFINE outcomes == [i \in Issues |-> CASE job["retest"].stage = "cancelled" -> "cancelled"
                                           [] job["retest"].stage = "failed" -> "unable"
                                           [] OTHER -> ClauseOutcome(job["retest"].report, i)]
<1>1. /\ outcomes \in [Issues -> ItemStates] /\ Applied(outcomes) /\ Due # {}
      /\ \A i \in Issues : outcomes[i] = "fixed" =>
           /\ job["retest"].stage = "completed" /\ job["retest"].report.status # "unable"
           /\ i # Blocker => job["retest"].report.points[i] = "pass"
  BY ConcludeCloses
<1> HIDE DEF outcomes
<1>2. ASSUME NEW i \in Due, outcomes[i] = "fixed", ~late
      PROVE  ~Standing(i)
  <2>1. i \in Issues
    BY DEF Due
  <2>2. shown = job["retest"].report
    BY <1>1, <1>2, <2>1 DEF DocInvariant, RetestIsShown
  <2> QED BY <1>1, <1>2, <2>1, <2>2 DEF Standing, Lacking
<1> QED BY <1>1, <1>2, AppliedKeeps

LEMMA WithdrawKeeps == DocInvariant /\ Withdraw => DocInvariant'
<1> SUFFICES ASSUME DocInvariant, Withdraw PROVE DocInvariant'
  OBVIOUS
<1>1. PICK outcome \in {"cancelled", "unable"} : Applied([i \in Issues |-> outcome])
  BY DEF Withdraw
<1>2. /\ [i \in Issues |-> outcome] \in [Issues -> ItemStates] /\ Due # {} /\ Due \subseteq Issues
      /\ \A i \in Issues : [k \in Issues |-> outcome][i] # "fixed"
  BY DEF ItemStates, Withdraw, Due
<1> QED BY <1>1, <1>2, AppliedKeeps

\* A resumed retest had items.
LEMMA ResumeKeeps == DocInvariant /\ Resume => DocInvariant'
<1> SUFFICES ASSUME DocInvariant, Resume PROVE DocInvariant'
  OBVIOUS
<1>1. job["retest"].stage # "none"
  BY DEF DocInvariant, ItemsHaveRetest, Resume, Weak
<1>2. item' \in [Issues -> ItemStates]
  BY DEF DocInvariant, DocTypeOK, Resume, ItemStates
<1>3. UNCHANGED <<shown, raised, job, late, overtaken>>
  BY DEF Resume
<1>4. DocTypeOK' /\ LatestVerdictStands'
  BY <1>2, <1>3 DEF DocInvariant, DocTypeOK, ItemStates, LatestVerdictStands, Standing
<1> QED BY <1>1, <1>3, <1>4 DEF DocInvariant, ItemsHaveRetest, RetestIsShown

LEMMA ReopenIssueKeeps ==
  ASSUME DocInvariant, NEW i \in Issues, ReopenIssue(i)
  PROVE  DocInvariant'
<1>1. /\ raised' = [raised EXCEPT ![i] = "open"] /\ overtaken' = overtaken \ {i}
      /\ UNCHANGED <<shown, job, item, late>>
  BY DEF ReopenIssue
<1>2. raised \in [Issues -> {"none", "open", "fixed"}]
  BY DEF DocInvariant, DocTypeOK
<1>3. DocTypeOK'
  BY <1>1, <1>2 DEF DocInvariant, DocTypeOK
<1>4. LatestVerdictStands'
  BY <1>1, <1>2 DEF DocInvariant, LatestVerdictStands, Standing
<1> QED BY <1>1, <1>3, <1>4 DEF DocInvariant, ItemsHaveRetest, RetestIsShown

LEMMA NextKeeps == DocInvariant /\ [VerdictsNext]_docVars => DocInvariant'
<1> SUFFICES ASSUME DocInvariant, [VerdictsNext]_docVars PROVE DocInvariant'
  OBVIOUS
<1>1. ASSUME NEW j \in DocJobs, Close(j) \/ CancelJob(j) \/ FailJob(j)
      PROVE  DocInvariant'
  <2>1. "completed" \in Stages /\ "cancelled" \in Stages /\ "failed" \in Stages
    BY DEF Stages
  <2> QED BY <1>1, <2>1, EndsKeeps DEF Close, CancelJob, FailJob
<1>2. CASE UNCHANGED docVars
  BY <1>2 DEF docVars, DocInvariant, DocTypeOK, ItemsHaveRetest, RetestIsShown, LatestVerdictStands, Standing
<1> QED BY <1>1, <1>2, AskCheckKeeps, AskRetestKeeps, ConcludeKeeps, WithdrawKeeps, ResumeKeeps,
           PublishKeeps, ReopenIssueKeeps DEF VerdictsNext

-----------------------------------------------------------------------------

\* A gap is closed on proof.
GapClosedOnProof ==
  \A p \in Points : Closes(p) => job["retest"].stage = "completed" /\ p \in job["retest"].report.proven

\* Only the conclusion of a completed retest closes a gap, on a point that the model found.
LEMMA StepCloses ==
  ASSUME DocInvariant, [VerdictsNext]_docVars
  PROVE  GapClosedOnProof
<1> SUFFICES ASSUME NEW p \in Points, raised[p] = "open", raised'[p] = "fixed"
             PROVE  job["retest"].stage = "completed" /\ p \in job["retest"].report.proven
  BY DEF GapClosedOnProof, Closes
<1>1. p \in Issues /\ p # Blocker /\ raised \in [Issues -> {"none", "open", "fixed"}]
  BY DEF Issues, Blocker, DocInvariant, DocTypeOK
<1>2. ASSUME NEW outcomes, Applied(outcomes)
      PROVE  outcomes[p] = "fixed"
  BY <1>1, <1>2 DEF Applied
<1>3. ~Withdraw
  BY <1>1, <1>2 DEF Withdraw
<1>4. ASSUME NEW j \in DocJobs, NEW report \in Judgements, Publish(j, report)
      PROVE  FALSE
  BY <1>1, <1>4, JudgementsHonest, SyncedStands DEF Publish
<1>5. ~UNCHANGED raised
  OBVIOUS
<1>6. ASSUME NEW i \in Issues, ReopenIssue(i)
      PROVE  FALSE
  BY <1>1, <1>6 DEF ReopenIssue
<1>7. Conclude
  BY <1>3, <1>4, <1>5, <1>6
  DEF VerdictsNext, AskCheck, AskRetest, Resume, Close, CancelJob, FailJob, Ends, docVars
<1> DEFINE outcomes == [i \in Issues |-> CASE job["retest"].stage = "cancelled" -> "cancelled"
                                           [] job["retest"].stage = "failed" -> "unable"
                                           [] OTHER -> ClauseOutcome(job["retest"].report, i)]
<1>8. /\ Applied(outcomes)
      /\ \A i \in Issues : outcomes[i] = "fixed" =>
           /\ job["retest"].stage = "completed" /\ job["retest"].report.status # "unable"
           /\ i # Blocker => job["retest"].report.points[i] = "pass"
  BY <1>7, ConcludeCloses
<1> HIDE DEF outcomes
<1>9. outcomes[p] = "fixed"
  BY <1>2, <1>8
<1> QED BY <1>1, <1>8, <1>9 DEF DocInvariant, Honest

\* Every reachable state has its types, and a point counts as passed in the report of a
\* retest only where the model found it in documents that were read whole
\* (review_with_llm, document_pipeline.py).
THEOREM VerdictsHonest == DocVerdictsSpec => [](DocTypeOK /\ Honest(job["retest"].report))
<1>1. DocInvariant => DocTypeOK /\ Honest(job["retest"].report)
  BY DEF DocInvariant
<1> QED BY <1>1, InitInvariant, NextKeeps, PTL DEF DocVerdictsSpec

\* What the latest analysis lacks, or that it is in doubt, stands open as a finding, unless
\* a retest was concluded after a later check (_sync_document_gap_findings,
\* apply_verification_outcome); for any points, files and attempts.
THEOREM VerdictStands == DocVerdictsSpec => []LatestVerdictStands
<1>1. DocInvariant => LatestVerdictStands
  BY DEF DocInvariant
<1> QED BY <1>1, InitInvariant, NextKeeps, PTL DEF DocVerdictsSpec

\* A gap is closed only by a completed retest in which the model found the point in
\* documents read whole (_process_document_items).
THEOREM GapsClosed == DocVerdictsSpec => ClosedOnProof
<1>1. DocInvariant /\ [VerdictsNext]_docVars => [GapClosedOnProof]_docVars
  BY StepCloses
<1> HIDE DEF GapClosedOnProof
<1>2. DocVerdictsSpec => [][GapClosedOnProof]_docVars
  BY <1>1, InitInvariant, NextKeeps, PTL DEF DocVerdictsSpec
<1> QED BY <1>2 DEF ClosedOnProof, GapClosedOnProof

-----------------------------------------------------------------------------
(* Conversations.                                                          *)

\* A set of natural numbers that is not empty has a Min.
LEMMA LeastOf ==
  ASSUME NEW S \in SUBSET Nat, S # {}
  PROVE  Min(S) \in S /\ \A y \in S : Min(S) <= y
<1>1. PICK x \in S : \A y \in S : ~ (<<y, x>> \in OpToRel(<, Nat))
  BY NatLessThanWellFounded, WFMin, Zenon
<1>2. \A y \in S : ~ (y < x)
  BY <1>1 DEF OpToRel
<1>3. \A y \in S : x <= y
  BY <1>2
<1> QED BY <1>3 DEF Min

\* Up to a bound, a set of natural numbers has a Max.
LEMMA GreatestOf ==
  ASSUME NEW n \in Nat, NEW S \in SUBSET (0 .. n), S # {}
  PROVE  Max(S) \in S /\ \A y \in S : Max(S) >= y
<1> DEFINE T == {n - y : y \in S}
<1>1. T \in SUBSET Nat /\ T # {}
  <2>1. \A y \in S : n - y \in Nat
    OBVIOUS
  <2>2. PICK y \in S : TRUE
    OBVIOUS
  <2>3. n - y \in T
    OBVIOUS
  <2> QED BY <2>1, <2>3
<1>2. Min(T) \in T /\ \A z \in T : Min(T) <= z
  BY <1>1, LeastOf
<1>3. PICK x \in S : Min(T) = n - x
  BY <1>2
<1>4. \A y \in S : x >= y
  <2> TAKE y \in S
  <2>1. n - y \in T
    OBVIOUS
  <2>2. Min(T) <= n - y
    BY <1>2, <2>1
  <2>3. x \in Int /\ y \in Int
    OBVIOUS
  <2> QED BY <1>3, <2>2, <2>3
<1> QED BY <1>4 DEF Max

\* The newest of some numbers of messages or summaries is none of a later one.
LEMMA NewestOf ==
  ASSUME NEW n \in Nat, NEW S \in SUBSET (1 .. n)
  PROVE  Newest(S) \in 0 .. n /\ (\A y \in S : Newest(S) >= y) /\ (Newest(S) # 0 => Newest(S) \in S)
<1>1. S \cup {0} \in SUBSET (0 .. n) /\ S \cup {0} # {}
  OBVIOUS
<1>2. Max(S \cup {0}) \in S \cup {0} /\ \A y \in S \cup {0} : Max(S \cup {0}) >= y
  BY <1>1, GreatestOf
<1>3. Newest(S) = Max(S \cup {0})
  BY DEF Newest
<1> HIDE DEF Newest
<1>4. Newest(S) \in S \cup {0} /\ \A y \in S : Newest(S) >= y
  BY <1>2, <1>3
<1> QED BY <1>1, <1>4

-----------------------------------------------------------------------------
LiveSummary == {"unsaved", "queued", "processing", "completed"}
\* A message that must not be forgotten, and a completed summary that holds it.
Counts(i) == msg[i].state = "active" /\ i \notin overlooked
Covered(i) ==
  \E s \in Summaries : /\ summary[s].status = "completed" /\ summary[s].thread = msg[i].thread
                       /\ i \in summary[s].text
\* The transaction that queues the segment deletes the message.
Exempt(s, i) == \E c \in Callers : s \in turn[c].rows /\ i \in turn[c].swept
\* A segment begins behind what is covered; what lies in it is read, and written.
Remembered(s, i) ==
  Counts(i) /\ summary[s].thread = msg[i].thread =>
    /\ summary[s].status \in LiveSummary /\ i < summary[s].first => Covered(i) \/ Exempt(s, i)
    /\ summary[s].status = "completed" /\ i \in Within(s) => i \in summary[s].text
    /\ writer.row = s /\ i \in Within(s) => i \in writer.read
OwnTurn(c) ==
  /\ \A s \in turn[c].rows : summary[s].status = "unsaved"
  /\ \A i \in turn[c].wrote : msg[i].state # "none" /\ msg[i].thread = turn[c].thread
  /\ turn[c].pc # "writing" => turn[c].rows = {} /\ turn[c].wrote = {} /\ turn[c].swept = {}
Apart == \A c, d \in Callers : c # d => turn[c].rows \cap turn[d].rows = {}
WriterOwn ==
  writer # NoWriter =>
    writer.row \in Summaries /\ summary[writer.row].status \in {"processing", "deleted"}
InArchive(i) ==
  msg[i].state = "archived" => msg[i].archive \in Archives /\ archive[msg[i].archive].status = "filed"
ConvTyped ==
  /\ ConvTypeOK
  /\ \A s \in Summaries : /\ summary[s].last \in 0 .. MaxMessages
                          /\ summary[s].status # "none" => summary[s].first \in Messages
Owned == (\A c \in Callers : OwnTurn(c)) /\ Apart /\ WriterOwn
Kept == (\A i \in Messages : InArchive(i)) /\ \A s \in Summaries, i \in Messages : Remembered(s, i)
ConvInvariant == ConvTyped /\ Owned /\ Kept

-----------------------------------------------------------------------------
\* The rows have the types of the tables.
LEMMA ConvFacts ==
  ASSUME ConvTyped
  PROVE  /\ \A i \in Messages : msg[i] \in Message
         /\ \A s \in Summaries : summary[s] \in Summary
         /\ \A a \in Archives : archive[a] \in Archive
         /\ \A h \in Threads : thread[h] \in Thread
         /\ \A c \in Callers : turn[c] \in Turn
BY DEF ConvTyped, ConvTypeOK

\* Up to the newest completed summary, whatever counts is covered.
LEMMA SummarizedIsLast ==
  ASSUME ConvInvariant, NEW h \in Threads
  PROVE  /\ Summarized(h) \in 0 .. MaxMessages
         /\ Summarized(h) # 0 => \E s \in Of(h, {"completed"}) : summary[s].last = Summarized(h)
<1> DEFINE lasts == {summary[s].last : s \in Of(h, {"completed"})}
<1>1. lasts \cup {0} \in SUBSET (0 .. MaxMessages) /\ lasts \cup {0} # {}
  BY DEF ConvInvariant, ConvTyped, Of
<1>2. Max(lasts \cup {0}) \in lasts \cup {0}
  BY <1>1, GreatestOf
<1>3. Summarized(h) = Max(lasts \cup {0})
  BY DEF Summarized, Newest
<1>4. Summarized(h) \in lasts \cup {0}
  BY <1>2, <1>3
<1>5. Summarized(h) \in 0 .. MaxMessages
  BY <1>1, <1>4
<1> QED BY <1>4, <1>5

\* Up to the newest completed summary, whatever counts is covered.
LEMMA Forgotten ==
  ASSUME ConvInvariant, NEW h \in Threads, NEW i \in Messages, Counts(i), msg[i].thread = h,
         i <= Summarized(h)
  PROVE  Covered(i)
<1>1. Summarized(h) # 0
  BY SummarizedIsLast DEF Messages
<1>2. PICK s \in Of(h, {"completed"}) : summary[s].last = Summarized(h)
  BY <1>1, SummarizedIsLast
<1>3. s \in Summaries /\ summary[s].thread = h /\ summary[s].status = "completed"
  BY <1>2 DEF Of
<1>4. Remembered(s, i) /\ ~Exempt(s, i)
  BY <1>3 DEF ConvInvariant, Kept, Exempt, Owned, OwnTurn
<1>5. CASE i < summary[s].first
  BY <1>3, <1>4, <1>5 DEF Remembered, LiveSummary
<1>6. CASE ~(i < summary[s].first)
  <2>1. summary[s].first \in Nat /\ summary[s].last \in Nat
    BY <1>3 DEF ConvInvariant, ConvTyped, ConvTypeOK, Summary
  <2>2. i \in Within(s)
    BY <1>2, <1>6, <2>1 DEF Within, Messages
  <2> QED BY <1>3, <1>4, <2>2 DEF Remembered, Covered
<1> QED BY <1>5, <1>6

\* The invariant says more than that nothing is forgotten.
LEMMA NothingForgottenHere == ConvInvariant => NoMessageForgotten
<1> SUFFICES ASSUME ConvInvariant, NEW i \in Messages
             PROVE  /\ msg[i].state = "active" =>
                         \/ i \in overlooked \/ i > Summarized(msg[i].thread)
                         \/ \E s \in Of(msg[i].thread, {"completed"}) : i \in summary[s].text
                    /\ msg[i].state = "archived" => archive[msg[i].archive].status = "filed"
  BY DEF NoMessageForgotten
<1>1. msg[i].state = "archived" => archive[msg[i].archive].status = "filed"
  BY DEF ConvInvariant, Kept, InArchive
<1> DEFINE h == msg[i].thread
<1>2. ASSUME msg[i].state = "active", i \notin overlooked, ~(i > Summarized(h))
      PROVE  \E s \in Of(h, {"completed"}) : i \in summary[s].text
  <2>1. h \in Threads
    BY DEF ConvInvariant, ConvTyped, ConvTypeOK, Message
  <2>2. i <= Summarized(h)
    BY <1>2, <2>1, SummarizedIsLast DEF Messages
  <2>3. Covered(i)
    BY <1>2, <2>1, <2>2, Forgotten DEF Counts
  <2> QED BY <2>3 DEF Covered, Of
<1> QED BY <1>1, <1>2

\* No message, no summary, no turn.
LEMMA ConvInvariantInit == ConvInit => ConvInvariant
<1> SUFFICES ASSUME ConvInit PROVE ConvInvariant
  OBVIOUS
<1>1. NoTurn \in Turn /\ NoTurn.rows = {} /\ NoTurn.wrote = {} /\ NoTurn.swept = {} /\ NoTurn.pc = "idle"
  BY DEF NoTurn, Turn
<1>2. NoWriter.row = 0 /\ NoWriter.read = {}
  BY DEF NoWriter
<1>3. ConvTyped
  BY <1>1, <1>2 DEF ConvInit, ConvTyped, ConvTypeOK, Message, Summary, Archive, Thread
<1>4. Owned
  BY <1>1, <1>2 DEF ConvInit, Owned, OwnTurn, Apart, WriterOwn
<1>5. \A i \in Messages : msg[i].state = "none"
  BY DEF ConvInit
<1>6. Kept
  BY <1>5 DEF Kept, InArchive, Remembered, Counts
<1> QED BY <1>3, <1>4, <1>6 DEF ConvInvariant

\* Steps that take messages away, and leave the summaries.
LEMMA QuietKeeps ==
  ASSUME ConvInvariant, summary' = summary, writer' = writer \/ writer' = NoWriter,
         overlooked' = overlooked,
         \A i \in Messages : msg'[i].state = "active" =>
                              msg[i].state = "active" /\ msg'[i].thread = msg[i].thread,
         \A c \in Callers : \/ turn[c].rows = {}
                            \/ turn'[c].rows = turn[c].rows /\ turn'[c].swept = turn[c].swept
  PROVE  \A s \in Summaries, i \in Messages : Remembered(s, i)'
<1> SUFFICES ASSUME NEW s \in Summaries, NEW i \in Messages PROVE Remembered(s, i)'
  OBVIOUS
<1>1. Remembered(s, i)
  BY DEF ConvInvariant, Kept
<1>2. Within(s)' = Within(s)
  BY DEF Within
<1>3. Counts(i)' => Counts(i) /\ msg'[i].thread = msg[i].thread
  BY DEF Counts
<1>4. Exempt(s, i) => Exempt(s, i)'
  BY DEF Exempt
<1>5. Counts(i)' /\ Covered(i) => Covered(i)'
  BY <1>3 DEF Covered
<1>6. writer'.row = s => writer'.read = writer.read /\ writer.row = s
  BY DEF NoWriter, Summaries
<1> QED BY <1>1, <1>2, <1>3, <1>4, <1>5, <1>6 DEF Remembered

\* What is owned stays owned when no summary is written and the turns keep what they own,
\* or drop all of it.
LEMMA QuietOwns ==
  ASSUME ConvInvariant, summary' = summary, writer' = writer \/ writer' = NoWriter,
         \A i \in Messages : msg[i].state # "none" => msg'[i].state # "none" /\ msg'[i].thread = msg[i].thread,
         \A c \in Callers : \/ /\ turn'[c].rows = {} /\ turn'[c].wrote = {} /\ turn'[c].swept = {}
                            \/ turn'[c] = turn[c]
  PROVE  Owned'
<1>1. \A c \in Callers : OwnTurn(c) /\ turn[c].wrote \subseteq Messages
  BY ConvFacts DEF ConvInvariant, ConvTyped, Owned, Turn
<1>2. ASSUME NEW c \in Callers PROVE OwnTurn(c)'
  <2>1. CASE turn'[c].rows = {} /\ turn'[c].wrote = {} /\ turn'[c].swept = {}
    BY <2>1 DEF OwnTurn
  <2>2. CASE turn'[c] = turn[c]
    BY <1>1, <2>2 DEF OwnTurn
  <2> QED BY <2>1, <2>2
<1>3. Apart'
  BY DEF ConvInvariant, Owned, Apart
<1>4. WriterOwn'
  BY DEF ConvInvariant, Owned, WriterOwn, NoWriter
<1> QED BY <1>2, <1>3, <1>4 DEF Owned

\* NoTurn and NoWriter, field by field.
LEMMA NoTurnFacts ==
  /\ NoTurn \in Turn /\ NoTurn.rows = {} /\ NoTurn.wrote = {} /\ NoTurn.swept = {} /\ NoTurn.pc = "idle"
  /\ NoTurn.thread = Default
  /\ NoWriter.row = 0 /\ NoWriter.read = {}
BY DEF NoTurn, Turn, NoWriter

-----------------------------------------------------------------------------
\* The requests that write nothing: each opens, or closes, its turn.
LEMMA BeginTurnKeeps ==
  ASSUME ConvInvariant, NEW c \in Callers, NEW h \in Threads, BeginTurn(c, h)
  PROVE  ConvInvariant'
<1> DEFINE first == [NoTurn EXCEPT !.pc = "writing", !.thread = h, !.left = 2]
           second == [NoTurn EXCEPT !.pc = "writing", !.thread = h, !.left = 1]
<1>1. /\ first \in Turn /\ first.rows = {} /\ first.wrote = {} /\ first.swept = {}
      /\ second \in Turn /\ second.rows = {} /\ second.wrote = {} /\ second.swept = {}
  <2>1. first = [NoTurn EXCEPT !.pc = "writing", !.thread = h, !.left = 2]
    OBVIOUS
  <2>2. second = [NoTurn EXCEPT !.pc = "writing", !.thread = h, !.left = 1]
    OBVIOUS
  <2> HIDE DEF first, second
  <2>3. first = [pc |-> "writing", thread |-> h, left |-> 2, wrote |-> {}, swept |-> {}, rows |-> {},
                 source |-> {}, rolls |-> FALSE, filed |-> "none"]
    BY ONLY <2>1 DEF NoTurn
  <2>4. second = [pc |-> "writing", thread |-> h, left |-> 1, wrote |-> {}, swept |-> {}, rows |-> {},
                  source |-> {}, rolls |-> FALSE, filed |-> "none"]
    BY ONLY <2>2 DEF NoTurn
  <2> QED BY <2>3, <2>4 DEF Turn
<1>2. (turn' = [turn EXCEPT ![c] = first] \/ turn' = [turn EXCEPT ![c] = second]) /\ busy' \subseteq Threads
  BY DEF BeginTurn, ConvInvariant, ConvTyped, ConvTypeOK
<1> HIDE DEF first, second
<1>3. turn' \in [Callers -> Turn] /\ turn[c] = NoTurn
  BY <1>1, <1>2 DEF BeginTurn, ConvInvariant, ConvTyped, ConvTypeOK
<1>4. ConvTyped'
  BY <1>2, <1>3 DEF BeginTurn, ConvInvariant, ConvTyped, ConvTypeOK
<1>5. \A d \in Callers : \/ turn'[d].rows = {} /\ turn'[d].wrote = {} /\ turn'[d].swept = {}
                         \/ turn'[d] = turn[d]
  BY <1>1, <1>2 DEF ConvInvariant, ConvTyped, ConvTypeOK
<1>6. \A d \in Callers : \/ turn[d].rows = {}
                         \/ turn'[d].rows = turn[d].rows /\ turn'[d].swept = turn[d].swept
  <2>1. turn[c].rows = {}
    BY <1>2, <1>3, NoTurnFacts
  <2>2. \A d \in Callers : d # c => turn'[d] = turn[d]
    BY <1>2, <1>3, NoTurnFacts DEF ConvInvariant, ConvTyped, ConvTypeOK
  <2> QED BY <2>1, <2>2
<1>7. Owned'
  BY <1>5, QuietOwns DEF BeginTurn
<1>8. \A s \in Summaries, i \in Messages : Remembered(s, i)'
  BY <1>6, QuietKeeps DEF BeginTurn
<1>9. \A i \in Messages : InArchive(i)'
  BY DEF BeginTurn, ConvInvariant, Kept, InArchive
<1> QED BY <1>4, <1>7, <1>8, <1>9 DEF ConvInvariant, Kept

\* Who archives begins by reading the history.
LEMMA GatherKeeps ==
  ASSUME ConvInvariant, NEW c \in Callers, NEW h \in Threads, Gather(c, h)
  PROVE  ConvInvariant'
<1> DEFINE next == [NoTurn EXCEPT !.pc = "gathered", !.thread = h, !.source = Seen(c, h),
                                  !.rolls = (turn[c].pc = "answered")]
<1>1. Seen(c, h) \subseteq Messages
  BY DEF Seen
<1>2. next \in Turn /\ next.rows = {} /\ next.wrote = {} /\ next.swept = {}
  <2> DEFINE heard == Seen(c, h)
             rolls == turn[c].pc = "answered"
  <2>1. next = [NoTurn EXCEPT !.pc = "gathered", !.thread = h, !.source = heard, !.rolls = rolls]
    OBVIOUS
  <2>2. heard \subseteq Messages /\ rolls \in BOOLEAN
    BY <1>1
  <2> HIDE DEF next, heard, rolls
  <2>3. next = [pc |-> "gathered", thread |-> h, left |-> 0, wrote |-> {}, swept |-> {}, rows |-> {},
                source |-> heard, rolls |-> rolls, filed |-> "none"]
    BY ONLY <2>1 DEF NoTurn
  <2> QED BY <2>2, <2>3 DEF Turn
<1>3. turn' = [turn EXCEPT ![c] = next]
  BY DEF Gather
<1> HIDE DEF next
<1>4. turn' \in [Callers -> Turn] /\ turn[c].rows = {}
  BY <1>2, <1>3, NoTurnFacts
     DEF Gather, ConvInvariant, ConvTyped, ConvTypeOK, Owned, OwnTurn
<1>5. ConvTyped'
  BY <1>4 DEF Gather, ConvInvariant, ConvTyped, ConvTypeOK
<1>6. \A d \in Callers : \/ turn'[d].rows = {} /\ turn'[d].wrote = {} /\ turn'[d].swept = {}
                         \/ turn'[d] = turn[d]
  BY <1>2, <1>3 DEF ConvInvariant, ConvTyped, ConvTypeOK
<1>7. \A d \in Callers : \/ turn[d].rows = {}
                         \/ turn'[d].rows = turn[d].rows /\ turn'[d].swept = turn[d].swept
  <2>1. turn[c].rows = {}
    BY <1>3, <1>4
  <2>2. \A d \in Callers : d # c => turn'[d] = turn[d]
    BY <1>3, <1>4 DEF ConvInvariant, ConvTyped, ConvTypeOK
  <2> QED BY <2>1, <2>2
<1>8. Owned'
  BY <1>6, QuietOwns DEF Gather
<1>9. \A s \in Summaries, i \in Messages : Remembered(s, i)'
  BY <1>7, QuietKeeps DEF Gather
<1>10. \A i \in Messages : InArchive(i)'
  BY DEF Gather, ConvInvariant, Kept, InArchive
<1> QED BY <1>5, <1>8, <1>9, <1>10 DEF ConvInvariant, Kept

\* Nothing is archived.
LEMMA StayKeeps ==
  ASSUME ConvInvariant, NEW c \in Callers, Stay(c)
  PROVE  ConvInvariant'
<1>1. turn' = [turn EXCEPT ![c] = NoTurn] /\ turn[c].rows = {}
  BY DEF Stay, ConvInvariant, Owned, OwnTurn
<1>2. turn' \in [Callers -> Turn]
  BY <1>1, NoTurnFacts DEF ConvInvariant, ConvTyped, ConvTypeOK
<1>3. ConvTyped'
  BY <1>2 DEF Stay, ConvInvariant, ConvTyped, ConvTypeOK
<1>4. \A d \in Callers : \/ turn'[d].rows = {} /\ turn'[d].wrote = {} /\ turn'[d].swept = {}
                         \/ turn'[d] = turn[d]
  BY <1>1, NoTurnFacts DEF ConvInvariant, ConvTyped, ConvTypeOK
<1>5. \A d \in Callers : \/ turn[d].rows = {}
                         \/ turn'[d].rows = turn[d].rows /\ turn'[d].swept = turn[d].swept
  <2>1. turn[c].rows = {}
    BY <1>1
  <2>2. \A d \in Callers : d # c => turn'[d] = turn[d]
    BY <1>1 DEF ConvInvariant, ConvTyped, ConvTypeOK
  <2> QED BY <2>1, <2>2
<1>6. Owned'
  BY <1>4, QuietOwns DEF Stay
<1>7. \A s \in Summaries, i \in Messages : Remembered(s, i)'
  BY <1>5, QuietKeeps DEF Stay
<1>8. \A i \in Messages : InArchive(i)'
  BY DEF Stay, ConvInvariant, Kept, InArchive
<1> QED BY <1>3, <1>6, <1>7, <1>8 DEF ConvInvariant, Kept

\* The messages that are archived lie in an archive that is filed.
LEMMA FileKeeps ==
  ASSUME ConvInvariant, NEW c \in Callers, NEW a \in Archives, File(c, a)
  PROVE  ConvInvariant'
<1> DEFINE next == IF turn[c].rolls THEN [turn[c] EXCEPT !.pc = "filed", !.filed = a] ELSE NoTurn
<1>1. turn[c] \in Turn /\ turn[c].rows = {} /\ turn[c].wrote = {} /\ turn[c].swept = {}
  BY ConvFacts DEF File, ConvInvariant, Owned, OwnTurn
<1>2. next \in Turn /\ next.rows = {} /\ next.wrote = {} /\ next.swept = {}
  BY <1>1, NoTurnFacts DEF Turn
<1>3. turn' = [turn EXCEPT ![c] = next]
  BY DEF File
<1> HIDE DEF next
<1>4. turn' \in [Callers -> Turn]
  BY <1>2, <1>3 DEF ConvInvariant, ConvTyped, ConvTypeOK
<1>5. \A i \in Messages : /\ msg'[i] \in Message /\ msg'[i].thread = msg[i].thread
                          /\ \/ msg'[i] = msg[i]
                             \/ msg'[i].state = "archived" /\ msg'[i].archive = a
  BY ConvFacts DEF File, ConvInvariant, Message
<1>6. archive' \in [Archives -> Archive]
  BY <1>1 DEF File, ConvInvariant, ConvTyped, ConvTypeOK, Archive, Turn
<1>7. ConvTyped'
  BY <1>4, <1>5, <1>6 DEF File, ConvInvariant, ConvTyped, ConvTypeOK
<1>8. \A d \in Callers : \/ turn'[d].rows = {} /\ turn'[d].wrote = {} /\ turn'[d].swept = {}
                         \/ turn'[d] = turn[d]
  BY <1>2, <1>3 DEF ConvInvariant, ConvTyped, ConvTypeOK
<1>9. \A d \in Callers : \/ turn[d].rows = {}
                         \/ turn'[d].rows = turn[d].rows /\ turn'[d].swept = turn[d].swept
  <2>1. turn[c].rows = {}
    BY <1>1, <1>3
  <2>2. \A d \in Callers : d # c => turn'[d] = turn[d]
    BY <1>1, <1>3 DEF ConvInvariant, ConvTyped, ConvTypeOK
  <2> QED BY <2>1, <2>2
<1>10. Owned'
  BY <1>5, <1>8, QuietOwns DEF File
<1>11. \A s \in Summaries, i \in Messages : Remembered(s, i)'
  BY <1>5, <1>9, QuietKeeps DEF File
<1>12. ASSUME NEW i \in Messages PROVE InArchive(i)'
  <2>1. \A b \in Archives : archive[b].status = "filed" => archive'[b].status = "filed"
    BY DEF File, ConvInvariant, ConvTyped, ConvTypeOK
  <2>2. archive'[a].status = "filed"
    BY DEF File, ConvInvariant, ConvTyped, ConvTypeOK
  <2> QED BY <1>5, <2>1, <2>2 DEF ConvInvariant, Kept, InArchive
<1> QED BY <1>7, <1>10, <1>11, <1>12 DEF ConvInvariant, Kept

\* A thread is opened for the archive.
LEMMA HandOverKeeps ==
  ASSUME ConvInvariant, NEW c \in Callers, NEW h \in Threads, HandOver(c, h)
  PROVE  ConvInvariant'
<1> DEFINE next == [turn[c] EXCEPT !.pc = "handed"]
<1>1. turn[c] \in Turn /\ turn[c].rows = {} /\ turn[c].wrote = {} /\ turn[c].swept = {}
  BY ConvFacts DEF HandOver, ConvInvariant, Owned, OwnTurn
<1>2. next \in Turn /\ next.rows = {} /\ next.wrote = {} /\ next.swept = {}
  BY <1>1 DEF Turn
<1>3. turn' = [turn EXCEPT ![c] = next]
  BY DEF HandOver
<1> HIDE DEF next
<1>4. /\ turn' \in [Callers -> Turn] /\ turn'[c] = next
      /\ \A d \in Callers : d # c => turn'[d] = turn[d]
  BY <1>2, <1>3 DEF ConvInvariant, ConvTyped, ConvTypeOK
<1>5. thread' \in [Threads -> Thread]
  BY <1>1 DEF HandOver, Opened, ConvInvariant, ConvTyped, ConvTypeOK, Thread, Turn
<1>6. ConvTyped'
  BY <1>4, <1>5 DEF HandOver, ConvInvariant, ConvTyped, ConvTypeOK
<1>7. Owned'
  BY <1>2, <1>4, QuietOwns DEF HandOver
<1>8. \A s \in Summaries, i \in Messages : Remembered(s, i)'
  BY <1>1, <1>4, QuietKeeps DEF HandOver
<1>9. \A i \in Messages : InArchive(i)'
  BY DEF HandOver, ConvInvariant, Kept, InArchive
<1> QED BY <1>6, <1>7, <1>8, <1>9 DEF ConvInvariant, Kept

\* The old thread is archived.
LEMMA RetireKeeps ==
  ASSUME ConvInvariant, NEW c \in Callers, Retire(c)
  PROVE  ConvInvariant'
<1>1. /\ turn' = [turn EXCEPT ![c] = NoTurn] /\ turn[c].rows = {} /\ turn[c] \in Turn
  BY ConvFacts DEF Retire, ConvInvariant, Owned, OwnTurn
<1>2. /\ turn' \in [Callers -> Turn] /\ turn'[c] = NoTurn
      /\ \A d \in Callers : d # c => turn'[d] = turn[d]
  BY <1>1, NoTurnFacts DEF ConvInvariant, ConvTyped, ConvTypeOK
<1>3. thread' \in [Threads -> Thread]
  BY <1>1 DEF Retire, ConvInvariant, ConvTyped, ConvTypeOK, Thread, Turn
<1>4. ConvTyped'
  BY <1>2, <1>3 DEF Retire, ConvInvariant, ConvTyped, ConvTypeOK
<1>5. Owned'
  BY <1>2, NoTurnFacts, QuietOwns DEF Retire
<1>6. \A s \in Summaries, i \in Messages : Remembered(s, i)'
  BY <1>1, <1>2, QuietKeeps DEF Retire
<1>7. \A i \in Messages : InArchive(i)'
  BY DEF Retire, ConvInvariant, Kept, InArchive
<1> QED BY <1>4, <1>5, <1>6, <1>7 DEF ConvInvariant, Kept

\* The threads come and go without their messages.
LEMMA ThreadStepKeeps ==
  ASSUME ConvInvariant, NEW h \in Threads,
         CreateThread(h) \/ DeleteThread(h) \/ StartScan(h) \/ ScanFails(h)
  PROVE  ConvInvariant'
<1>1. UNCHANGED <<msg, summary, archive, turn, writer, aged, overlooked>>
  BY DEF CreateThread, DeleteThread, StartScan, ScanFails
<1>2. events' \in 0 .. MaxEvents
  BY DEF CreateThread, DeleteThread, StartScan, ScanFails, Event, ConvInvariant, ConvTyped, ConvTypeOK
<1>3. busy' \subseteq Threads
  BY DEF CreateThread, DeleteThread, StartScan, ScanFails, ConvInvariant, ConvTyped, ConvTypeOK
<1>4. thread' \in [Threads -> Thread]
  BY DEF CreateThread, DeleteThread, StartScan, ScanFails, Opened,
         ConvInvariant, ConvTyped, ConvTypeOK, Thread
<1>5. ConvTyped'
  BY <1>1, <1>2, <1>3, <1>4 DEF ConvInvariant, ConvTyped, ConvTypeOK
<1>6. Owned'
  BY <1>1, QuietOwns
<1>7. \A s \in Summaries, i \in Messages : Remembered(s, i)'
  BY <1>1, QuietKeeps
<1>8. \A i \in Messages : InArchive(i)'
  BY <1>1 DEF ConvInvariant, Kept, InArchive
<1> QED BY <1>5, <1>6, <1>7, <1>8 DEF ConvInvariant, Kept

\* The user deletes messages, of which no summary is asked.
LEMMA ClearKeeps ==
  ASSUME ConvInvariant, NEW h \in Threads, Clear(h)
  PROVE  ConvInvariant'
<1>1. \A i \in Messages : /\ msg'[i] \in Message /\ msg'[i].thread = msg[i].thread
                          /\ msg'[i] = msg[i] \/ msg'[i].state = "gone"
  BY ConvFacts DEF Clear, ConvInvariant, Message
<1>2. events' \in 0 .. MaxEvents
  BY DEF Clear, Event, ConvInvariant, ConvTyped, ConvTypeOK
<1>3. ConvTyped'
  BY <1>1, <1>2 DEF Clear, ConvInvariant, ConvTyped, ConvTypeOK
<1>4. Owned'
  BY <1>1, QuietOwns DEF Clear
<1>5. \A s \in Summaries, i \in Messages : Remembered(s, i)'
  BY <1>1, QuietKeeps DEF Clear
<1>6. \A i \in Messages : InArchive(i)'
  BY <1>1 DEF Clear, ConvInvariant, Kept, InArchive
<1> QED BY <1>3, <1>4, <1>5, <1>6 DEF ConvInvariant, Kept

\* Time alone deletes nothing.
LEMMA AgesKeeps == ASSUME ConvInvariant, Ages PROVE ConvInvariant'
<1>1. events' \in 0 .. MaxEvents /\ aged' \in 0 .. MaxMessages
  BY DEF Ages, Event, ConvInvariant, ConvTyped, ConvTypeOK
<1>2. ConvTyped'
  BY <1>1 DEF Ages, ConvInvariant, ConvTyped, ConvTypeOK
<1>3. Owned'
  BY QuietOwns DEF Ages
<1>4. \A s \in Summaries, i \in Messages : Remembered(s, i)'
  BY QuietKeeps DEF Ages
<1>5. \A i \in Messages : InArchive(i)'
  BY DEF Ages, ConvInvariant, Kept, InArchive
<1> QED BY <1>2, <1>3, <1>4, <1>5 DEF ConvInvariant, Kept

\* A worker that dies leaves a summary to be claimed again.
LEMMA WriterDiesKeeps == ASSUME ConvInvariant, WriterDies PROVE ConvInvariant'
<1>1. events' \in 0 .. MaxEvents
  BY DEF WriterDies, Event, ConvInvariant, ConvTyped, ConvTypeOK
<1>2. ConvTyped'
  BY <1>1, NoTurnFacts DEF WriterDies, ConvInvariant, ConvTyped, ConvTypeOK
<1>3. Owned'
  BY QuietOwns DEF WriterDies
<1>4. \A s \in Summaries, i \in Messages : Remembered(s, i)'
  BY QuietKeeps DEF WriterDies
<1>5. \A i \in Messages : InArchive(i)'
  BY DEF WriterDies, ConvInvariant, Kept, InArchive
<1> QED BY <1>2, <1>3, <1>4, <1>5 DEF ConvInvariant, Kept

-----------------------------------------------------------------------------
\* The worker reads what the segment holds: all that counts, or it fails.
LEMMA StartSummaryKeeps ==
  ASSUME ConvInvariant, NEW s \in Summaries, StartSummary(s)
  PROVE  ConvInvariant'
<1> DEFINE read == {i \in Within(s) : msg[i].state = "active"}
           fits == Cardinality(read) = summary[s].count
           status == IF fits THEN "processing" ELSE "failed"
<1>1. /\ writer' = IF fits THEN [row |-> s, read |-> read] ELSE NoWriter
      /\ summary' = [summary EXCEPT ![s].status = status]
  BY DEF StartSummary
<1>2. /\ summary[s] \in Summary /\ summary[s].last \in 0 .. MaxMessages
      /\ status \in {"processing", "failed"}
      /\ summary[s].status \in {"queued", "processing"} /\ writer = NoWriter
  BY ConvFacts DEF StartSummary, ConvInvariant, ConvTyped
<1> HIDE DEF status, fits
<1>3. /\ summary' \in [Summaries -> Summary] /\ summary'[s] = [summary[s] EXCEPT !.status = status]
      /\ \A r \in Summaries : r # s => summary'[r] = summary[r]
  BY <1>1, <1>2 DEF ConvInvariant, ConvTyped, ConvTypeOK, Summary
<1>4. /\ summary'[s].status = status /\ summary'[s].thread = summary[s].thread
      /\ summary'[s].first = summary[s].first /\ summary'[s].last = summary[s].last
  BY <1>2, <1>3 DEF Summary
<1>5. read \subseteq Messages
  BY <1>2 DEF Within, ConvInvariant, ConvTyped, Messages
<1>6. ConvTyped'
  <2>1. writer'.row \in 0 .. MaxSummaries /\ writer'.read \subseteq Messages
    BY <1>1, <1>5, NoTurnFacts DEF Summaries
  <2>2. \A r \in Summaries : /\ summary'[r].last \in 0 .. MaxMessages
                             /\ summary'[r].status # "none" => summary'[r].first \in Messages
    BY <1>2, <1>3, <1>4 DEF ConvInvariant, ConvTyped
  <2> QED BY <1>3, <2>1, <2>2 DEF StartSummary, ConvInvariant, ConvTyped, ConvTypeOK
<1>7. Owned'
  <2>1. ASSUME NEW c \in Callers PROVE OwnTurn(c)'
    <3>1. OwnTurn(c) /\ turn[c].rows \subseteq Summaries /\ s \notin turn[c].rows
      BY <1>2, ConvFacts DEF ConvInvariant, ConvTyped, Owned, OwnTurn, Turn
    <3> QED BY <1>3, <3>1 DEF StartSummary, OwnTurn
  <2>2. Apart'
    BY DEF StartSummary, ConvInvariant, Owned, Apart
  <2>3. WriterOwn'
    BY <1>1, <1>4 DEF WriterOwn, NoWriter, status
  <2> QED BY <2>1, <2>2, <2>3 DEF Owned
<1>8. ASSUME NEW r \in Summaries, NEW i \in Messages PROVE Remembered(r, i)'
  <2>1. Remembered(r, i)
    BY DEF ConvInvariant, Kept
  <2>2. Within(r)' = Within(r) /\ summary'[r].first = summary[r].first /\ summary'[r].thread = summary[r].thread
    BY <1>3, <1>4 DEF Within
  <2>3. Counts(i)' = Counts(i) /\ msg' = msg /\ Exempt(r, i)' = Exempt(r, i)
    BY DEF StartSummary, Counts, Exempt
  <2>4. Covered(i) => Covered(i)'
    BY <1>2, <1>3, <2>3 DEF Covered
  <2>5. writer'.row = r /\ Counts(i) /\ i \in Within(r) => i \in writer'.read
    BY <1>1, NoTurnFacts DEF Counts, Summaries
  <2>6. summary'[r].status \in LiveSummary => summary[r].status \in LiveSummary
    BY <1>2, <1>3 DEF LiveSummary
  <2>7. summary'[r].status = "completed" => summary' [r] = summary[r]
    BY <1>2, <1>3, <1>4
  <2> QED BY <2>1, <2>2, <2>3, <2>4, <2>5, <2>6, <2>7 DEF Remembered
<1>9. \A i \in Messages : InArchive(i)'
  BY DEF StartSummary, ConvInvariant, Kept, InArchive
<1> QED BY <1>6, <1>7, <1>8, <1>9 DEF ConvInvariant, Kept

\* It writes what it read, or gives up: a row that was deleted stays deleted.
LEMMA EndSummaryKeeps == ASSUME ConvInvariant, EndSummary PROVE ConvInvariant'
<1> DEFINE s == writer.row
<1>1. s \in Summaries /\ summary[s].status \in {"processing", "deleted"} /\ writer' = NoWriter
  BY DEF EndSummary, ConvInvariant, Owned, WriterOwn
<1>2. summary[s] \in Summary /\ writer.read \subseteq Messages
  BY <1>1, ConvFacts DEF ConvInvariant, ConvTyped, ConvTypeOK
<1>3. \/ summary' = summary
      \/ summary' = [summary EXCEPT ![s].status = "failed"]
      \/ summary[s].status # "deleted" /\ summary' = [summary EXCEPT ![s] = [@ EXCEPT !.status = "completed", !.text = writer.read]]
  BY DEF EndSummary
<1> HIDE DEF s
<1>4. PICK row \in Summary : /\ summary' = [summary EXCEPT ![s] = row]
                             /\ \/ row = summary[s]
                                \/ row = [summary[s] EXCEPT !.status = "failed"]
                                \/ /\ summary[s].status # "deleted"
                                   /\ row = [summary[s] EXCEPT !.status = "completed", !.text = writer.read]
  <2>1. CASE summary' = summary
    BY <1>1, <1>2, <2>1 DEF ConvInvariant, ConvTyped, ConvTypeOK
  <2>2. CASE summary' = [summary EXCEPT ![s].status = "failed"]
    <3>1. [summary[s] EXCEPT !.status = "failed"] \in Summary
      BY <1>2 DEF Summary
    <3> QED BY <2>2, <3>1
  <2>3. CASE /\ summary[s].status # "deleted"
             /\ summary' = [summary EXCEPT ![s] = [@ EXCEPT !.status = "completed", !.text = writer.read]]
    <3>1. [summary[s] EXCEPT !.status = "completed", !.text = writer.read] \in Summary
      BY <1>2 DEF Summary
    <3> QED BY <2>3, <3>1
  <2> QED BY <1>3, <2>1, <2>2, <2>3
<1>5. /\ summary' \in [Summaries -> Summary] /\ summary'[s] = row
      /\ \A r \in Summaries : r # s => summary'[r] = summary[r]
  BY <1>1, <1>4 DEF ConvInvariant, ConvTyped, ConvTypeOK
<1>6. /\ summary'[s].thread = summary[s].thread
      /\ summary'[s].first = summary[s].first /\ summary'[s].last = summary[s].last
      /\ \/ summary'[s] = summary[s]
         \/ summary'[s].status = "failed"
         \/ /\ summary[s].status = "processing" /\ summary'[s].status = "completed"
            /\ summary'[s].text = writer.read
  BY <1>1, <1>2, <1>4, <1>5 DEF Summary
<1>7. ConvTyped'
  <2>1. \A r \in Summaries : /\ summary'[r].last \in 0 .. MaxMessages
                             /\ summary'[r].status # "none" => summary'[r].first \in Messages
    BY <1>1, <1>5, <1>6 DEF ConvInvariant, ConvTyped
  <2>2. writer'.row \in 0 .. MaxSummaries /\ writer'.read \subseteq Messages
    BY <1>1, NoTurnFacts
  <2>3. UNCHANGED <<msg, archive, thread, busy, turn, aged, events, overlooked>>
    BY DEF EndSummary
  <2> QED BY <1>5, <2>1, <2>2, <2>3 DEF ConvInvariant, ConvTyped, ConvTypeOK
<1>8. Owned'
  <2>1. ASSUME NEW c \in Callers PROVE OwnTurn(c)'
    <3>1. OwnTurn(c) /\ turn[c].rows \subseteq Summaries /\ s \notin turn[c].rows
      BY <1>1, ConvFacts DEF ConvInvariant, ConvTyped, Owned, OwnTurn, Turn
    <3> QED BY <1>5, <3>1 DEF EndSummary, OwnTurn
  <2>2. Apart'
    BY DEF EndSummary, ConvInvariant, Owned, Apart
  <2>3. WriterOwn'
    BY <1>1 DEF WriterOwn
  <2> QED BY <2>1, <2>2, <2>3 DEF Owned
<1>9. ASSUME NEW r \in Summaries, NEW i \in Messages PROVE Remembered(r, i)'
  <2>1. Remembered(r, i)
    BY DEF ConvInvariant, Kept
  <2>2. Within(r)' = Within(r) /\ summary'[r].first = summary[r].first /\ summary'[r].thread = summary[r].thread
    BY <1>5, <1>6 DEF Within
  <2>3. Counts(i)' = Counts(i) /\ msg' = msg /\ Exempt(r, i)' = Exempt(r, i)
    BY DEF EndSummary, Counts, Exempt
  <2>4. Covered(i) => Covered(i)'
    BY <1>1, <1>5, <1>6, <2>3 DEF Covered
  <2>5. writer'.row # r
    BY <1>1, NoTurnFacts DEF Summaries
  <2>6. summary'[r].status \in LiveSummary => summary[r].status \in LiveSummary
    BY <1>5, <1>6 DEF LiveSummary
  <2>7. summary'[r].status = "completed" => summary'[r] = summary[r] \/ (writer.row = r /\ summary'[r].text = writer.read)
    BY <1>5, <1>6 DEF s
  <2> QED BY <2>1, <2>2, <2>3, <2>4, <2>5, <2>6, <2>7 DEF Remembered
<1>10. \A i \in Messages : InArchive(i)'
  BY DEF EndSummary, ConvInvariant, Kept, InArchive
<1> QED BY <1>7, <1>8, <1>9, <1>10 DEF ConvInvariant, Kept

-----------------------------------------------------------------------------
\* An archive goes with the summaries it may have fed: what only they held, is overlooked.
LEMMA DeleteArchiveKeeps ==
  ASSUME ConvInvariant, NEW a \in Archives, DeleteArchive(a)
  PROVE  ConvInvariant'
<1> DEFINE kept == archive[a].source
           lost == {s \in Summaries : /\ summary[s].status \notin {"none", "unsaved", "deleted"}
                                      /\ summary[s].first <= Max(kept) /\ summary[s].last >= Min(kept)}
<1>1. /\ summary' = [s \in Summaries |-> IF s \in lost THEN [summary[s] EXCEPT !.status = "deleted"]
                                         ELSE summary[s]]
      /\ overlooked' = overlooked \cup {i \in UNION {summary[s].text : s \in lost} :
                                          msg[i].state = "active"}
      /\ \A s \in lost : s \in Summaries /\ summary[s].status \notin {"none", "unsaved", "deleted"}
  BY DEF DeleteArchive
<1> HIDE DEF lost
<1>2. \A s \in Summaries : /\ s \notin lost => summary'[s] = summary[s]
                           /\ s \in lost => summary'[s] = [summary[s] EXCEPT !.status = "deleted"]
  BY <1>1
<1>3. \A s \in Summaries : /\ summary'[s] \in Summary /\ summary'[s].thread = summary[s].thread
                           /\ summary'[s].first = summary[s].first /\ summary'[s].last = summary[s].last
                           /\ s \in lost => summary'[s].status = "deleted"
                           /\ summary'[s] = summary[s] \/ s \in lost
  <2> SUFFICES ASSUME NEW s \in Summaries
               PROVE  /\ summary'[s] \in Summary /\ summary'[s].thread = summary[s].thread
                      /\ summary'[s].first = summary[s].first /\ summary'[s].last = summary[s].last
                      /\ s \in lost => summary'[s].status = "deleted"
                      /\ summary'[s] = summary[s] \/ s \in lost
    OBVIOUS
  <2>1. summary[s] \in Summary
    BY ConvFacts DEF ConvInvariant
  <2>2. CASE s \in lost
    BY <1>2, <2>1, <2>2 DEF Summary
  <2>3. CASE s \notin lost
    BY <1>2, <2>1, <2>3
  <2> QED BY <2>2, <2>3
<1>4. \A i \in Messages : /\ msg'[i] \in Message /\ msg'[i].thread = msg[i].thread
                          /\ msg'[i] = msg[i] \/ msg'[i].state = "gone"
                          /\ msg[i].state = "archived" /\ msg[i].archive = a => msg'[i].state = "gone"
  BY ConvFacts DEF DeleteArchive, ConvInvariant, Message
<1>5. ConvTyped'
  <2>1. \A s \in Summaries : /\ summary'[s].last \in 0 .. MaxMessages
                             /\ summary'[s].status # "none" => summary'[s].first \in Messages
    BY <1>1, <1>3 DEF ConvInvariant, ConvTyped
  <2>2. archive' \in [Archives -> Archive]
    BY DEF DeleteArchive, ConvInvariant, ConvTyped, ConvTypeOK, Archive
  <2>3. thread' \in [Threads -> Thread]
    BY ConvFacts DEF DeleteArchive, ConvInvariant, Thread
  <2>4. overlooked' \subseteq Messages
    <3>1. \A s \in Summaries : summary[s].text \subseteq Messages
      BY ConvFacts DEF ConvInvariant, Summary
    <3> QED BY <1>1, <3>1 DEF ConvInvariant, ConvTyped, ConvTypeOK
  <2>5. msg' \in [Messages -> Message] /\ summary' \in [Summaries -> Summary]
    BY <1>1, <1>3, <1>4 DEF DeleteArchive
  <2> QED BY <2>1, <2>2, <2>3, <2>4, <2>5 DEF DeleteArchive, ConvInvariant, ConvTyped, ConvTypeOK
<1>6. Owned'
  <2>1. ASSUME NEW c \in Callers PROVE OwnTurn(c)'
    <3>1. OwnTurn(c) /\ turn[c].rows \subseteq Summaries /\ turn[c].wrote \subseteq Messages
      BY ConvFacts DEF ConvInvariant, ConvTyped, Owned, Turn
    <3>2. \A s \in turn[c].rows : summary'[s].status = "unsaved"
      BY <1>1, <1>3, <3>1 DEF OwnTurn
    <3>3. \A i \in turn[c].wrote : msg'[i].state # "none" /\ msg'[i].thread = turn[c].thread
      BY <1>4, <3>1 DEF OwnTurn
    <3> QED BY <3>1, <3>2, <3>3 DEF DeleteArchive, OwnTurn
  <2>2. Apart'
    BY DEF DeleteArchive, ConvInvariant, Owned, Apart
  <2>3. WriterOwn'
    BY <1>3 DEF DeleteArchive, ConvInvariant, Owned, WriterOwn
  <2> QED BY <2>1, <2>2, <2>3 DEF Owned
<1>7. ASSUME NEW s \in Summaries, NEW i \in Messages PROVE Remembered(s, i)'
  <2>1. Remembered(s, i)
    BY DEF ConvInvariant, Kept
  <2>2. Within(s)' = Within(s) /\ Exempt(s, i)' = Exempt(s, i) /\ writer' = writer
    BY <1>3 DEF DeleteArchive, Within, Exempt
  <2>3. Counts(i)' => Counts(i) /\ msg'[i].thread = msg[i].thread
    BY <1>1, <1>4 DEF Counts
  <2>4. Counts(i)' /\ Covered(i) => Covered(i)'
    <3> SUFFICES ASSUME Counts(i)', Covered(i) PROVE Covered(i)'
      OBVIOUS
    <3>1. PICK r \in Summaries : /\ summary[r].status = "completed" /\ summary[r].thread = msg[i].thread
                                 /\ i \in summary[r].text
      BY DEF Covered
    <3>2. r \notin lost
      BY <1>1, <2>3, <3>1 DEF Counts
    <3> QED BY <1>3, <2>3, <3>1, <3>2 DEF Covered
  <2>5. summary'[s].status \in LiveSummary \cup {"completed"} => summary'[s] = summary[s]
    BY <1>3 DEF LiveSummary
  <2> QED BY <1>3, <2>1, <2>2, <2>3, <2>4, <2>5 DEF Remembered, LiveSummary
<1>8. ASSUME NEW i \in Messages PROVE InArchive(i)'
  <2>1. \A b \in Archives : b # a => archive'[b] = archive[b]
    BY DEF DeleteArchive, ConvInvariant, ConvTyped, ConvTypeOK
  <2> QED BY <1>4, <2>1 DEF ConvInvariant, Kept, InArchive
<1> QED BY <1>5, <1>6, <1>7, <1>8 DEF ConvInvariant, Kept

-----------------------------------------------------------------------------
\* The commit: what its segments leave out, and what others cut or read without its
\* messages, is overlooked or deleted.
LEMMA AnswerKeeps ==
  ASSUME ConvInvariant, NEW c \in Callers, Answer(c)
  PROVE  ConvInvariant'
<1> DEFINE t == turn[c]
           answered == [NoTurn EXCEPT !.pc = "answered", !.thread = t.thread]
<1>1. /\ t \in Turn /\ OwnTurn(c)
      /\ t.rows \subseteq Summaries /\ t.wrote \subseteq Messages /\ t.thread \in Threads
  BY ConvFacts DEF ConvInvariant, Owned, Turn
<1>2. answered \in Turn /\ answered.rows = {} /\ answered.wrote = {} /\ answered.swept = {}
  <2> DEFINE h == t.thread
  <2>1. answered = [NoTurn EXCEPT !.pc = "answered", !.thread = h]
    OBVIOUS
  <2>2. h \in Threads
    BY <1>1
  <2> HIDE DEF answered, h
  <2>3. answered = [pc |-> "answered", thread |-> h, left |-> 0, wrote |-> {}, swept |-> {}, rows |-> {},
                    source |-> {}, rolls |-> FALSE, filed |-> "none"]
    BY ONLY <2>1 DEF NoTurn
  <2> QED BY <2>2, <2>3 DEF Turn
<1>3. turn' = [turn EXCEPT ![c] = answered] \/ turn' = [turn EXCEPT ![c] = NoTurn]
  BY DEF Answer
<1> HIDE DEF answered
<1>4. /\ turn' \in [Callers -> Turn]
      /\ turn'[c].rows = {} /\ turn'[c].wrote = {} /\ turn'[c].swept = {}
      /\ \A d \in Callers : d # c => turn'[d] = turn[d]
  BY <1>2, <1>3, NoTurnFacts DEF ConvInvariant, ConvTyped, ConvTypeOK
<1>5. /\ \A i \in t.wrote : msg'[i] = [msg[i] EXCEPT !.state = "active"]
      /\ \A i \in t.swept \ t.wrote : i \in Messages => msg'[i] = [msg[i] EXCEPT !.state = "gone"]
      /\ \A i \in Messages \ (t.wrote \cup t.swept) : msg'[i] = msg[i]
      /\ DOMAIN msg' = Messages /\ msg' = [i \in Messages |-> msg'[i]]
  BY <1>1 DEF Answer
<1>6. /\ \A s \in t.rows : summary'[s] = [summary[s] EXCEPT !.status = "queued"]
      /\ \A s \in Summaries \ t.rows : summary'[s] = summary[s]
      /\ summary' = [s \in Summaries |-> summary'[s]]
  BY <1>1 DEF Answer
<1>7. ASSUME NEW i \in Messages
      PROVE  /\ msg'[i] \in Message /\ msg'[i].thread = msg[i].thread
             /\ i \in t.wrote => msg'[i].state = "active"
             /\ i \in t.swept \ t.wrote => msg'[i].state = "gone"
             /\ i \notin t.swept \cup t.wrote => msg'[i] = msg[i]
  <2>1. msg[i] \in Message
    BY ConvFacts DEF ConvInvariant
  <2>2. CASE i \in t.wrote
    BY <1>5, <2>1, <2>2 DEF Message
  <2>3. CASE i \in t.swept \ t.wrote
    BY <1>5, <2>1, <2>3 DEF Message
  <2>4. CASE i \notin t.swept \cup t.wrote
    BY <1>5, <2>1, <2>4
  <2> QED BY <2>2, <2>3, <2>4
<1>8. ASSUME NEW s \in Summaries
      PROVE  /\ summary'[s] \in Summary /\ summary'[s].thread = summary[s].thread
             /\ summary'[s].first = summary[s].first /\ summary'[s].last = summary[s].last
             /\ s \in t.rows => summary[s].status = "unsaved" /\ summary'[s].status = "queued"
             /\ s \notin t.rows => summary'[s] = summary[s]
  <2>1. summary[s] \in Summary
    BY ConvFacts DEF ConvInvariant
  <2>2. CASE s \in t.rows
    <3>1. summary'[s] = [summary[s] EXCEPT !.status = "queued"]
      BY <1>6, <2>2
    <3>2. summary[s].status = "unsaved"
      BY <1>1, <2>2 DEF OwnTurn
    <3> QED BY <2>1, <2>2, <3>1, <3>2 DEF Summary
  <2>3. CASE s \notin t.rows
    BY <1>6, <2>1, <2>3
  <2> QED BY <2>2, <2>3
<1>9. /\ overlooked' = overlooked \cup
           {i \in t.wrote : \E s \in Summaries : summary[s].thread = t.thread /\ Misses(s, i)}
      /\ UNCHANGED <<archive, thread, writer, aged, events>> /\ busy' \subseteq Threads
  BY <1>1 DEF Answer, ConvInvariant, ConvTyped, ConvTypeOK
<1> HIDE DEF t
<1>10. ConvTyped'
  <2>1. \A s \in Summaries : /\ summary'[s].last \in 0 .. MaxMessages
                             /\ summary'[s].status # "none" => summary'[s].first \in Messages
    BY <1>8 DEF ConvInvariant, ConvTyped
  <2>2. msg' \in [Messages -> Message] /\ summary' \in [Summaries -> Summary]
    BY <1>5, <1>6, <1>7, <1>8
  <2>3. overlooked' \subseteq Messages
    BY <1>1, <1>9 DEF ConvInvariant, ConvTyped, ConvTypeOK
  <2> QED BY <1>4, <1>9, <2>1, <2>2, <2>3 DEF ConvInvariant, ConvTyped, ConvTypeOK
<1>11. Owned'
  <2>1. ASSUME NEW d \in Callers PROVE OwnTurn(d)'
    <3>1. CASE d = c
      BY <1>4, <3>1 DEF OwnTurn
    <3>2. CASE d # c
      <4>1. OwnTurn(d) /\ turn'[d] = turn[d]
            /\ turn[d].rows \subseteq Summaries /\ turn[d].wrote \subseteq Messages
        BY <1>4, <3>2, ConvFacts DEF ConvInvariant, Owned, Turn
      <4>2. turn[d].rows \cap t.rows = {}
        BY <3>2 DEF t, ConvInvariant, Owned, Apart
      <4>3. \A s \in turn[d].rows : summary'[s].status = "unsaved"
        BY <1>8, <4>1, <4>2 DEF OwnTurn
      <4>4. \A i \in turn[d].wrote : msg'[i].state # "none" /\ msg'[i].thread = turn[d].thread
        BY <1>7, <4>1 DEF OwnTurn
      <4> QED BY <4>1, <4>3, <4>4 DEF OwnTurn
    <3> QED BY <3>1, <3>2
  <2>2. Apart'
    BY <1>4 DEF ConvInvariant, Owned, Apart
  <2>3. WriterOwn'
    BY <1>8, <1>9 DEF ConvInvariant, Owned, WriterOwn
  <2> QED BY <2>1, <2>2, <2>3 DEF Owned
<1>12. ASSUME NEW s \in Summaries, NEW i \in Messages PROVE Remembered(s, i)'
  <2> SUFFICES ASSUME Counts(i)', summary'[s].thread = msg'[i].thread
               PROVE  /\ summary'[s].status \in LiveSummary /\ i < summary'[s].first => Covered(i)' \/ Exempt(s, i)'
                      /\ summary'[s].status = "completed" /\ i \in Within(s)' => i \in summary'[s].text
                      /\ writer'.row = s /\ i \in Within(s)' => i \in writer'.read
    BY DEF Remembered
  <2>1. /\ Within(s)' = Within(s) /\ writer' = writer
        /\ summary[s].thread = msg[i].thread /\ summary'[s].first = summary[s].first
        /\ summary'[s].status \in LiveSummary => summary[s].status \in LiveSummary
        /\ summary'[s].status = "completed" => summary'[s] = summary[s]
    BY <1>7, <1>8, <1>9 DEF Within, LiveSummary
  <2>2. CASE i \in t.wrote
    <3>1. ~ Misses(s, i)
      BY <1>1, <1>9, <2>1, <2>2 DEF Counts, t, OwnTurn
    <3>2. ~ (summary[s].status \in LiveSummary /\ i < summary[s].first)
      BY <3>1 DEF Misses, LiveSummary
    <3>3. i \in Within(s) => summary[s].status # "completed" /\ writer.row # s
      BY <3>1 DEF Misses
    <3> QED BY <2>1, <3>2, <3>3
  <2>3. CASE i \notin t.wrote
    <3>1. i \notin t.swept /\ msg'[i] = msg[i]
      BY <1>7, <2>3 DEF Counts
    <3>2. Counts(i) /\ Remembered(s, i)
      BY <1>9, <3>1 DEF Counts, ConvInvariant, Kept
    <3>3. Covered(i) => Covered(i)'
      BY <1>8, <3>1 DEF Covered
    <3>4. Exempt(s, i) => Exempt(s, i)'
      BY <1>4, <3>1 DEF Exempt, t
    <3> QED BY <2>1, <3>2, <3>3, <3>4 DEF Remembered
  <2> QED BY <2>2, <2>3
<1>13. \A i \in Messages : InArchive(i)'
  BY <1>7, <1>9 DEF ConvInvariant, Kept, InArchive
<1> QED BY <1>10, <1>11, <1>12, <1>13 DEF ConvInvariant, Kept

\* What has not been committed is undone, its summaries too.
LEMMA FailKeeps ==
  ASSUME ConvInvariant, NEW c \in Callers, Fail(c)
  PROVE  ConvInvariant'
<1> DEFINE t == turn[c]
<1>1. /\ t \in Turn /\ OwnTurn(c)
      /\ t.rows \subseteq Summaries /\ t.wrote \subseteq Messages
  BY ConvFacts DEF ConvInvariant, Owned, Turn
<1>2. /\ turn' \in [Callers -> Turn] /\ turn'[c] = NoTurn
      /\ \A d \in Callers : d # c => turn'[d] = turn[d]
  BY NoTurnFacts DEF Fail, ConvInvariant, ConvTyped, ConvTypeOK
<1>3. ASSUME NEW i \in Messages
      PROVE  /\ msg'[i] \in Message /\ msg'[i].thread = msg[i].thread
             /\ msg'[i].state = "gone" \/ msg'[i] = msg[i]
  BY ConvFacts DEF Fail, ConvInvariant, Message
<1>4. ASSUME NEW s \in Summaries
      PROVE  /\ summary'[s] \in Summary /\ summary'[s].thread = summary[s].thread
             /\ summary'[s].first = summary[s].first /\ summary'[s].last = summary[s].last
             /\ s \in t.rows => summary[s].status = "unsaved" /\ summary'[s].status = "deleted"
             /\ s \notin t.rows => summary'[s] = summary[s]
  <2>1. summary[s] \in Summary
    BY ConvFacts DEF ConvInvariant
  <2>2. CASE s \in t.rows
    <3>1. summary'[s] = [summary[s] EXCEPT !.status = "deleted"]
      BY <2>2 DEF Fail
    <3> QED BY <1>1, <2>1, <2>2, <3>1 DEF Summary, OwnTurn
  <2>3. CASE s \notin t.rows
    <3>1. summary'[s] = summary[s]
      BY <2>3 DEF Fail
    <3> QED BY <2>1, <2>3, <3>1
  <2> QED BY <2>2, <2>3
<1>5. /\ events' \in 0 .. MaxEvents /\ UNCHANGED <<archive, thread, busy, writer, aged, overlooked>>
      /\ DOMAIN msg' = Messages /\ msg' = [i \in Messages |-> msg'[i]]
      /\ summary' = [s \in Summaries |-> summary'[s]]
  BY DEF Fail, Event, ConvInvariant, ConvTyped, ConvTypeOK
<1> HIDE DEF t
<1>6. ConvTyped'
  <2>1. \A s \in Summaries : /\ summary'[s].last \in 0 .. MaxMessages
                             /\ summary'[s].status # "none" => summary'[s].first \in Messages
    BY <1>4 DEF ConvInvariant, ConvTyped
  <2>2. msg' \in [Messages -> Message] /\ summary' \in [Summaries -> Summary]
    BY <1>3, <1>4, <1>5
  <2> QED BY <1>2, <1>5, <2>1, <2>2 DEF ConvInvariant, ConvTyped, ConvTypeOK
<1>7. Owned'
  <2>1. ASSUME NEW d \in Callers PROVE OwnTurn(d)'
    <3>1. CASE d = c
      BY <1>2, <3>1, NoTurnFacts DEF OwnTurn
    <3>2. CASE d # c
      <4>1. OwnTurn(d) /\ turn'[d] = turn[d]
            /\ turn[d].rows \subseteq Summaries /\ turn[d].wrote \subseteq Messages
        BY <1>2, <3>2, ConvFacts DEF ConvInvariant, Owned, Turn
      <4>2. turn[d].rows \cap t.rows = {}
        BY <3>2 DEF t, ConvInvariant, Owned, Apart
      <4>3. \A s \in turn[d].rows : summary'[s].status = "unsaved"
        BY <1>4, <4>1, <4>2 DEF OwnTurn
      <4>4. \A i \in turn[d].wrote : msg'[i].state # "none" /\ msg'[i].thread = turn[d].thread
        BY <1>3, <4>1 DEF OwnTurn
      <4> QED BY <4>1, <4>3, <4>4 DEF OwnTurn
    <3> QED BY <3>1, <3>2
  <2>2. Apart'
    BY <1>2, NoTurnFacts DEF ConvInvariant, Owned, Apart
  <2>3. WriterOwn'
    BY <1>4, <1>5 DEF ConvInvariant, Owned, WriterOwn
  <2> QED BY <2>1, <2>2, <2>3 DEF Owned
<1>8. ASSUME NEW s \in Summaries, NEW i \in Messages PROVE Remembered(s, i)'
  <2>1. Remembered(s, i)
    BY DEF ConvInvariant, Kept
  <2>2. Counts(i)' => Counts(i) /\ msg'[i] = msg[i]
    BY <1>3, <1>5 DEF Counts
  <2>3. Within(s)' = Within(s) /\ writer' = writer
    BY <1>4, <1>5 DEF Within
  <2>4. summary'[s].status \in LiveSummary => s \notin t.rows /\ summary'[s] = summary[s]
    BY <1>4 DEF LiveSummary
  <2>5. s \notin t.rows => (Exempt(s, i) => Exempt(s, i)')
    BY <1>2 DEF Exempt, t
  <2>6. msg'[i] = msg[i] => (Covered(i) => Covered(i)')
    BY <1>4 DEF Covered
  <2>7. summary'[s].thread = summary[s].thread /\ summary'[s].first = summary[s].first
    BY <1>4
  <2> QED BY <2>1, <2>2, <2>3, <2>4, <2>5, <2>6, <2>7 DEF Remembered, LiveSummary
<1>9. \A i \in Messages : InArchive(i)'
  BY <1>3, <1>5 DEF ConvInvariant, Kept, InArchive
<1> QED BY <1>6, <1>7, <1>8, <1>9 DEF ConvInvariant, Kept

-----------------------------------------------------------------------------
\* A segment of a caller: it is among the messages, and what lies before it is summarized.
LEMMA SegmentFacts ==
  ASSUME NEW c, NEW h, NEW heard \in SUBSET Messages, NEW seg \in Segments(c, h, heard), seg # {},
         Summarized(h) \in Nat
  PROVE  /\ seg \subseteq Messages /\ Cardinality(seg) \in Nat
         /\ Min(seg) \in seg /\ Max(seg) \in seg
         /\ \A i \in heard : i < Min(seg) => i <= Summarized(h)
<1> DEFINE candidates == {i \in heard : i > Summarized(h)}
           upTo(i) == {j \in candidates : j <= i}
<1>1. PICK k \in candidates : seg = upTo(k)
  BY DEF Segments
<1>2. seg \subseteq Messages /\ seg \in SUBSET Nat /\ seg \in SUBSET (0 .. MaxMessages)
  <2>1. seg \subseteq heard
    BY <1>1
  <2>2. seg \subseteq Messages
    BY <2>1
  <2> QED BY <2>2 DEF Messages
<1>3. Cardinality(seg) \in Nat
  <2>1. IsFiniteSet(1 .. MaxMessages)
    BY FS_Interval
  <2>2. IsFiniteSet(seg)
    BY <1>2, <2>1, FS_Subset DEF Messages
  <2> QED BY <2>2, FS_CardinalityType
<1>4. Min(seg) \in seg /\ \A y \in seg : Min(seg) <= y
  BY <1>2, LeastOf
<1>5. Max(seg) \in seg
  BY <1>2, GreatestOf
<1>6. ASSUME NEW i \in heard, i < Min(seg), ~ (i <= Summarized(h)) PROVE FALSE
  <2>1. k \in Nat /\ i \in Nat /\ Min(seg) \in Nat /\ Min(seg) <= k
    BY <1>1, <1>2, <1>4 DEF Messages
  <2>2. i \in candidates /\ i <= k
    BY <1>6, <2>1
  <2>3. i \in seg
    BY <1>1, <2>2
  <2> QED BY <1>4, <1>6, <2>1, <2>3
<1> QED BY <1>2, <1>3, <1>4, <1>5, <1>6

\* What the turn says is its own; a segment that it cuts begins behind what is covered, or
\* the turn deletes what it leaves.
LEMMA SayKeeps ==
  ASSUME ConvInvariant, NEW c \in Callers, Say(c)
  PROVE  ConvInvariant'
<1> DEFINE h == turn[c].thread
           used == {j \in Messages : msg[j].state # "none"}
           cut == {r \in Summaries : summary[r].status # "none"}
           new == Newest(used) + 1
           free == Newest(cut) + 1
           heard == Seen(c, h) \cup {new}
<1>1. turn[c] \in Turn /\ h \in Threads /\ OwnTurn(c)
  BY ConvFacts DEF ConvInvariant, Owned, Turn
<1>2. new \in Messages /\ msg' = [msg EXCEPT ![new] = [@ EXCEPT !.state = "unsaved", !.thread = h]]
  BY DEF Say
<1>3. PICK seg \in Segments(c, h, heard) :
           /\ seg # {} => free \in Summaries
           /\ summary' = IF seg = {} THEN summary
                         ELSE [summary EXCEPT ![free] = [@ EXCEPT !.status = "unsaved", !.thread = h,
                                                               !.first = Min(seg), !.last = Max(seg),
                                                               !.count = Cardinality(seg)]]
           /\ turn' = [turn EXCEPT ![c] = [turn[c] EXCEPT
                         !.left = @ - 1, !.wrote = @ \cup {new},
                         !.swept = @ \cup {j \in heard : j <= aged},
                         !.rows = IF seg = {} THEN @ ELSE @ \cup {free}]]
  BY DEF Say
<1>4. /\ UNCHANGED <<archive, thread, busy, writer, aged, events, overlooked>>
      /\ turn[c].pc = "writing" /\ turn[c].left > 0
  BY DEF Say
<1>5. msg[new].state = "none"
  <2>1. used \in SUBSET (1 .. MaxMessages)
    BY DEF Messages
  <2>2. Newest(used) \in 0 .. MaxMessages /\ \A y \in used : Newest(used) >= y
    BY <2>1, NewestOf
  <2> HIDE DEF used
  <2>3. new \notin used
    BY <2>1, <2>2
  <2> QED BY <1>2, <2>3 DEF used
<1>6. seg # {} => summary[free].status = "none"
  <2>1. cut \in SUBSET (1 .. MaxSummaries)
    BY DEF Summaries
  <2>2. Newest(cut) \in 0 .. MaxSummaries /\ \A y \in cut : Newest(cut) >= y
    BY <2>1, NewestOf
  <2> HIDE DEF cut
  <2>3. free \notin cut
    BY <2>1, <2>2
  <2> QED BY <1>3, <2>3 DEF cut
<1>7. heard \in SUBSET Messages /\ Seen(c, h) \subseteq heard
  BY <1>2 DEF Seen
<1>8. seg # {} => /\ Cardinality(seg) \in Nat /\ Min(seg) \in Messages /\ Max(seg) \in Messages
                  /\ \A i \in heard : i < Min(seg) => i <= Summarized(h)
  <2>1. Summarized(h) \in Nat
    BY <1>1, SummarizedIsLast
  <2> HIDE DEF heard, h
  <2> QED BY <1>3, <1>7, <2>1, SegmentFacts
<1> HIDE DEF h, used, cut, new, free
<1>9. /\ msg' \in [Messages -> Message]
      /\ msg'[new].state = "unsaved" /\ msg'[new].thread = h
      /\ \A i \in Messages : i # new => msg'[i] = msg[i]
  <2>1. h \in Threads
    BY <1>1
  <2>2. msg[new] \in Message
    BY <1>2, ConvFacts DEF ConvInvariant
  <2> DEFINE row == [msg[new] EXCEPT !.state = "unsaved", !.thread = h]
  <2>3. row \in Message /\ row.state = "unsaved" /\ row.thread = h
    BY <2>1, <2>2 DEF Message
  <2>4. msg' = [msg EXCEPT ![new] = row]
    BY <1>2
  <2> HIDE DEF row
  <2> QED BY <1>2, <2>3, <2>4 DEF ConvInvariant, ConvTyped, ConvTypeOK
<1>10. /\ summary' \in [Summaries -> Summary]
       /\ \A r \in Summaries : r # free \/ seg = {} => summary'[r] = summary[r]
       /\ seg # {} => /\ summary'[free].status = "unsaved" /\ summary'[free].thread = h
                      /\ summary'[free].first = Min(seg) /\ summary'[free].last = Max(seg)
  <2>1. CASE seg = {}
    BY <1>3, <2>1 DEF ConvInvariant, ConvTyped, ConvTypeOK
  <2>2. CASE seg # {}
    <3> DEFINE first == Min(seg)
               last == Max(seg)
               count == Cardinality(seg)
    <3>1. summary' = [summary EXCEPT ![free] = [@ EXCEPT !.status = "unsaved", !.thread = h,
                                               !.first = first, !.last = last, !.count = count]]
      BY <1>3, <2>2
    <3>2. first \in Nat /\ last \in Nat /\ count \in Nat /\ free \in Summaries
      BY <1>3, <1>8, <2>2 DEF Messages
    <3> HIDE DEF first, last, count
    <3>3. summary[free] \in Summary
      BY <3>2, ConvFacts DEF ConvInvariant
    <3> DEFINE row == [summary[free] EXCEPT !.status = "unsaved", !.thread = h,
                                            !.first = first, !.last = last, !.count = count]
    <3>4. /\ row \in Summary /\ row.status = "unsaved" /\ row.thread = h
          /\ row.first = first /\ row.last = last
      BY <1>1, <3>2, <3>3 DEF Summary
    <3>5. summary' = [summary EXCEPT ![free] = row]
      BY <3>1
    <3> HIDE DEF row
    <3> QED BY <2>2, <3>2, <3>4, <3>5 DEF first, last, ConvInvariant, ConvTyped, ConvTypeOK
  <2> QED BY <2>1, <2>2
<1>11. /\ turn' \in [Callers -> Turn]
       /\ \A d \in Callers : d # c => turn'[d] = turn[d]
       /\ turn'[c].thread = h /\ turn'[c].pc = "writing" /\ turn'[c].wrote = turn[c].wrote \cup {new}
       /\ turn[c].swept \subseteq turn'[c].swept
       /\ turn'[c].rows = IF seg = {} THEN turn[c].rows ELSE turn[c].rows \cup {free}
  <2> DEFINE left == turn[c].left - 1
             wrote == turn[c].wrote \cup {new}
             swept == turn[c].swept \cup {j \in heard : j <= aged}
             own == IF seg = {} THEN turn[c].rows ELSE turn[c].rows \cup {free}
             next == [turn[c] EXCEPT !.left = left, !.wrote = wrote, !.swept = swept, !.rows = own]
  <2>1. turn' = [turn EXCEPT ![c] = next]
    BY <1>3
  <2>2. /\ left \in 0 .. 2 /\ wrote \subseteq Messages /\ swept \subseteq Messages
        /\ own \subseteq Summaries
    BY <1>1, <1>2, <1>3, <1>4, <1>7 DEF Turn
  <2> HIDE DEF left, wrote, swept, own
  <2>3. /\ next \in Turn /\ next.thread = turn[c].thread /\ next.pc = turn[c].pc
        /\ next.wrote = wrote /\ next.swept = swept /\ next.rows = own
    BY <1>1, <2>2 DEF Turn
  <2> HIDE DEF next
  <2>4. turn' \in [Callers -> Turn] /\ turn'[c] = next /\ \A d \in Callers : d # c => turn'[d] = turn[d]
    BY <2>1, <2>3 DEF ConvInvariant, ConvTyped, ConvTypeOK
  <2> QED BY <1>4, <2>3, <2>4 DEF h, wrote, swept, own
<1>12. ConvTyped'
  <2>1. \A s \in Summaries : /\ summary'[s].last \in 0 .. MaxMessages
                             /\ summary'[s].status # "none" => summary'[s].first \in Messages
    BY <1>8, <1>10 DEF ConvInvariant, ConvTyped, Messages
  <2> QED BY <1>4, <1>9, <1>10, <1>11, <2>1 DEF ConvInvariant, ConvTyped, ConvTypeOK
<1>13. \A d \in Callers : seg # {} => free \notin turn[d].rows
  BY <1>6 DEF ConvInvariant, Owned, OwnTurn
<1>14. Owned'
  <2>1. ASSUME NEW d \in Callers PROVE OwnTurn(d)'
    <3>1. OwnTurn(d) /\ turn[d].rows \subseteq Summaries /\ turn[d].wrote \subseteq Messages
      BY ConvFacts DEF ConvInvariant, Owned, Turn
    <3>2. \A s \in turn[d].rows : summary'[s].status = "unsaved"
      BY <1>10, <1>13, <3>1 DEF OwnTurn
    <3>3. \A i \in turn[d].wrote : msg'[i].state # "none" /\ msg'[i].thread = turn[d].thread
      BY <1>5, <1>9, <3>1 DEF OwnTurn
    <3>4. CASE d = c
      BY <1>4, <1>9, <1>10, <1>11, <3>2, <3>3, <3>4 DEF OwnTurn, h
    <3>5. CASE d # c
      BY <1>11, <3>1, <3>2, <3>3, <3>5 DEF OwnTurn
    <3> QED BY <3>4, <3>5
  <2>2. Apart'
    BY <1>11, <1>13 DEF ConvInvariant, Owned, Apart
  <2>3. WriterOwn'
    BY <1>4, <1>6, <1>10 DEF ConvInvariant, Owned, WriterOwn
  <2> QED BY <2>1, <2>2, <2>3 DEF Owned
<1>15. ASSUME NEW s \in Summaries, NEW i \in Messages PROVE Remembered(s, i)'
  <2> SUFFICES ASSUME Counts(i)', summary'[s].thread = msg'[i].thread
               PROVE  /\ summary'[s].status \in LiveSummary /\ i < summary'[s].first => Covered(i)' \/ Exempt(s, i)'
                      /\ summary'[s].status = "completed" /\ i \in Within(s)' => i \in summary'[s].text
                      /\ writer'.row = s /\ i \in Within(s)' => i \in writer'.read
    BY DEF Remembered
  <2>1. i # new /\ msg'[i] = msg[i] /\ Counts(i)
    BY <1>4, <1>9 DEF Counts
  <2>2. Covered(i) => Covered(i)'
    BY <1>6, <1>10, <2>1 DEF Covered
  <2>3. CASE s = free /\ seg # {}
    <3>1. writer'.row # s
      BY <1>4, <1>6, <2>3, NoTurnFacts DEF ConvInvariant, Owned, WriterOwn, Summaries
    <3>2. ASSUME i < Min(seg), ~ Exempt(s, i)' PROVE Covered(i)
      <4>1. msg[i].state = "active" /\ msg[i].thread = h
        BY <1>10, <2>1, <2>3 DEF Counts
      <4>2. i \notin turn'[c].swept
        BY <1>11, <2>3, <3>2 DEF Exempt
      <4>3. i \in Seen(c, h)
        BY <1>11, <4>1, <4>2 DEF Seen
      <4>4. i <= Summarized(h)
        BY <1>7, <1>8, <2>3, <3>2, <4>3
      <4> QED BY <1>1, <2>1, <4>1, <4>4, Forgotten
    <3> QED BY <1>10, <2>2, <2>3, <3>1, <3>2
  <2>4. CASE s # free \/ seg = {}
    <3>1. summary'[s] = summary[s] /\ Within(s)' = Within(s) /\ writer' = writer
      BY <1>4, <1>10, <2>4 DEF Within
    <3>2. Exempt(s, i) => Exempt(s, i)'
      BY <1>11 DEF Exempt
    <3>3. Remembered(s, i)
      BY DEF ConvInvariant, Kept
    <3> QED BY <2>1, <2>2, <3>1, <3>2, <3>3 DEF Remembered
  <2> QED BY <2>3, <2>4
<1>16. \A i \in Messages : InArchive(i)'
  BY <1>4, <1>9 DEF ConvInvariant, Kept, InArchive
<1> QED BY <1>12, <1>14, <1>15, <1>16 DEF ConvInvariant, Kept

-----------------------------------------------------------------------------
\* Every step of the conversations keeps the invariant.
LEMMA ConvInvariantStep ==
  ASSUME ConvInvariant, [ConvNext]_convVars
  PROVE  ConvInvariant'
<1>1. CASE ConvNext
  BY <1>1, SayKeeps, AnswerKeeps, FailKeeps, StayKeeps, RetireKeeps, BeginTurnKeeps, GatherKeeps,
     HandOverKeeps, FileKeeps, DeleteArchiveKeeps, ThreadStepKeeps, ClearKeeps, AgesKeeps,
     EndSummaryKeeps, WriterDiesKeeps, StartSummaryKeeps
     DEF ConvNext
<1>2. CASE UNCHANGED convVars
  <2>1. UNCHANGED <<msg, summary, archive, turn, writer, overlooked>>
    BY <1>2 DEF convVars
  <2>2. ConvTyped'
    BY <1>2 DEF convVars, ConvInvariant, ConvTyped, ConvTypeOK
  <2>3. Owned'
    BY <2>1, QuietOwns
  <2>4. \A s \in Summaries, i \in Messages : Remembered(s, i)'
    BY <2>1, QuietKeeps
  <2>5. \A i \in Messages : InArchive(i)'
    BY <2>1 DEF ConvInvariant, Kept, InArchive
  <2> QED BY <2>2, <2>3, <2>4, <2>5 DEF ConvInvariant, Kept
<1> QED BY <1>1, <1>2

\* Whatever turns, archives and summaries do at the same time, what is committed below a
\* segment is covered by a completed summary, deleted by the turn that cut the segment, or
\* known to be overlooked; and what a worker reads or has written is all that counts of it.
THEOREM ConversationsInvariant == ConvSpec => []ConvInvariant
<1>1. ConvInit => ConvInvariant
  BY ConvInvariantInit
<1>2. ConvInvariant /\ [ConvNext]_convVars => ConvInvariant'
  BY ConvInvariantStep
<1> QED BY <1>1, <1>2, PTL DEF ConvSpec

\* Compression and archives forget no message that counts: it is newer than all that is
\* summarized of its thread, or a completed summary of the thread was written from it, or it
\* lies in an archive that is filed.
THEOREM NothingForgotten == ConvSpec => []NoMessageForgotten
<1>1. ConvSpec => []ConvInvariant
  BY ConversationsInvariant
<1>2. ConvInvariant => NoMessageForgotten
  BY NothingForgottenHere
<1> QED BY <1>1, <1>2, PTL

-----------------------------------------------------------------------------
(* Tasks, documents and conversations in one run (MCAssessmentRoles).        *)

\* The run starts each part as its own specification does, and each of its steps is one of
\* the part it follows.
LEMMA RunIsOfRoles == AllSpec => Spec /\ DocVerdictsSpec /\ ConvSpec
<1>1. AllInit => Init /\ VerdictsInit /\ ConvInit
  BY DEF AllInit
<1>2. [AllNext]_allVars => [Next]_vars /\ [VerdictsNext]_docVars /\ [ConvNext]_convVars
  BY DEF AllNext, allVars
<1> QED BY <1>1, <1>2, PTL DEF AllSpec, Spec, DocVerdictsSpec, ConvSpec

\* Whichever part the run follows, every row is one that the tables can hold.
THEOREM AssessmentRolesTypeCorrect == AllSpec => []RolesTypeOK
<1>1. ConvInvariant => ConvTypeOK
  BY DEF ConvInvariant, ConvTyped
<1>2. TypeOK /\ DocTypeOK /\ ConvTypeOK => RolesTypeOK
  BY DEF RolesTypeOK
<1> QED BY <1>1, <1>2, RunIsOfRoles, TypeCorrect, VerdictsHonest, ConversationsInvariant, PTL

\* What is proved of each part holds of the run of all.
THEOREM AssessmentRolesKeepTheirPromises ==
  AllSpec => /\ [](StopIsFinal /\ CommitsHold /\ CompletedIsCovered /\ ResultsUnmixed)
             /\ [](LatestVerdictStands /\ NoMessageForgotten)
             /\ ClosedOnProof
BY RunIsOfRoles, StopFinal, CommitsSound, CompletedCovered, NeverMixed, VerdictStands, NothingForgotten, GapsClosed, PTL
=============================================================================
