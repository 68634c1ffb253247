---------------------------- MODULE DocumentVerdicts ----------------------------
(***************************************************************************)
(* What the documents of one task are found to say, from the files to the  *)
(* findings: extraction with its retries, candidate evidence, the review   *)
(* by the model, the verdict on each required point, the findings that a   *)
(* publication opens and only a retest closes, and the score that reads    *)
(* the stored controls (document_control_engine.py, document_pipeline.py,  *)
(* _sync_document_gap_findings of api/assessments.py, the document items   *)
(* of verification_queue.py and flow_engine.py).  Who executes a run, and  *)
(* when, is the matter of DocumentQueue and VerificationQueue.             *)
(***************************************************************************)
EXTENDS Naturals

CONSTANTS
  Points,    \* the required points of the one control of the document
  Papers,    \* the files a run reads
  MaxTries   \* DOCUMENT_FILE_RETRY_ATTEMPTS

\* The finding that an analysis is in doubt is none of a point.
ASSUME VerdictAssumption == MaxTries \in Nat \ {0} /\ "analysis" \notin Points

Blocker == "analysis"
Issues == Points \cup {Blocker}
PointStatus == {"pass", "partial", "fail", "unable"}
Lacking == {"fail", "partial"}
Decisions == {"pass", "partial", "fail", "contradict"}

\* What the attempts on a file come to: only a passing fault is tried again.
Attempts == {"parsed", "incomplete", "broken", "transient"}
Extraction(tries) ==
  LET last == CHOOSE i \in 1..MaxTries :
                /\ i = MaxTries \/ tries[i] # "transient"
                /\ \A k \in 1..(i - 1) : tries[k] = "transient"
  IN  IF tries[last] = "transient" THEN "broken" ELSE tries[last]
\* What is known of each file of a run; a file read before is not read again.
Extractions == [Papers -> {Extraction(t) : t \in [1..MaxTries -> Attempts]}]

\* Keywords, vectors and the graph find evidence for any of the points.
Evidence == SUBSET Points

\* Without an embedding a point that has no keyword in the text cannot be judged.
Candidates(evidence, complete) ==
  [p \in Points |-> IF p \in evidence THEN "partial" ELSE IF complete THEN "fail" ELSE "unable"]

\* The model judges the points that have evidence, and no others.
Reviewed(points, evidence, says) ==
  [p \in Points |-> IF p \notin evidence THEN points[p]
                    ELSE IF says[p] = "contradict" THEN "fail" ELSE says[p]]

\* The status of a control, and of an analysis of which nothing is in doubt.
Overall(points) ==
  IF \E p \in Points : points[p] = "unable" THEN "unable"
  ELSE IF \A p \in Points : points[p] = "pass" THEN "pass"
  ELSE IF \E p \in Points : points[p] \in {"pass", "partial"} THEN "partial"
  ELSE "fail"

\* The model did not answer, not in JSON, or not on exactly the points it was asked.
Unanswered(evidence, given) == evidence # {} /\ ~given
\* A file that was not read whole leaves the analysis in doubt too.
Doubt(extracted, evidence, given) ==
  (\E f \in Papers : extracted[f] # "parsed") \/ Unanswered(evidence, given)

\* proven (history): the points that the model found in documents read whole.
Judgement(extracted, evidence, complete, given, says) ==
  LET found == Candidates(evidence, complete)
      points == IF given THEN Reviewed(found, evidence, says) ELSE found
  IN  [points |-> points,
       status |-> IF Doubt(extracted, evidence, given) THEN "unable" ELSE Overall(points),
       proven |-> {p \in evidence : /\ given /\ says[p] = "pass"
                                    /\ \A f \in Papers : extracted[f] = "parsed"}]

\* Every analysis that reads at least one file.
Judgements ==
  UNION {{Judgement(x, e, complete, given, says) :
            x \in {y \in Extractions : \E f \in Papers : y[f] # "broken"},
            complete \in BOOLEAN, given \in BOOLEAN, says \in [e -> Decisions]} : e \in Evidence}

VARIABLES
  shown,     \* the analysis whose controls and findings were written last
  raised,    \* [Issues -> "none", "open" or "fixed"], the findings of the task
  job,       \* [check and retest -> stage and report], document_analysis_runs
  item,      \* [Issues -> outcome], the items of the last retest
  late,      \* (history) a check was published after the retest
  overtaken  \* (history) findings a retest fixed after such a check

docVars == <<shown, raised, job, item, late, overtaken>>

NoReport == [points |-> [p \in Points |-> "unable"], status |-> "none", proven |-> {}]
DocJobs == {"check", "retest"}
Active(j) == job[j].stage \in {"queued", "published"}
Due == {i \in Issues : item[i] = "due"}
Weak == {i \in Issues : item[i] \in {"unable", "cancelled"}}

VerdictsInit ==
  /\ shown = NoReport
  /\ raised = [i \in Issues |-> "none"]
  /\ job = [j \in DocJobs |-> [stage |-> "none", report |-> NoReport]]
  /\ item = [i \in Issues |-> "none"]
  /\ late = FALSE
  /\ overtaken = {}

Queued(j) == job' = [job EXCEPT ![j] = [stage |-> "queued", report |-> NoReport]]
\* A retest does not put the task in progress: a check may be asked for meanwhile.
AskCheck ==
  /\ ~Active("check")
  /\ Queued("check")
  /\ UNCHANGED <<shown, raised, item, late, overtaken>>

\* All open findings of the task are retested, once the items of their last retest have
\* ended, and (a bound) its analysis too: a stopped retest leaves the analysis running.
AskRetest ==
  LET open == {i \in Issues : raised[i] = "open"}
  IN  /\ open # {} /\ Due = {}
      /\ ~Active("check") /\ ~Active("retest")
      /\ Queued("retest")
      /\ item' = [i \in Issues |-> IF i \in open THEN "due" ELSE "none"]
      /\ UNCHANGED <<shown, raised, late, overtaken>>

MutantSynced(found, report) ==
  [i \in Issues |->
    IF i = Blocker THEN IF report.status = "unable" THEN "open"
                        ELSE IF found[i] = "open" THEN "fixed" ELSE found[i]
    ELSE IF report.status # "unable" /\ report.points[i] \in Lacking
         THEN IF found[i] = "none" THEN "open" ELSE found[i]
    ELSE found[i]]
\* An analysis in doubt raises its own finding and touches no other; a reliable one closes
\* that finding and opens those of its gaps, but closes none.
Synced(found, report) ==
  [i \in Issues |->
    IF i = Blocker THEN IF report.status = "unable" THEN "open"
                        ELSE IF found[i] = "open" THEN "fixed" ELSE found[i]
    ELSE IF report.status # "unable" /\ report.points[i] \in Lacking THEN "open"
    ELSE found[i]]

\* A finding that the analysis of a retest raises first is a new item of the retest.
WithNew(j, before, after) ==
  [i \in Issues |->
    IF j = "retest" /\ i # Blocker /\ before[i] = "none" /\ after[i] = "open" THEN "new" ELSE item[i]]
\* Controls and findings are written and committed before the run is closed; one worker
\* executes one run at a time.
Publish(j, report) ==
  /\ job[j].stage = "queued"
  /\ \A k \in DocJobs : job[k].stage # "published"
  /\ job' = [job EXCEPT ![j] = [stage |-> "published", report |-> report]]
  /\ shown' = report
  /\ raised' = Synced(raised, report)
  /\ item' = WithNew(j, raised, raised')
  /\ late' = (j = "check" /\ (late \/ job["retest"].stage \in {"published", "completed"}))
  /\ overtaken' = {}

\* The report of a check is needed no longer: only retests are read again.
Ends(j, stage) ==
  /\ job' = [job EXCEPT ![j] = [stage |-> stage, report |-> IF j = "retest" THEN @.report ELSE NoReport]]
  /\ UNCHANGED <<shown, raised, item, late, overtaken>>
Close(j) == job[j].stage = "published" /\ Ends(j, "completed")
CancelJob(j) == Active(j) /\ Ends(j, "cancelled")
\* No file could be read, the worker gave up, or a step raised.
FailJob(j) == Active(j) /\ Ends(j, "failed")

MutantClauseOutcome(report, i) ==
  IF i = Blocker THEN "fixed"
  ELSE IF report.points[i] \in Lacking THEN "present"
  ELSE IF report.points[i] = "pass" THEN "fixed" ELSE "unable"
\* What a completed retest says of a finding: an analysis in doubt says nothing.
ClauseOutcome(report, i) ==
  IF report.status = "unable" THEN "unable"
  ELSE IF i = Blocker THEN "fixed"
  ELSE IF report.points[i] \in Lacking THEN "present"
  ELSE IF report.points[i] = "pass" THEN "fixed" ELSE "unable"

\* An outcome closes or opens its finding, whatever was published meanwhile.
Applied(outcomes) ==
  /\ item' = [i \in Issues |-> IF i \in Due THEN outcomes[i] ELSE item[i]]
  /\ raised' = [i \in Issues |-> IF i \notin Due THEN raised[i]
                                 ELSE IF outcomes[i] = "fixed" THEN "fixed" ELSE "open"]
  /\ overtaken' = IF late THEN overtaken \cup {i \in Due : outcomes[i] = "fixed"} ELSE overtaken
  /\ UNCHANGED <<shown, job, late>>

\* The verification worker finds the analysis of the retest ended.
Conclude ==
  /\ Due # {}
  /\ ~Active("retest")
  /\ Applied([i \in Issues |-> CASE job["retest"].stage = "cancelled" -> "cancelled"
                                [] job["retest"].stage = "failed" -> "unable"
                                [] OTHER -> ClauseOutcome(job["retest"].report, i)])

\* A user stops the retest, or its attempts are used up; its analysis goes on.
Withdraw == Due # {} /\ \E outcome \in {"cancelled", "unable"} : Applied([i \in Issues |-> outcome])
\* A retest that ended without all verdicts is resumed on the analysis it had.
Resume ==
  /\ Due = {} /\ Weak # {}
  /\ item' = [i \in Issues |-> IF i \in Weak THEN "due" ELSE item[i]]
  /\ UNCHANGED <<shown, raised, job, late, overtaken>>
\* A user reopens a finding by hand.
ReopenIssue(i) ==
  /\ raised[i] # "none"
  /\ raised' = [raised EXCEPT ![i] = "open"]
  /\ overtaken' = overtaken \ {i}
  /\ UNCHANGED <<shown, job, item, late>>

VerdictsNext ==
  \/ AskCheck \/ AskRetest \/ Conclude \/ Withdraw \/ Resume
  \/ \E j \in DocJobs : Close(j) \/ CancelJob(j) \/ FailJob(j) \/ \E report \in Judgements : Publish(j, report)
  \/ \E i \in Issues : ReopenIssue(i)

DocVerdictsSpec == VerdictsInit /\ [][VerdictsNext]_docVars

Reports == [points : [Points -> PointStatus], status : PointStatus \cup {"none"}, proven : SUBSET Points]
DocTypeOK ==
  /\ shown \in Reports
  /\ raised \in [Issues -> {"none", "open", "fixed"}]
  /\ job \in [DocJobs -> [stage : {"none", "queued", "published", "completed", "cancelled", "failed"},
                         report : Reports]]
  /\ item \in [Issues -> {"none", "due", "new", "present", "fixed", "unable", "cancelled"}]
  /\ late \in BOOLEAN /\ overtaken \subseteq Issues

\* A gap is closed only by a retest that is over, that read every file whole, and in which
\* the model found the point: never by keywords, by half of the documents, by a stopped or
\* failed analysis, or by a check (_process_document_items, review_with_llm).
Closes(i) == raised[i] = "open" /\ raised'[i] = "fixed"
ClosedOnProof ==
  [][\A p \in Points : Closes(p) => job["retest"].stage = "completed" /\ p \in job["retest"].report.proven]_docVars

\* What the latest analysis lacks, or that it is in doubt, stands open as a finding, through
\* stops, failures and retests, unless a retest older than it was concluded after it: the
\* verification worker applies the outcome of an analysis whatever was published meanwhile
\* (_sync_document_gap_findings, apply_verification_outcome).
Standing(i) == IF i = Blocker THEN shown.status = "unable"
               ELSE shown.status \notin {"none", "unable"} /\ shown.points[i] \in Lacking
LatestVerdictStands == \A i \in Issues \ overtaken : Standing(i) => raised[i] = "open"

\* The stored verdict of the control is that of its points, also when the analysis is in
\* doubt, and the score asks for the control alone.
Scored == shown.status # "none" /\ Overall(shown.points) # "unable"
\* An analysis that came to no reliable conclusion does not count as judged in the score
\* (.opencode/plans/ARCHITECTURE.md: unable enters with no points and lowers the coverage).
UnableIsNotScored == shown.status = "unable" => ~Scored
=============================================================================
