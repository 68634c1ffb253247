---------------------------- MODULE DocumentQueue ----------------------------
(***************************************************************************)
(* The queue of document analysis runs.  Users upload or re-analyse the    *)
(* documents of a doc_review task, upload a batch to be sorted into the    *)
(* tasks, and stop runs and tasks (api/assessments.py); a document worker  *)
(* recovers runs whose lease ran out, claims queued ones and analyses them *)
(* one after the other (services/document_pipeline.py).                    *)
(*                                                                         *)
(* A worker takes one step per transaction.  Extraction, retrieval and the *)
(* model's judgement are one phase, "working": only their outcome matters. *)
(***************************************************************************)
EXTENDS Integers, FiniteSets

CONSTANTS
  DocWorkers,   \* document worker processes (one in docker-compose.yml)
  DocTasks,     \* doc_review tasks of the assessment
  MaxRuns,      \* runs created in a behaviour (a bound)
  MaxAttempts,  \* settings.DOCUMENT_MAX_RECOVERY_ATTEMPTS
  MaxFaults     \* crashes and stalls of workers in a behaviour (a bound)

ASSUME DocumentAssumption ==
  /\ MaxRuns \in Nat /\ MaxFaults \in Nat
  /\ MaxAttempts \in Nat \ {0}
  /\ "none" \notin DocWorkers \cup DocTasks

DocRuns == 1 .. MaxRuns
Attempts == 0 .. MaxAttempts
\* check: an analysis of a task; retest: one on behalf of a verification run;
\* batch: uploaded files to be sorted into tasks (sorts), or into retests (resorts).
Kinds == {"check", "retest", "sorts", "resorts"}
ActiveRun == {"queued", "running"}
\* asked: cancel_requested_at.  lost: failed by recovery, document_recovery_exhausted.
DocRow == [status : {"none", "completed", "failed", "cancelled"} \cup ActiveRun,
           kind : Kinds, task : DocTasks \cup {"none"}, asked : BOOLEAN, lost : BOOLEAN,
           owner : DocWorkers \cup {"none"}, expired : BOOLEAN, attempts : 0 .. MaxAttempts]
\* stopped: cancel_requested_at of the task.
TaskRow == [status : {"todo", "in_progress", "completed", "failed"}, stopped : BOOLEAN]

\* recover: read and about to be written; batch: runs selected, with their attempts.
\* monitored: _monitor_document_run still renews.  rest: tasks a batch will queue.
DocPc == {"idle", "recovering", "working", "settling", "closing", "failing", "abandoning"}
DocWorker == [pc : DocPc, recover : SUBSET (DocRuns \X Attempts), batch : SUBSET (DocRuns \X Attempts),
              run : DocRuns \cup {0}, tries : 0 .. MaxAttempts, unable : BOOLEAN,
              monitored : BOOLEAN, rest : SUBSET DocTasks]

VARIABLES
  drun,     \* [DocRuns -> DocRow], the document_analysis_runs table
  dtask,    \* [DocTasks -> TaskRow], the doc_review rows of task_instances
  dworker,  \* [DocWorkers -> DocWorker]
  faults    \* 0 .. MaxFaults

docVars == <<drun, dtask, dworker, faults>>

NoDocRun == [status |-> "none", kind |-> "check", task |-> "none", asked |-> FALSE,
             lost |-> FALSE, owner |-> "none", expired |-> FALSE, attempts |-> 0]
Resting == [pc |-> "idle", recover |-> {}, batch |-> {}, run |-> 0, tries |-> 0,
            unable |-> FALSE, monitored |-> FALSE, rest |-> {}]

DocInit ==
  /\ drun = [r \in DocRuns |-> NoDocRun]
  /\ dtask = [t \in DocTasks |-> [status |-> "todo", stopped |-> FALSE]]
  /\ dworker = [w \in DocWorkers |-> Resting]
  /\ faults = 0

ActiveDoc(r) == drun[r].status \in ActiveRun
Fault == faults < MaxFaults /\ faults' = faults + 1
\* The row of a run that no worker holds any more.
Released(row, status) == [row EXCEPT !.status = status, !.owner = "none", !.expired = FALSE]

-----------------------------------------------------------------------------
(* Requests.                                                                *)

\* create_document_run: a check puts its task in progress, whatever its status, and
\* keeps an earlier request to stop it; a retest leaves the task alone.
Created(tasks, t, kind) ==
  IF kind = "check" THEN [tasks EXCEPT ![t] = [@ EXCEPT !.status = "in_progress"]] ELSE tasks

\* The next row of the table.
Insert(r, kind, t) ==
  /\ drun[r].status = "none" /\ \A q \in 1 .. r - 1 : drun[q].status # "none"
  /\ drun' = [drun EXCEPT ![r] = [NoDocRun EXCEPT !.status = "queued", !.kind = kind, !.task = t]]

\* Uploads to a task and re-analyses of it, and retests of its findings.  The
\* upload has tested that the task is not in progress, but stores files in between.
RequestRun(r, kind, t) ==
  /\ kind \in {"check", "retest"}
  /\ Insert(r, kind, t)
  /\ dtask' = Created(dtask, t, kind)
  /\ UNCHANGED <<dworker, faults>>

\* upload_phase_documents tests for another batch and for tasks in progress, and
\* stores the files before it inserts the run: the test may be of any earlier state.
RequestBatch(r, kind) ==
  /\ kind \in {"sorts", "resorts"}
  /\ Insert(r, kind, "none")
  /\ UNCHANGED <<dtask, dworker, faults>>

MutantStoppedTasks(tasks, r) == tasks
\* cancel_document_run fails the task of the run, if it is in progress.
StoppedTasks(tasks, r) ==
  LET t == drun[r].task
  IN  IF t \in DocTasks
      THEN [tasks EXCEPT ![t] = IF @.status = "in_progress"
                                THEN [status |-> "failed", stopped |-> TRUE] ELSE @]
      ELSE tasks
CancelledRuns(r) == [drun EXCEPT ![r] = [Released(@, "cancelled") EXCEPT !.asked = TRUE]]

\* POST /document-runs/{id}/stop, and POST /tasks/{id}/stop run by run.
StopRun(r) ==
  /\ ActiveDoc(r)
  /\ drun' = CancelledRuns(r)
  /\ dtask' = StoppedTasks(dtask, r)
  /\ UNCHANGED <<dworker, faults>>

\* POST /tasks/{id}/stop for a task that has no active run.
StopDocTask(t) ==
  /\ dtask[t].status = "in_progress"
  /\ \A r \in DocRuns : drun[r].task = t => ~ActiveDoc(r)
  /\ dtask' = [dtask EXCEPT ![t] = [status |-> "failed", stopped |-> TRUE]]
  /\ UNCHANGED <<drun, dworker, faults>>

-----------------------------------------------------------------------------
(* The worker.                                                              *)

Doing(w) == dworker[w].run
RowOf(w) == drun[Doing(w)]
At(w, pc) == dworker[w].pc = pc
Idle(w) == At(w, "idle") /\ dworker[w].batch = {}
Becomes(w, worker) == dworker' = [dworker EXCEPT ![w] = worker]
Goes(w, pc) == Becomes(w, [dworker[w] EXCEPT !.pc = pc])
\* An exception has rolled the session back, which expires the other selected runs:
\* reading them raises, and the poll ends.
EndsPoll(w) == Becomes(w, Resting)
\* The process and its monitor run.
Executing(w) == dworker[w].pc \in {"working", "settling", "closing"}
Batch(w) == RowOf(w).kind \in {"sorts", "resorts"}
\* _touch_run is called while the files are extracted and while a batch queues runs.
Touches(w) == At(w, "working") \/ (At(w, "settling") /\ Batch(w))

\* recover_incomplete_document_runs reads the runs ...
Recover(w) ==
  LET dead == {<<r, drun[r].attempts>> : r \in {q \in DocRuns : drun[q].status = "running"
                                                                /\ drun[q].expired}}
  IN  /\ Idle(w) /\ dead # {}
      /\ Becomes(w, [dworker[w] EXCEPT !.pc = "recovering", !.recover = dead])
      /\ UNCHANGED <<drun, dtask, faults>>

MutantRecovered(row, attempts) ==
  IF attempts >= MaxAttempts THEN [Released(row, "failed") EXCEPT !.lost = TRUE] ELSE row
\* ... and writes them by primary key.  A running row has no request to cancel, and
\* the task of a run that is given up is left alone.
Recovered(row, attempts) ==
  IF attempts >= MaxAttempts THEN [Released(row, "failed") EXCEPT !.lost = TRUE]
  ELSE Released(row, "queued")

RecoverWrites(w) ==
  /\ At(w, "recovering")
  /\ drun' = [r \in DocRuns |->
                IF \E a \in Attempts : <<r, a>> \in dworker[w].recover
                THEN Recovered(drun[r], CHOOSE a \in Attempts : <<r, a>> \in dworker[w].recover)
                ELSE drun[r]]
  /\ Becomes(w, Resting)
  /\ UNCHANGED <<dtask, faults>>

MutantClaimable(r) == drun[r].status = "queued" /\ ~drun[r].asked
Claimable(r) == drun[r].status = "queued" /\ ~drun[r].asked /\ drun[r].attempts < MaxAttempts
Select(w) ==
  /\ Idle(w) /\ \E r \in DocRuns : Claimable(r)
  /\ Becomes(w, [Resting EXCEPT !.batch = {<<r, drun[r].attempts>> : r \in {q \in DocRuns : Claimable(q)}}])
  /\ UNCHANGED <<drun, dtask, faults>>

\* The claim counts from the attempts that were read.
Claim(w, r, a) ==
  LET rest == dworker[w].batch \ {<<r, a>>}
  IN  /\ At(w, "idle") /\ <<r, a>> \in dworker[w].batch
      /\ IF drun[r].status = "queued" /\ ~drun[r].asked
         THEN /\ drun' = [drun EXCEPT ![r] = [@ EXCEPT !.status = "running", !.owner = w,
                                                       !.expired = FALSE, !.attempts = a + 1]]
              /\ Becomes(w, [Resting EXCEPT !.pc = "working", !.batch = rest, !.run = r,
                                            !.monitored = TRUE])
         ELSE Becomes(w, [Resting EXCEPT !.batch = rest]) /\ UNCHANGED drun
      /\ UNCHANGED <<dtask, faults>>

\* _touch_run, which does not look at the owner, and the monitor, which does.
Renew(w) ==
  /\ Executing(w) /\ RowOf(w).expired
  /\ Touches(w) \/ (dworker[w].monitored /\ RowOf(w).owner = w)
  /\ drun' = [drun EXCEPT ![Doing(w)] = [@ EXCEPT !.expired = FALSE]]
  /\ UNCHANGED <<dtask, dworker, faults>>

\* The monitor finds that the run is not running and ends; the process goes on.
MonitorFinishes(w) ==
  /\ Executing(w) /\ dworker[w].monitored
  /\ RowOf(w).status # "running" /\ ~RowOf(w).asked
  /\ Becomes(w, [dworker[w] EXCEPT !.monitored = FALSE])
  /\ UNCHANGED <<drun, dtask, faults>>

\* The monitor or the process finds that the run was stopped.  When its row was
\* written over meanwhile it is cancelled again.
HearStop(w) ==
  /\ Executing(w) /\ RowOf(w).asked /\ (Touches(w) \/ dworker[w].monitored)
  /\ IF ActiveDoc(Doing(w))
     THEN drun' = CancelledRuns(Doing(w)) /\ dtask' = StoppedTasks(dtask, Doing(w))
     ELSE UNCHANGED <<drun, dtask>>
  /\ EndsPoll(w)
  /\ UNCHANGED faults

\* The run takes too long, or the monitor finds another owner: the process is
\* cancelled and the row read again ...
Interrupt(w) ==
  /\ Executing(w) /\ dworker[w].monitored
  /\ IF RowOf(w).status = "cancelled" THEN EndsPoll(w)
     ELSE Becomes(w, [dworker[w] EXCEPT !.pc = "abandoning", !.tries = RowOf(w).attempts])
  /\ UNCHANGED <<drun, dtask, faults>>

\* (the task of a run that is given up fails if it is in progress)
Abandoned(w, tasks) ==
  IF RowOf(w).kind = "check"
  THEN [tasks EXCEPT ![RowOf(w).task] =
          IF @.status = "in_progress" THEN [@ EXCEPT !.status = "failed"] ELSE @]
  ELSE tasks

\* ... and written without a test: the run is queued again, or given up.
Abandon(w) ==
  LET last == dworker[w].tries >= MaxAttempts
  IN  /\ At(w, "abandoning")
      /\ drun' = [drun EXCEPT ![Doing(w)] = Released(@, IF last THEN "failed" ELSE "queued")]
      /\ dtask' = IF last THEN Abandoned(w, dtask) ELSE dtask
      /\ EndsPoll(w)
      /\ UNCHANGED faults

\* process_document_run has judged the documents and finds the run active.  A
\* retest writes its task together with the run.
Conclude(w) ==
  /\ At(w, "working") /\ ~Batch(w) /\ ~RowOf(w).asked
  /\ \E u \in BOOLEAN :
       Becomes(w, [dworker[w] EXCEPT !.unable = u,
                                     !.pc = IF RowOf(w).kind = "check" THEN "settling" ELSE "closing"])
  /\ UNCHANGED <<drun, dtask, faults>>

MutantCompletable(row) == row.status \in {"in_progress", "completed"}
\* complete_task of the flow engine accepts the task.
Completable(row) == row.status \in {"in_progress", "completed"} /\ ~row.stopped

\* The check settles its task; complete_task may refuse, which fails the run.
Settle(w) ==
  LET t == RowOf(w).task
      verdict == IF dworker[w].unable THEN "failed" ELSE "completed"
  IN  /\ At(w, "settling") /\ ~Batch(w)
      /\ IF dworker[w].unable \/ Completable(dtask[t])
         THEN dtask' = [dtask EXCEPT ![t] = [@ EXCEPT !.status = verdict]] /\ Goes(w, "closing")
         ELSE Goes(w, "failing") /\ UNCHANGED dtask
      /\ UNCHANGED <<drun, faults>>

\* process_document_batch_run has sorted its files.  Tasks whose document is missing
\* or unreadable fail at once, unless the batch is for retests.
Sort(w) ==
  /\ At(w, "working") /\ Batch(w) /\ ~RowOf(w).asked
  /\ \E rest \in SUBSET DocTasks, unable \in SUBSET DocTasks :
       /\ RowOf(w).kind = "resorts" => unable = {}
       /\ dtask' = [t \in DocTasks |->
                      IF t \in unable THEN [dtask[t] EXCEPT !.status = "failed"] ELSE dtask[t]]
       /\ Becomes(w, [dworker[w] EXCEPT !.pc = "settling", !.rest = rest])
  /\ UNCHANGED <<drun, faults>>

\* It queues the runs of the tasks one by one.  A task without open findings, or the
\* bound on runs, leaves a task out.
Queue(w, t) ==
  LET kind == IF RowOf(w).kind = "sorts" THEN "check" ELSE "retest"
  IN  /\ At(w, "settling") /\ t \in dworker[w].rest /\ ~RowOf(w).asked
      /\ \/ /\ \E r \in DocRuns : Insert(r, kind, t)
            /\ dtask' = Created(dtask, t, kind)
         \/ /\ kind = "retest" \/ \A r \in DocRuns : drun[r].status # "none"
            /\ UNCHANGED <<drun, dtask>>
      /\ Becomes(w, [dworker[w] EXCEPT !.rest = @ \ {t}])
      /\ UNCHANGED faults

\* The run is completed, whatever its row says by now.
Close(w) ==
  LET r == Doing(w)
  IN  /\ At(w, "closing") \/ (At(w, "settling") /\ Batch(w) /\ dworker[w].rest = {})
      /\ drun' = [drun EXCEPT ![r] = Released(@, "completed")]
      /\ dtask' = IF drun[r].kind = "retest"
                  THEN [dtask EXCEPT ![drun[r].task] =
                          [@ EXCEPT !.status = IF dworker[w].unable THEN "failed" ELSE "completed"]]
                  ELSE dtask
      /\ Becomes(w, [Resting EXCEPT !.batch = dworker[w].batch])
      /\ UNCHANGED faults

\* The analysis raises, or complete_task refused: run and task fail without a test.
Fail(w) ==
  /\ At(w, "working") \/ At(w, "failing")
  /\ drun' = [drun EXCEPT ![Doing(w)] = Released(@, "failed")]
  /\ dtask' = IF RowOf(w).kind = "check"
              THEN [dtask EXCEPT ![RowOf(w).task] = [@ EXCEPT !.status = "failed"]] ELSE dtask
  /\ EndsPoll(w)
  /\ UNCHANGED faults

\* The worker process dies and starts again.
Crash(w) ==
  /\ dworker[w] # Resting /\ Fault
  /\ EndsPoll(w)
  /\ UNCHANGED <<drun, dtask>>

\* Nobody has renewed the lease of the run: its worker is gone or stalls.
LeaseRunsOut(r) ==
  /\ drun[r].status = "running" /\ ~drun[r].expired
  /\ IF \E w \in DocWorkers : Doing(w) = r /\ drun[r].owner = w THEN Fault ELSE UNCHANGED faults
  /\ drun' = [drun EXCEPT ![r] = [@ EXCEPT !.expired = TRUE]]
  /\ UNCHANGED <<dtask, dworker>>

-----------------------------------------------------------------------------
DocRequest ==
  \/ \E r \in DocRuns, k \in Kinds :
       RequestBatch(r, k) \/ \E t \in DocTasks : RequestRun(r, k, t)
  \/ \E r \in DocRuns : StopRun(r)
  \/ \E t \in DocTasks : StopDocTask(t)
DocProgress(w) ==
  \/ Recover(w) \/ RecoverWrites(w) \/ Select(w)
  \/ \E r \in DocRuns, a \in Attempts : Claim(w, r, a)
  \/ HearStop(w) \/ Abandon(w) \/ Conclude(w) \/ Settle(w) \/ Sort(w) \/ Close(w) \/ Fail(w)
  \/ \E t \in DocTasks : Queue(w, t)
DocNext ==
  \/ DocRequest
  \/ \E w \in DocWorkers :
       DocProgress(w) \/ Renew(w) \/ MonitorFinishes(w) \/ Interrupt(w) \/ Crash(w)
  \/ \E r \in DocRuns : LeaseRunsOut(r)

DocSpec == DocInit /\ [][DocNext]_docVars

-----------------------------------------------------------------------------
DocTypeOK ==
  /\ drun \in [DocRuns -> DocRow]
  /\ dtask \in [DocTasks -> TaskRow]
  /\ dworker \in [DocWorkers -> DocWorker]
  /\ faults \in 0 .. MaxFaults

\* A task that is in progress has a check that is queued or running, except when
\* recovery gave its check up: no other stop, failure, time-out or second run leaves
\* it behind.
NoStrandedTask ==
  \A t \in DocTasks : dtask[t].status = "in_progress" =>
    \E r \in DocRuns : drun[r].task = t /\ drun[r].kind = "check" /\ (ActiveDoc(r) \/ drun[r].lost)

\* A task that a user stopped is completed by no check, not even by a later one
\* (complete_task, create_document_run); a retest may write over it.
StoppedStays ==
  \A t \in DocTasks :
    /\ dtask[t].stopped /\ dtask[t].status # "completed" /\ dtask'[t].status = "completed"
    => \E w \in DocWorkers : At(w, "closing") /\ RowOf(w).kind = "retest"
StoppedNeverCompletes == [][StoppedStays]_docVars

\* A run that nobody has asked to stop; see OneWorkerRunsEnd.
Unasked(r) == ActiveDoc(r) /\ ~drun[r].asked
=============================================================================
