--------------------------- MODULE WorkerRolesProofs ---------------------------
(***************************************************************************)
(* Theorems about what the workers execute besides assessments: the        *)
(* document queue (DocumentQueue), the scans of the assistant (ScanTasks), *)
(* the findings that all executions write (Findings) and the maintenance   *)
(* worker (Maintenance), for any number of workers, runs, scans, steps,    *)
(* tools, executions, schedules, archives and faults; and about the run of *)
(* all of them (MCWorkerRoles).                                            *)
(***************************************************************************)
EXTENDS MCWorkerRoles, WellFoundedInduction, TLAPS

USE DocumentAssumption, ScanAssumption, FindingAssumption

-----------------------------------------------------------------------------
(* The document queue: its invariant.                                       *)

\* What a worker has read of the table exists, a claim does not exceed the attempts, and a
\* busy worker has a run.
WorkerSound(j, rows) ==
  /\ \A r \in DocRuns, a \in Attempts :
       /\ <<r, a>> \in j.recover => rows[r].status # "none"
       /\ <<r, a>> \in j.batch => rows[r].status # "none" /\ a < MaxAttempts
  /\ j.pc \notin {"idle", "recovering"} => j.run \in DocRuns /\ rows[j.run].status # "none"
WorkersSound == \A w \in DocWorkers : WorkerSound(dworker[w], drun)

\* A task in progress has a check that no worker has settled yet, or that recovery has
\* given up: who has settled one is about to close it, and would leave the task behind.
Checked(t) ==
  \E r \in DocRuns :
    /\ drun[r].task = t /\ drun[r].kind = "check"
    /\ ActiveDoc(r) \/ (drun[r].lost /\ drun[r].status # "none")
    /\ \A w \in DocWorkers : At(w, "closing") => Doing(w) # r
TasksChecked == \A t \in DocTasks : dtask[t].status = "in_progress" => Checked(t)

DocInvariant == DocTypeOK /\ WorkersSound /\ TasksChecked

-----------------------------------------------------------------------------
(* Rows and workers, one by one.                                            *)

\* A row that stays the row of the same run.
Keeps(old, new) ==
  /\ new \in DocRow /\ new.kind = old.kind /\ new.task = old.task
  /\ old.lost => new.lost
  /\ old.status # "none" => new.status # "none"

\* A row keeps itself.
LEMMA KeptSame ==
  ASSUME NEW row \in DocRow
  PROVE  Keeps(row, row)
BY DEF Keeps

\* A released row keeps what it is about.
LEMMA ReleasedRow ==
  ASSUME NEW row \in DocRow, NEW s \in {"completed", "failed", "cancelled", "queued"}
  PROVE  Keeps(row, Released(row, s)) /\ Released(row, s).status = s
BY DEF Keeps, Released, DocRow, ActiveRun

\* So does one that a user has asked to stop.
LEMMA AskedRow ==
  ASSUME NEW row \in DocRow
  PROVE  /\ Keeps(row, [row EXCEPT !.asked = TRUE])
         /\ [row EXCEPT !.asked = TRUE].status = row.status
BY DEF Keeps, DocRow

\* And one that a user has stopped.
LEMMA CancelledRow ==
  ASSUME NEW row \in DocRow
  PROVE  /\ Keeps(row, [Released(row, "cancelled") EXCEPT !.asked = TRUE])
         /\ [Released(row, "cancelled") EXCEPT !.asked = TRUE].status = "cancelled"
<1>1. Keeps(row, Released(row, "cancelled")) /\ Released(row, "cancelled").status = "cancelled"
  BY ReleasedRow
<1>2. Released(row, "cancelled") \in DocRow
  BY <1>1 DEF Keeps
<1>3. /\ Keeps(Released(row, "cancelled"), [Released(row, "cancelled") EXCEPT !.asked = TRUE])
      /\ [Released(row, "cancelled") EXCEPT !.asked = TRUE].status = "cancelled"
  BY <1>1, <1>2, AskedRow
<1> QED
  BY <1>1, <1>3 DEF Keeps

\* Recovery queues a row or gives it up for lost.
LEMMA RecoveredRow ==
  ASSUME NEW row \in DocRow, NEW a
  PROVE  /\ Keeps(row, Recovered(row, a))
         /\ \/ Recovered(row, a).status = "queued"
            \/ Recovered(row, a).lost
<1>. DEFINE mid == Released(row, "failed")
<1>1. mid \in DocRow /\ Keeps(row, mid) /\ mid.status = "failed"
  BY ReleasedRow DEF Keeps
<1>2. Keeps(row, Released(row, "queued")) /\ Released(row, "queued").status = "queued"
  BY ReleasedRow
<1>3. Recovered(row, a) = [mid EXCEPT !.lost = TRUE] \/ Recovered(row, a) = Released(row, "queued")
  BY DEF Recovered
<1>. HIDE DEF mid
<1>4. Keeps(row, [mid EXCEPT !.lost = TRUE]) /\ [mid EXCEPT !.lost = TRUE].lost
  BY <1>1 DEF Keeps, DocRow
<1> QED
  BY <1>2, <1>3, <1>4

\* A claim.
LEMMA ClaimedRow ==
  ASSUME NEW row \in DocRow, NEW w \in DocWorkers, NEW n \in Attempts
  PROVE  /\ Keeps(row, [row EXCEPT !.status = "running", !.owner = w, !.expired = FALSE,
                                   !.attempts = n])
         /\ [row EXCEPT !.status = "running", !.owner = w, !.expired = FALSE,
                        !.attempts = n].status = "running"
<1>1. [row EXCEPT !.status = "running", !.owner = w, !.expired = FALSE, !.attempts = n] \in DocRow
  BY DEF DocRow, ActiveRun, Attempts
<1> QED
  BY <1>1 DEF Keeps, DocRow

\* A renewal, and a lease that runs out.
LEMMA LeaseRows ==
  ASSUME NEW row \in DocRow, NEW b \in BOOLEAN
  PROVE  /\ Keeps(row, [row EXCEPT !.expired = b])
         /\ [row EXCEPT !.expired = b].status = row.status
BY DEF Keeps, DocRow

\* An empty row is one.
LEMMA EmptyRow == NoDocRun \in DocRow
BY DEF NoDocRun, DocRow, Kinds

\* Rows of tasks.
LEMMA TaskRows ==
  ASSUME NEW row \in TaskRow
  PROVE  /\ \A s \in {"in_progress", "completed", "failed"} :
              [row EXCEPT !.status = s] \in TaskRow /\ [row EXCEPT !.status = s].status = s
         /\ [status |-> "failed", stopped |-> TRUE] \in TaskRow
BY DEF TaskRow

\* A resting worker is one.
LEMMA RestingType == Resting \in DocWorker /\ Resting.pc = "idle" /\ Resting.recover = {}
                     /\ Resting.batch = {}
BY DEF Resting, DocWorker, DocPc

\* The assignments to a worker keep it a worker.
LEMMA WorkerEdits ==
  ASSUME NEW j \in DocWorker
  PROVE  /\ \A pc \in DocPc : [j EXCEPT !.pc = pc] \in DocWorker
         /\ \A pairs \in SUBSET (DocRuns \X Attempts) :
              /\ [j EXCEPT !.pc = "recovering", !.recover = pairs] \in DocWorker
              /\ [j EXCEPT !.batch = pairs] \in DocWorker
              /\ \A r \in DocRuns : [j EXCEPT !.pc = "working", !.batch = pairs, !.run = r,
                                              !.monitored = TRUE] \in DocWorker
         /\ [j EXCEPT !.monitored = FALSE] \in DocWorker
         /\ \A n \in Attempts : [j EXCEPT !.pc = "abandoning", !.tries = n] \in DocWorker
         /\ \A u \in BOOLEAN, pc \in DocPc : [j EXCEPT !.unable = u, !.pc = pc] \in DocWorker
         /\ \A rest \in SUBSET DocTasks : /\ [j EXCEPT !.pc = "settling", !.rest = rest] \in DocWorker
                                          /\ [j EXCEPT !.rest = rest] \in DocWorker
BY DEF DocWorker, Attempts, DocPc

-----------------------------------------------------------------------------
(* What keeps the invariant.                                                *)

\* Every row stays the row of its run.
RowsKept == drun' \in [DocRuns -> DocRow] /\ \A r \in DocRuns : Keeps(drun[r], drun'[r])

\* No task is put in progress, and one that stays so keeps the checks that nobody settled.
TasksFollow ==
  /\ dtask' \in [DocTasks -> TaskRow]
  /\ \A t \in DocTasks : dtask'[t].status = "in_progress" =>
       /\ dtask[t].status = "in_progress"
       /\ \A r \in DocRuns :
            /\ drun[r].task = t /\ drun[r].kind = "check" /\ ActiveDoc(r)
            /\ \A w \in DocWorkers : At(w, "closing") => Doing(w) # r
            => drun'[r].status \in ActiveRun \/ drun'[r].lost

\* Who starts to close a run has settled its task, or its run is no check.
Settled(w) ==
  dworker'[w].pc = "closing" =>
    \/ At(w, "closing") /\ Doing(w) = dworker'[w].run
    \/ drun[dworker'[w].run].kind # "check"
    \/ \A t \in DocTasks :
         drun[dworker'[w].run].task = t => dtask'[t].status # "in_progress"

WorkersFollow ==
  /\ dworker' \in [DocWorkers -> DocWorker]
  /\ \A w \in DocWorkers : WorkerSound(dworker'[w], drun) /\ Settled(w)

\* Soundness does not depend on what a row says beyond being there.
LEMMA SoundLater ==
  ASSUME RowsKept, NEW j, WorkerSound(j, drun)
  PROVE  WorkerSound(j, drun')
BY DEF RowsKept, WorkerSound, Keeps

\* Steps that insert no run.
LEMMA StepKeeps ==
  ASSUME DocInvariant, RowsKept, TasksFollow, WorkersFollow, faults' \in 0 .. MaxFaults
  PROVE  DocInvariant'
<1>1. DocTypeOK'
  BY DEF DocTypeOK, RowsKept, TasksFollow, WorkersFollow
<1>2. WorkersSound'
  BY SoundLater DEF WorkersSound, WorkersFollow
<1>3. ASSUME NEW t \in DocTasks, dtask'[t].status = "in_progress"
      PROVE  Checked(t)'
  <2>1. Checked(t)
    BY <1>3 DEF DocInvariant, TasksChecked, TasksFollow
  <2>2. PICK r \in DocRuns :
          /\ drun[r].task = t /\ drun[r].kind = "check" /\ drun[r].status # "none"
          /\ ActiveDoc(r) \/ drun[r].lost
          /\ \A w \in DocWorkers : At(w, "closing") => Doing(w) # r
    BY <2>1 DEF Checked, ActiveDoc, ActiveRun
  <2>3. drun'[r].task = t /\ drun'[r].kind = "check" /\ drun'[r].status # "none"
    BY <2>2 DEF RowsKept, Keeps
  <2>4. drun'[r].status \in ActiveRun \/ drun'[r].lost
    BY <1>3, <2>2 DEF TasksFollow, RowsKept, Keeps
  <2>5. ASSUME NEW w \in DocWorkers, dworker'[w].pc = "closing", dworker'[w].run = r
        PROVE  FALSE
    BY <1>3, <2>2, <2>5 DEF WorkersFollow, Settled
  <2> QED
    BY <2>3, <2>4, <2>5 DEF Checked, ActiveDoc, At, Doing
<1> QED
  BY <1>1, <1>2, <1>3 DEF DocInvariant, TasksChecked

\* A new check puts its task in progress and is there for it.
LEMMA InsertKeeps ==
  ASSUME DocInvariant, NEW r \in DocRuns, NEW kind \in Kinds, NEW t \in DocTasks \cup {"none"},
         Insert(r, kind, t), kind = "check" => t \in DocTasks, dtask' = Created(dtask, t, kind),
         dworker' \in [DocWorkers -> DocWorker], faults' \in 0 .. MaxFaults,
         \A w \in DocWorkers : /\ WorkerSound(dworker'[w], drun)
                               /\ dworker'[w].pc = dworker[w].pc /\ dworker'[w].run = dworker[w].run
  PROVE  DocInvariant'
<1>. DEFINE new == [NoDocRun EXCEPT !.status = "queued", !.kind = kind, !.task = t]
<1>1. /\ drun' = [drun EXCEPT ![r] = new] /\ drun[r].status = "none"
      /\ drun \in [DocRuns -> DocRow] /\ dtask \in [DocTasks -> TaskRow]
  BY DEF Insert, DocInvariant, DocTypeOK
<1>2. new \in DocRow /\ new.status = "queued" /\ new.kind = kind /\ new.task = t
  BY EmptyRow DEF DocRow, ActiveRun
<1>. HIDE DEF new
<1>3. /\ drun' \in [DocRuns -> DocRow] /\ drun'[r] = new
      /\ \A q \in DocRuns \ {r} : drun'[q] = drun[q]
  BY <1>1, <1>2
<1>4. \A w \in DocWorkers : WorkerSound(dworker'[w], drun')
  BY <1>1, <1>2, <1>3 DEF WorkerSound
<1>5. /\ dtask' \in [DocTasks -> TaskRow]
      /\ \A u \in DocTasks : u # t \/ kind # "check" => dtask'[u] = dtask[u]
  <2>1. CASE kind = "check"
    <3>1. dtask' = [dtask EXCEPT ![t] = [@ EXCEPT !.status = "in_progress"]]
      BY <2>1 DEF Created
    <3>2. [dtask[t] EXCEPT !.status = "in_progress"] \in TaskRow
      BY <1>1, <2>1, TaskRows
    <3> QED
      BY <1>1, <2>1, <3>1, <3>2
  <2>2. CASE kind # "check"
    BY <1>1, <2>2 DEF Created
  <2> QED
    BY <2>1, <2>2
<1>6. ASSUME NEW w \in DocWorkers, dworker'[w].pc = "closing"
      PROVE  dworker'[w].run # r
  BY <1>1, <1>6 DEF WorkerSound
<1>7. ASSUME NEW u \in DocTasks, dtask'[u].status = "in_progress"
      PROVE  Checked(u)'
  <2>1. CASE u = t /\ kind = "check"
    <3>1. drun'[r].task = u /\ drun'[r].kind = "check" /\ drun'[r].status \in ActiveRun
      BY <1>2, <1>3, <2>1 DEF ActiveRun
    <3> QED
      BY <1>6, <3>1 DEF Checked, ActiveDoc, At, Doing
  <2>2. CASE ~(u = t /\ kind = "check")
    <3>1. Checked(u)
      BY <1>5, <1>7, <2>2 DEF DocInvariant, TasksChecked
    <3>2. PICK q \in DocRuns :
            /\ drun[q].task = u /\ drun[q].kind = "check" /\ drun[q].status # "none"
            /\ ActiveDoc(q) \/ drun[q].lost
            /\ \A w \in DocWorkers : At(w, "closing") => Doing(w) # q
      BY <3>1 DEF Checked, ActiveDoc, ActiveRun
    <3>3. q # r
      BY <1>1, <3>2
    <3> QED
      BY <1>3, <3>2, <3>3 DEF Checked, ActiveDoc, At, Doing
  <2> QED
    BY <2>1, <2>2
<1> QED
  BY <1>3, <1>4, <1>5, <1>7 DEF DocInvariant, DocTypeOK, WorkersSound, TasksChecked

\* What a step of one worker leaves of the others.
LEMMA OneMoves ==
  ASSUME DocInvariant, NEW w \in DocWorkers, NEW j \in DocWorker, Becomes(w, j),
         WorkerSound(j, drun),
         \/ j.pc # "closing"
         \/ At(w, "closing") /\ Doing(w) = j.run
         \/ drun[j.run].kind # "check"
         \/ \A t \in DocTasks : drun[j.run].task = t => dtask'[t].status # "in_progress"
  PROVE  WorkersFollow
<1>1. /\ dworker' \in [DocWorkers -> DocWorker] /\ dworker'[w] = j
      /\ \A v \in DocWorkers \ {w} : dworker'[v] = dworker[v]
  BY DEF Becomes, DocInvariant, DocTypeOK
<1>2. \A v \in DocWorkers : WorkerSound(dworker'[v], drun)
  BY <1>1 DEF DocInvariant, WorkersSound
<1>3. \A v \in DocWorkers : Settled(v)
  BY <1>1 DEF Settled, At, Doing
<1> QED
  BY <1>1, <1>2, <1>3 DEF WorkersFollow

\* Steps of requests leave the workers alone.
LEMMA NoneMoves ==
  ASSUME DocInvariant, UNCHANGED dworker
  PROVE  WorkersFollow
BY DEF WorkersFollow, DocInvariant, DocTypeOK, WorkersSound, Settled, At, Doing

\* A resting worker is sound.
LEMMA RestingSound == Resting \in DocWorker /\ WorkerSound(Resting, drun) /\ Resting.pc = "idle"
BY RestingType DEF WorkerSound

\* A worker that goes on with its run is sound.
LEMMA SoundEdits ==
  ASSUME NEW j \in DocWorker, WorkerSound(j, drun), j.pc \notin {"idle", "recovering"}
  PROVE  /\ \A pc \in DocPc : WorkerSound([j EXCEPT !.pc = pc], drun)
         /\ WorkerSound([j EXCEPT !.monitored = FALSE], drun)
         /\ \A n \in Attempts : WorkerSound([j EXCEPT !.pc = "abandoning", !.tries = n], drun)
         /\ \A u \in BOOLEAN, pc \in DocPc : WorkerSound([j EXCEPT !.unable = u, !.pc = pc], drun)
         /\ \A rest \in SUBSET DocTasks :
              /\ WorkerSound([j EXCEPT !.pc = "settling", !.rest = rest], drun)
              /\ WorkerSound([j EXCEPT !.rest = rest], drun)
BY DEF DocWorker, WorkerSound

\* Steps that write one row.
LEMMA OneRow ==
  ASSUME DocTypeOK, NEW r \in DocRuns, NEW new, drun' = [drun EXCEPT ![r] = new],
         Keeps(drun[r], new)
  PROVE  RowsKept /\ drun'[r] = new /\ \A q \in DocRuns \ {r} : drun'[q] = drun[q]
<1>1. /\ drun' \in [DocRuns -> DocRow] /\ drun'[r] = new
      /\ \A q \in DocRuns \ {r} : drun'[q] = drun[q] /\ drun[q] \in DocRow
  BY DEF DocTypeOK, Keeps
<1> QED
  BY <1>1, KeptSame DEF RowsKept

\* Steps that write none.
LEMMA NoRow ==
  ASSUME DocTypeOK, UNCHANGED drun
  PROVE  RowsKept
BY KeptSame DEF RowsKept, DocTypeOK

\* A run that ends takes its task out of progress, unless a worker that has settled it
\* already closes it.
LEMMA RowFollows ==
  ASSUME DocTypeOK, NEW r \in DocRuns, NEW new, drun' = [drun EXCEPT ![r] = new],
         Keeps(drun[r], new), dtask' \in [DocTasks -> TaskRow],
         \A t \in DocTasks : dtask'[t].status = "in_progress" =>
           /\ dtask[t].status = "in_progress"
           /\ \/ drun[r].task # t \/ drun[r].kind # "check"
              \/ new.status \in ActiveRun \/ new.lost
              \/ \E w \in DocWorkers : At(w, "closing") /\ Doing(w) = r
  PROVE  RowsKept /\ TasksFollow
<1>1. RowsKept /\ drun'[r] = new /\ \A q \in DocRuns \ {r} : drun'[q] = drun[q]
  BY OneRow
<1>2. TasksFollow
  BY <1>1 DEF TasksFollow, ActiveDoc
<1> QED
  BY <1>1, <1>2

\* Steps that write no run and start no task.
LEMMA NoRowFollows ==
  ASSUME DocTypeOK, UNCHANGED drun, dtask' \in [DocTasks -> TaskRow],
         \A t \in DocTasks : dtask'[t].status = "in_progress" => dtask[t].status = "in_progress"
  PROVE  RowsKept /\ TasksFollow
BY NoRow DEF TasksFollow, ActiveDoc

\* A stop fails the task of the run.
LEMMA StopsTask ==
  ASSUME DocTypeOK, NEW r \in DocRuns, dtask' = StoppedTasks(dtask, r)
  PROVE  /\ dtask' \in [DocTasks -> TaskRow]
         /\ \A t \in DocTasks : dtask'[t].status = "in_progress" =>
              dtask[t].status = "in_progress" /\ drun[r].task # t
<1>. DEFINE u == drun[r].task
            row == IF dtask[u].status = "in_progress"
                   THEN [status |-> "failed", stopped |-> TRUE] ELSE dtask[u]
<1>1. dtask \in [DocTasks -> TaskRow]
  BY DEF DocTypeOK
<1>2. CASE u \in DocTasks
  <2>1. dtask' = [dtask EXCEPT ![u] = row]
    BY <1>2 DEF StoppedTasks
  <2>2. row \in TaskRow /\ row.status # "in_progress"
    BY <1>1, <1>2, TaskRows
  <2> QED
    BY <1>1, <1>2, <2>1, <2>2
<1>3. CASE u \notin DocTasks
  BY <1>1, <1>3 DEF StoppedTasks
<1> QED
  BY <1>2, <1>3

\* The task of a run that fails is failed, if the run is a check.
LEMMA FailsTask ==
  ASSUME DocTypeOK, NEW t, NEW s \in {"completed", "failed"},
         dtask' = [dtask EXCEPT ![t] = [@ EXCEPT !.status = s]]
  PROVE  /\ dtask' \in [DocTasks -> TaskRow]
         /\ \A u \in DocTasks : dtask'[u].status = "in_progress" =>
              dtask[u].status = "in_progress" /\ u # t
<1>1. dtask \in [DocTasks -> TaskRow]
  BY DEF DocTypeOK
<1>2. CASE t \in DocTasks
  <2>1. [dtask[t] EXCEPT !.status = s] \in TaskRow /\ [dtask[t] EXCEPT !.status = s].status = s
    BY <1>1, <1>2 DEF TaskRow
  <2> QED
    BY <1>1, <1>2, <2>1
<1>3. CASE t \notin DocTasks
  BY <1>1, <1>3
<1> QED
  BY <1>2, <1>3

-----------------------------------------------------------------------------
(* Requests.                                                                *)

\* Uploads, re-analyses, retests and batches.
LEMMA RequestsKeep ==
  ASSUME DocInvariant, NEW r \in DocRuns, NEW kind \in Kinds,
         RequestBatch(r, kind) \/ \E t \in DocTasks : RequestRun(r, kind, t)
  PROVE  DocInvariant'
<1>1. /\ UNCHANGED <<dworker, faults>>
      /\ dworker' \in [DocWorkers -> DocWorker] /\ faults' \in 0 .. MaxFaults
      /\ \A w \in DocWorkers : WorkerSound(dworker'[w], drun)
  BY DEF RequestBatch, RequestRun, DocInvariant, DocTypeOK, WorkersSound
<1>2. PICK t \in DocTasks \cup {"none"} :
        /\ Insert(r, kind, t) /\ dtask' = Created(dtask, t, kind)
        /\ kind = "check" => t \in DocTasks
  BY DEF RequestBatch, RequestRun, Created
<1> QED
  BY <1>1, <1>2, InsertKeeps

\* A run is cancelled and its task fails.
LEMMA CancelKeeps ==
  ASSUME DocInvariant, NEW r \in DocRuns, drun' = CancelledRuns(r),
         dtask' = StoppedTasks(dtask, r), WorkersFollow, UNCHANGED faults
  PROVE  DocInvariant'
<1>1. DocTypeOK /\ drun[r] \in DocRow
  BY DEF DocInvariant, DocTypeOK
<1>. DEFINE new == [Released(drun[r], "cancelled") EXCEPT !.asked = TRUE]
<1>2. drun' = [drun EXCEPT ![r] = new]
  BY DEF CancelledRuns
<1>3. Keeps(drun[r], new)
  BY <1>1, CancelledRow
<1>. HIDE DEF new
<1>4. RowsKept /\ TasksFollow
  BY <1>1, <1>2, <1>3, StopsTask, RowFollows
<1> QED
  BY <1>1, <1>4, StepKeeps DEF DocTypeOK

\* Stops of runs and of tasks.
LEMMA StopsKeep ==
  ASSUME DocInvariant,
         (\E r \in DocRuns : StopRun(r)) \/ (\E t \in DocTasks : StopDocTask(t))
  PROVE  DocInvariant'
<1>1. ASSUME NEW r \in DocRuns, StopRun(r) PROVE DocInvariant'
  BY <1>1, NoneMoves, CancelKeeps DEF StopRun
<1>2. ASSUME NEW t \in DocTasks, StopDocTask(t) PROVE DocInvariant'
  <2>1. /\ DocTypeOK /\ UNCHANGED <<drun, dworker, faults>>
        /\ dtask' = [dtask EXCEPT ![t] = [status |-> "failed", stopped |-> TRUE]]
    BY <1>2 DEF StopDocTask, DocInvariant
  <2>2. [status |-> "failed", stopped |-> TRUE] \in TaskRow
    BY DEF TaskRow
  <2>3. /\ dtask' \in [DocTasks -> TaskRow]
        /\ \A u \in DocTasks : dtask'[u].status = "in_progress" => dtask[u].status = "in_progress"
    BY <2>1, <2>2 DEF DocTypeOK
  <2> QED
    BY <2>1, <2>3, NoRowFollows, NoneMoves, StepKeeps DEF DocTypeOK
<1> QED
  BY <1>1, <1>2

\* A lease runs out.
LEMMA LeaseKeeps ==
  ASSUME DocInvariant, NEW r \in DocRuns, LeaseRunsOut(r)
  PROVE  DocInvariant'
<1>1. /\ DocTypeOK /\ drun[r] \in DocRow /\ faults' \in 0 .. MaxFaults
      /\ drun' = [drun EXCEPT ![r] = [@ EXCEPT !.expired = TRUE]] /\ UNCHANGED <<dtask, dworker>>
      /\ drun[r].status = "running"
  BY DEF LeaseRunsOut, Fault, DocInvariant, DocTypeOK
<1>2. /\ Keeps(drun[r], [drun[r] EXCEPT !.expired = TRUE])
      /\ [drun[r] EXCEPT !.expired = TRUE].status = "running"
  BY <1>1, LeaseRows
<1>3. RowsKept /\ TasksFollow
  BY <1>1, <1>2, RowFollows DEF DocTypeOK, ActiveRun
<1> QED
  BY <1>1, <1>3, NoneMoves, StepKeeps

-----------------------------------------------------------------------------
(* Workers.                                                                 *)

\* What every step of a worker starts from.
LEMMA WorkerFacts ==
  ASSUME DocInvariant, NEW w \in DocWorkers
  PROVE  /\ DocTypeOK /\ dworker[w] \in DocWorker /\ WorkerSound(dworker[w], drun)
         /\ dtask \in [DocTasks -> TaskRow] /\ faults \in 0 .. MaxFaults
         /\ ~At(w, "idle") /\ ~At(w, "recovering") =>
              Doing(w) \in DocRuns /\ drun[Doing(w)] \in DocRow /\ drun[Doing(w)].status # "none"
BY DEF DocInvariant, DocTypeOK, WorkersSound, WorkerSound, At, Doing

\* Recovery and selection read the table.
LEMMA ReadsKeep ==
  ASSUME DocInvariant, NEW w \in DocWorkers, Recover(w) \/ Select(w)
  PROVE  DocInvariant'
<1>1. /\ DocTypeOK /\ dworker[w] \in DocWorker /\ UNCHANGED <<drun, dtask, faults>>
      /\ dtask \in [DocTasks -> TaskRow] /\ faults \in 0 .. MaxFaults
      /\ WorkerSound(dworker[w], drun)
  BY WorkerFacts DEF Recover, Select
<1>2. \A r \in DocRuns : drun[r].attempts \in Attempts
  BY <1>1 DEF DocTypeOK, DocRow, Attempts
<1>3. WorkersFollow
  <2>1. CASE Recover(w)
    <3>. DEFINE dead == {<<r, drun[r].attempts>> : r \in {q \in DocRuns : drun[q].status = "running"
                                                                        /\ drun[q].expired}}
                j == [dworker[w] EXCEPT !.pc = "recovering", !.recover = dead]
    <3>1. dead \in SUBSET (DocRuns \X Attempts)
      BY <1>2
    <3>2. \A r \in DocRuns, a \in Attempts : <<r, a>> \in dead => drun[r].status # "none"
      OBVIOUS
    <3>3. Becomes(w, j)
      BY <2>1 DEF Recover
    <3>. HIDE DEF dead
    <3>4. j \in DocWorker
      BY <1>1, <3>1, WorkerEdits
    <3>5. WorkerSound(j, drun) /\ j.pc = "recovering"
      BY <1>1, <3>1, <3>2 DEF WorkerSound, DocWorker
    <3>. HIDE DEF j
    <3> QED
      BY <3>3, <3>4, <3>5, OneMoves
  <2>2. CASE Select(w)
    <3>. DEFINE due == {<<r, drun[r].attempts>> : r \in {q \in DocRuns : Claimable(q)}}
                j == [Resting EXCEPT !.batch = due]
    <3>1. due \in SUBSET (DocRuns \X Attempts)
      BY <1>2
    <3>2. \A r \in DocRuns, a \in Attempts :
            <<r, a>> \in due => drun[r].status # "none" /\ a < MaxAttempts
      BY DEF Claimable
    <3>3. Becomes(w, j)
      BY <2>2 DEF Select
    <3>. HIDE DEF due
    <3>4. j \in DocWorker
      BY <3>1, WorkerEdits, RestingType
    <3>5. WorkerSound(j, drun) /\ j.pc = "idle"
      BY <3>1, <3>2, RestingType DEF WorkerSound, DocWorker
    <3>. HIDE DEF j
    <3> QED
      BY <3>3, <3>4, <3>5, OneMoves
  <2> QED
    BY <2>1, <2>2
<1> QED
  BY <1>1, <1>3, NoRowFollows, StepKeeps

\* Recovery writes the rows that it has read, whatever they say by now.
LEMMA RecoverWritesKeeps ==
  ASSUME DocInvariant, NEW w \in DocWorkers, RecoverWrites(w)
  PROVE  DocInvariant'
<1>1. /\ DocTypeOK /\ UNCHANGED <<dtask, faults>> /\ Becomes(w, Resting)
      /\ drun \in [DocRuns -> DocRow]
      /\ \A r \in DocRuns : drun'[r] = drun[r] \/ \E a \in Attempts : drun'[r] = Recovered(drun[r], a)
      /\ drun' = [r \in DocRuns |-> drun'[r]]
  <2>1. DocTypeOK /\ drun \in [DocRuns -> DocRow]
    BY WorkerFacts DEF DocTypeOK
  <2>2. ASSUME NEW r \in DocRuns
        PROVE  drun'[r] = drun[r] \/ \E a \in Attempts : drun'[r] = Recovered(drun[r], a)
    <3>1. CASE \E a \in Attempts : <<r, a>> \in dworker[w].recover
      BY <3>1 DEF RecoverWrites
    <3>2. CASE ~\E a \in Attempts : <<r, a>> \in dworker[w].recover
      BY <3>2 DEF RecoverWrites
    <3> QED
      BY <3>1, <3>2
  <2> QED
    BY <2>1, <2>2 DEF RecoverWrites
<1>2. ASSUME NEW r \in DocRuns
      PROVE  /\ drun'[r] \in DocRow /\ Keeps(drun[r], drun'[r])
             /\ ActiveDoc(r) => drun'[r].status \in ActiveRun \/ drun'[r].lost
  <2>1. CASE drun'[r] = drun[r]
    BY <1>1, <2>1, KeptSame DEF ActiveDoc
  <2>2. CASE \E a \in Attempts : drun'[r] = Recovered(drun[r], a)
    BY <1>1, <2>2, RecoveredRow DEF Keeps, ActiveRun
  <2> QED
    BY <1>1, <2>1, <2>2
<1>3. RowsKept
  BY <1>1, <1>2 DEF RowsKept
<1>4. TasksFollow
  BY <1>1, <1>2 DEF TasksFollow, DocTypeOK
<1>5. WorkersFollow
  BY <1>1, RestingSound, OneMoves
<1> QED
  BY <1>1, <1>3, <1>4, <1>5, StepKeeps DEF DocTypeOK

\* A claim counts from the attempts that were read.
LEMMA ClaimKeeps ==
  ASSUME DocInvariant, NEW w \in DocWorkers, NEW r \in DocRuns, NEW a \in Attempts, Claim(w, r, a)
  PROVE  DocInvariant'
<1>. DEFINE rest == dworker[w].batch \ {<<r, a>>}
<1>1. /\ DocTypeOK /\ dworker[w] \in DocWorker /\ WorkerSound(dworker[w], drun)
      /\ dtask' \in [DocTasks -> TaskRow] /\ faults' \in 0 .. MaxFaults /\ UNCHANGED dtask
      /\ drun[r] \in DocRow /\ <<r, a>> \in dworker[w].batch
  BY WorkerFacts DEF Claim, DocTypeOK
<1>2. /\ rest \in SUBSET (DocRuns \X Attempts)
      /\ \A q \in DocRuns, b \in Attempts : <<q, b>> \in rest => drun[q].status # "none" /\ b < MaxAttempts
      /\ a + 1 \in Attempts /\ drun[r].status # "none"
  BY <1>1 DEF DocWorker, WorkerSound, Attempts
<1>3. CASE drun[r].status = "queued" /\ ~drun[r].asked
  <2>. PICK n \in Attempts : n = a + 1
    BY <1>2
  <2>. DEFINE j == [Resting EXCEPT !.pc = "working", !.batch = rest, !.run = r, !.monitored = TRUE]
              new == [drun[r] EXCEPT !.status = "running", !.owner = w, !.expired = FALSE,
                                     !.attempts = n]
  <2>1. drun' = [drun EXCEPT ![r] = new] /\ Becomes(w, j)
    BY <1>3 DEF Claim
  <2>2. Keeps(drun[r], new) /\ new.status = "running"
    BY <1>1, ClaimedRow
  <2>. HIDE DEF rest, new
  <2>3. j \in DocWorker
    BY <1>2, RestingType, WorkerEdits
  <2>4. WorkerSound(j, drun) /\ j.pc = "working"
    BY <1>2, RestingType DEF WorkerSound, DocWorker
  <2>. HIDE DEF j
  <2>5. RowsKept /\ TasksFollow
    BY <1>1, <2>1, <2>2, RowFollows DEF ActiveRun
  <2> QED
    BY <1>1, <2>1, <2>3, <2>4, <2>5, OneMoves, StepKeeps
<1>4. CASE ~(drun[r].status = "queued" /\ ~drun[r].asked)
  <2>. DEFINE j == [Resting EXCEPT !.batch = rest]
  <2>1. UNCHANGED drun /\ Becomes(w, j)
    BY <1>4 DEF Claim
  <2>. HIDE DEF rest
  <2>2. j \in DocWorker
    BY <1>2, RestingType, WorkerEdits
  <2>3. WorkerSound(j, drun) /\ j.pc = "idle"
    BY <1>2, RestingType DEF WorkerSound, DocWorker
  <2>. HIDE DEF j
  <2> QED
    BY <1>1, <2>1, <2>2, <2>3, NoRowFollows, OneMoves, StepKeeps
<1> QED
  BY <1>3, <1>4

\* A renewal writes the lease.
LEMMA RenewKeeps ==
  ASSUME DocInvariant, NEW w \in DocWorkers, Renew(w)
  PROVE  DocInvariant'
<1>1. /\ DocTypeOK /\ Doing(w) \in DocRuns /\ drun[Doing(w)] \in DocRow
      /\ dtask' \in [DocTasks -> TaskRow] /\ faults' \in 0 .. MaxFaults /\ UNCHANGED <<dtask, dworker>>
      /\ drun' = [drun EXCEPT ![Doing(w)] = [@ EXCEPT !.expired = FALSE]]
  BY WorkerFacts DEF Renew, Executing, At
<1>2. /\ Keeps(drun[Doing(w)], [drun[Doing(w)] EXCEPT !.expired = FALSE])
      /\ [drun[Doing(w)] EXCEPT !.expired = FALSE].status = drun[Doing(w)].status
  BY <1>1, LeaseRows
<1>3. RowsKept
  BY <1>1, <1>2, OneRow
<1>4. TasksFollow
  BY <1>1, <1>2, OneRow DEF TasksFollow, ActiveDoc
<1> QED
  BY <1>1, <1>3, <1>4, NoneMoves, StepKeeps

\* Steps of a worker that change neither runs nor tasks.
LEMMA QuietKeeps ==
  ASSUME DocInvariant, NEW w \in DocWorkers,
         MonitorFinishes(w) \/ Interrupt(w) \/ Conclude(w) \/ Crash(w)
  PROVE  DocInvariant'
<1>1. /\ DocTypeOK /\ dworker[w] \in DocWorker /\ WorkerSound(dworker[w], drun)
      /\ dtask' \in [DocTasks -> TaskRow] /\ faults' \in 0 .. MaxFaults /\ UNCHANGED <<drun, dtask>>
  <2>1. /\ DocTypeOK /\ dworker[w] \in DocWorker /\ WorkerSound(dworker[w], drun)
        /\ dtask \in [DocTasks -> TaskRow] /\ faults \in 0 .. MaxFaults
    BY WorkerFacts
  <2>2. UNCHANGED <<drun, dtask>> /\ (faults' = faults \/ Fault)
    BY DEF MonitorFinishes, Interrupt, Conclude, Crash
  <2> QED
    BY <2>1, <2>2 DEF Fault
<1>2. WorkersFollow
  <2>1. CASE MonitorFinishes(w)
    <3>. DEFINE j == [dworker[w] EXCEPT !.monitored = FALSE]
    <3>1. /\ Becomes(w, j) /\ j \in DocWorker /\ WorkerSound(j, drun)
          /\ dworker[w].pc \notin {"idle", "recovering"}
      BY <1>1, <2>1, WorkerEdits, SoundEdits DEF MonitorFinishes, Executing
    <3>2. j.pc = dworker[w].pc /\ j.run = dworker[w].run
      BY <1>1 DEF DocWorker
    <3>. HIDE DEF j
    <3> QED
      BY <3>1, <3>2, OneMoves DEF At, Doing
  <2>2. CASE Interrupt(w)
    <3>1. CASE RowOf(w).status = "cancelled"
      BY <2>2, <3>1, RestingSound, OneMoves DEF Interrupt, EndsPoll
    <3>2. CASE RowOf(w).status # "cancelled"
      <4>. DEFINE n == RowOf(w).attempts
                  j == [dworker[w] EXCEPT !.pc = "abandoning", !.tries = n]
      <4>1. n \in Attempts /\ dworker[w].pc \notin {"idle", "recovering"}
        BY <2>2, WorkerFacts DEF Interrupt, Executing, At, RowOf, DocRow, Attempts
      <4>. HIDE DEF n
      <4>2. Becomes(w, j)
        BY <2>2, <3>2 DEF Interrupt, n
      <4>3. j \in DocWorker /\ WorkerSound(j, drun)
        BY <1>1, <4>1, WorkerEdits, SoundEdits
      <4>4. j.pc = "abandoning"
        BY <1>1 DEF DocWorker
      <4>. HIDE DEF j
      <4> QED
        BY <4>2, <4>3, <4>4, OneMoves
    <3> QED
      BY <3>1, <3>2
  <2>3. CASE Conclude(w)
    <3>1. PICK u \in BOOLEAN :
            Becomes(w, [dworker[w] EXCEPT !.unable = u,
                          !.pc = IF RowOf(w).kind = "check" THEN "settling" ELSE "closing"])
      BY <2>3 DEF Conclude
    <3>. DEFINE pc == IF RowOf(w).kind = "check" THEN "settling" ELSE "closing"
                j == [dworker[w] EXCEPT !.unable = u, !.pc = pc]
    <3>2. pc \in DocPc /\ (pc = "closing" => RowOf(w).kind # "check") /\ dworker[w].pc = "working"
      BY <2>3 DEF DocPc, Conclude, At
    <3>. HIDE DEF pc
    <3>3. Becomes(w, j)
      BY <3>1 DEF pc
    <3>4. j \in DocWorker /\ WorkerSound(j, drun)
      BY <1>1, <3>2, WorkerEdits, SoundEdits
    <3>5. j.pc = pc /\ j.run = dworker[w].run
      BY <1>1 DEF DocWorker
    <3>. HIDE DEF j
    <3> QED
      BY <3>2, <3>3, <3>4, <3>5, OneMoves DEF RowOf, Doing
  <2>4. CASE Crash(w)
    BY <2>4, RestingSound, OneMoves DEF Crash, EndsPoll
  <2> QED
    BY <2>1, <2>2, <2>3, <2>4
<1> QED
  BY <1>1, <1>2, NoRowFollows, StepKeeps

\* A worker hears of a stop.
LEMMA HearStopKeeps ==
  ASSUME DocInvariant, NEW w \in DocWorkers, HearStop(w)
  PROVE  DocInvariant'
<1>1. /\ DocTypeOK /\ Doing(w) \in DocRuns /\ dtask \in [DocTasks -> TaskRow]
      /\ faults' \in 0 .. MaxFaults /\ UNCHANGED faults
  BY WorkerFacts DEF HearStop, Executing, At
<1>2. WorkersFollow
  BY RestingSound, OneMoves DEF HearStop, EndsPoll
<1>3. CASE ActiveDoc(Doing(w))
  BY <1>1, <1>2, <1>3, CancelKeeps DEF HearStop
<1>4. CASE ~ActiveDoc(Doing(w))
  BY <1>1, <1>2, <1>4, NoRowFollows, StepKeeps DEF HearStop
<1> QED
  BY <1>3, <1>4

\* A run that takes too long is queued again or given up, with its task.
LEMMA AbandonKeeps ==
  ASSUME DocInvariant, NEW w \in DocWorkers, Abandon(w)
  PROVE  DocInvariant'
<1>. DEFINE r == Doing(w)
            last == dworker[w].tries >= MaxAttempts
            new == Released(drun[r], IF last THEN "failed" ELSE "queued")
<1>1. /\ DocTypeOK /\ r \in DocRuns /\ drun[r] \in DocRow /\ dtask \in [DocTasks -> TaskRow]
      /\ faults' \in 0 .. MaxFaults /\ drun' = [drun EXCEPT ![r] = new]
      /\ dtask' = IF last THEN Abandoned(w, dtask) ELSE dtask
  BY WorkerFacts DEF Abandon, At
<1>2. Keeps(drun[r], new) /\ (last \/ new.status = "queued")
  BY <1>1, ReleasedRow
<1>. HIDE DEF new
<1>3. /\ dtask' \in [DocTasks -> TaskRow]
      /\ \A t \in DocTasks : dtask'[t].status = "in_progress" =>
           /\ dtask[t].status = "in_progress"
           /\ last => drun[r].task # t \/ drun[r].kind # "check"
  <2>1. CASE last /\ drun[r].kind = "check" /\ drun[r].task \in DocTasks
    <3>. DEFINE t == drun[r].task
                row == IF dtask[t].status = "in_progress"
                       THEN [dtask[t] EXCEPT !.status = "failed"] ELSE dtask[t]
    <3>1. dtask' = [dtask EXCEPT ![t] = row]
      BY <1>1, <2>1 DEF Abandoned, RowOf
    <3>2. row \in TaskRow /\ row.status # "in_progress"
      BY <1>1, <2>1 DEF TaskRow
    <3>. HIDE DEF row
    <3> QED
      BY <1>1, <2>1, <3>1, <3>2
  <2>2. CASE ~(last /\ drun[r].kind = "check" /\ drun[r].task \in DocTasks)
    BY <1>1, <2>2 DEF Abandoned, RowOf
  <2> QED
    BY <2>1, <2>2
<1>4. RowsKept /\ TasksFollow
  BY <1>1, <1>2, <1>3, RowFollows DEF ActiveRun
<1>5. WorkersFollow
  BY RestingSound, OneMoves DEF Abandon, EndsPoll
<1> QED
  BY <1>1, <1>4, <1>5, StepKeeps

\* A check settles its task before it closes.
LEMMA SettleKeeps ==
  ASSUME DocInvariant, NEW w \in DocWorkers, Settle(w)
  PROVE  DocInvariant'
<1>. DEFINE t == RowOf(w).task
            verdict == IF dworker[w].unable THEN "failed" ELSE "completed"
<1>1. /\ DocTypeOK /\ dworker[w] \in DocWorker /\ WorkerSound(dworker[w], drun)
      /\ dtask \in [DocTasks -> TaskRow] /\ faults' \in 0 .. MaxFaults /\ UNCHANGED drun
      /\ dworker[w].pc = "settling"
  BY WorkerFacts DEF Settle, At
<1>2. ASSUME NEW pc \in {"closing", "failing"}
      PROVE  /\ [dworker[w] EXCEPT !.pc = pc] \in DocWorker
             /\ WorkerSound([dworker[w] EXCEPT !.pc = pc], drun)
             /\ [dworker[w] EXCEPT !.pc = pc].run = dworker[w].run
             /\ [dworker[w] EXCEPT !.pc = pc].pc = pc
  <2>1. pc \in DocPc
    BY DEF DocPc
  <2>2. /\ [dworker[w] EXCEPT !.pc = pc].run = dworker[w].run
        /\ [dworker[w] EXCEPT !.pc = pc].pc = pc
    BY <1>1 DEF DocWorker
  <2> QED
    BY <1>1, <2>1, <2>2, WorkerEdits, SoundEdits
<1>3. CASE dworker[w].unable \/ Completable(dtask[t])
  <2>1. dtask' = [dtask EXCEPT ![t] = [@ EXCEPT !.status = verdict]] /\ Goes(w, "closing")
    BY <1>3 DEF Settle
  <2>2. /\ dtask' \in [DocTasks -> TaskRow]
        /\ \A u \in DocTasks : dtask'[u].status = "in_progress" =>
             dtask[u].status = "in_progress" /\ u # t
    <3>1. verdict \in {"completed", "failed"}
      OBVIOUS
    <3>. HIDE DEF verdict
    <3> QED
      BY <1>1, <2>1, <3>1, FailsTask
  <2>. DEFINE j == [dworker[w] EXCEPT !.pc = "closing"]
  <2>3. Becomes(w, j) /\ j \in DocWorker /\ WorkerSound(j, drun) /\ j.run = dworker[w].run
    BY <1>2, <2>1 DEF Goes
  <2>. HIDE DEF j
  <2>4. \A u \in DocTasks : drun[j.run].task = u => dtask'[u].status # "in_progress"
    BY <2>2, <2>3 DEF RowOf, Doing
  <2>5. WorkersFollow
    BY <2>3, <2>4, OneMoves
  <2> QED
    BY <1>1, <2>2, <2>5, NoRowFollows, StepKeeps
<1>4. CASE ~(dworker[w].unable \/ Completable(dtask[t]))
  <2>1. UNCHANGED dtask /\ Goes(w, "failing")
    BY <1>4 DEF Settle
  <2>. DEFINE j == [dworker[w] EXCEPT !.pc = "failing"]
  <2>2. Becomes(w, j) /\ j \in DocWorker /\ WorkerSound(j, drun) /\ j.pc = "failing"
    BY <1>2, <2>1 DEF Goes
  <2>. HIDE DEF j
  <2> QED
    BY <1>1, <2>1, <2>2, OneMoves, NoRowFollows, StepKeeps
<1> QED
  BY <1>3, <1>4

\* A batch fails the tasks without a document ...
LEMMA SortKeeps ==
  ASSUME DocInvariant, NEW w \in DocWorkers, Sort(w)
  PROVE  DocInvariant'
<1>1. /\ DocTypeOK /\ dworker[w] \in DocWorker /\ WorkerSound(dworker[w], drun)
      /\ dtask \in [DocTasks -> TaskRow] /\ faults' \in 0 .. MaxFaults /\ UNCHANGED drun
      /\ dworker[w].pc = "working"
  BY WorkerFacts DEF Sort, At
<1>2. PICK rest \in SUBSET DocTasks, unable \in SUBSET DocTasks :
        /\ dtask' = [t \in DocTasks |->
                       IF t \in unable THEN [dtask[t] EXCEPT !.status = "failed"] ELSE dtask[t]]
        /\ Becomes(w, [dworker[w] EXCEPT !.pc = "settling", !.rest = rest])
  BY DEF Sort
<1>3. \A t \in DocTasks : [dtask[t] EXCEPT !.status = "failed"] \in TaskRow
                          /\ [dtask[t] EXCEPT !.status = "failed"].status = "failed"
  BY <1>1 DEF TaskRow
<1>4. /\ dtask' \in [DocTasks -> TaskRow]
      /\ \A t \in DocTasks : dtask'[t].status = "in_progress" => dtask[t].status = "in_progress"
  BY <1>1, <1>2, <1>3
<1>. DEFINE j == [dworker[w] EXCEPT !.pc = "settling", !.rest = rest]
<1>5. Becomes(w, j) /\ j \in DocWorker /\ WorkerSound(j, drun)
  BY <1>1, <1>2, WorkerEdits, SoundEdits
<1>6. j.pc = "settling"
  BY <1>1 DEF DocWorker
<1>. HIDE DEF j
<1> QED
  BY <1>1, <1>4, <1>5, <1>6, OneMoves, NoRowFollows, StepKeeps

\* ... and queues the runs of the others.
LEMMA QueueKeeps ==
  ASSUME DocInvariant, NEW w \in DocWorkers, NEW t \in DocTasks, Queue(w, t)
  PROVE  DocInvariant'
<1>. DEFINE kind == IF RowOf(w).kind = "sorts" THEN "check" ELSE "retest"
            j == [dworker[w] EXCEPT !.rest = @ \ {t}]
<1>1. /\ DocTypeOK /\ dworker[w] \in DocWorker /\ WorkerSound(dworker[w], drun)
      /\ dtask \in [DocTasks -> TaskRow] /\ faults' \in 0 .. MaxFaults
      /\ dworker[w].pc = "settling" /\ Becomes(w, j) /\ kind \in Kinds
  BY WorkerFacts DEF Queue, At, Kinds
<1>2. dworker[w].rest \ {t} \in SUBSET DocTasks
  BY <1>1 DEF DocWorker
<1>3. j \in DocWorker /\ WorkerSound(j, drun)
  BY <1>1, <1>2, WorkerEdits, SoundEdits
<1>4. j.pc = dworker[w].pc /\ j.run = dworker[w].run
  BY <1>1 DEF DocWorker
<1>. HIDE DEF j
<1>5. /\ dworker' \in [DocWorkers -> DocWorker] /\ dworker'[w] = j
      /\ \A v \in DocWorkers \ {w} : dworker'[v] = dworker[v]
  BY <1>1, <1>3 DEF Becomes, DocTypeOK
<1>6. CASE \E r \in DocRuns : Insert(r, kind, t) /\ dtask' = Created(dtask, t, kind)
  <2>. HIDE DEF kind
  <2>1. \A v \in DocWorkers : /\ WorkerSound(dworker'[v], drun)
                              /\ dworker'[v].pc = dworker[v].pc /\ dworker'[v].run = dworker[v].run
    BY <1>3, <1>4, <1>5 DEF DocInvariant, WorkersSound
  <2> QED
    BY <1>1, <1>5, <1>6, <2>1, InsertKeeps
<1>7. CASE UNCHANGED <<drun, dtask>>
  BY <1>1, <1>3, <1>4, <1>7, OneMoves, NoRowFollows, StepKeeps
<1> QED
  BY <1>6, <1>7 DEF Queue

\* Only a worker that has settled its check closes it.
LEMMA CloseKeeps ==
  ASSUME DocInvariant, NEW w \in DocWorkers, Close(w)
  PROVE  DocInvariant'
<1>. DEFINE r == Doing(w)
            verdict == IF dworker[w].unable THEN "failed" ELSE "completed"
            j == [Resting EXCEPT !.batch = dworker[w].batch]
<1>1. /\ DocTypeOK /\ dworker[w] \in DocWorker /\ WorkerSound(dworker[w], drun)
      /\ dtask \in [DocTasks -> TaskRow] /\ faults' \in 0 .. MaxFaults
      /\ r \in DocRuns /\ drun[r] \in DocRow
      /\ drun' = [drun EXCEPT ![r] = Released(drun[r], "completed")]
      /\ At(w, "closing") \/ drun[r].kind # "check"
      /\ Becomes(w, j)
  BY WorkerFacts DEF Close, At, Batch, RowOf
<1>2. Keeps(drun[r], Released(drun[r], "completed"))
  BY <1>1, ReleasedRow
<1>3. /\ dtask' \in [DocTasks -> TaskRow]
      /\ \A t \in DocTasks : dtask'[t].status = "in_progress" => dtask[t].status = "in_progress"
  <2>1. CASE drun[r].kind = "retest"
    <3>1. dtask' = [dtask EXCEPT ![drun[r].task] = [@ EXCEPT !.status = verdict]]
      BY <2>1 DEF Close
    <3>2. verdict \in {"completed", "failed"}
      OBVIOUS
    <3>. HIDE DEF verdict
    <3> QED
      BY <1>1, <3>1, <3>2, FailsTask
  <2>2. CASE drun[r].kind # "retest"
    BY <1>1, <2>2 DEF Close
  <2> QED
    BY <2>1, <2>2
<1>4. RowsKept /\ TasksFollow
  BY <1>1, <1>2, <1>3, RowFollows
<1>5. dworker[w].batch \in SUBSET (DocRuns \X Attempts)
  BY <1>1 DEF DocWorker
<1>6. j \in DocWorker
  BY <1>5, RestingType, WorkerEdits
<1>7. j.pc = "idle" /\ j.batch = dworker[w].batch /\ j.recover = {}
  BY RestingType DEF DocWorker
<1>. HIDE DEF j
<1>8. WorkerSound(j, drun)
  BY <1>1, <1>7 DEF WorkerSound
<1> QED
  BY <1>1, <1>4, <1>6, <1>7, <1>8, OneMoves, StepKeeps

\* A run that raises takes its task along.
LEMMA FailKeeps ==
  ASSUME DocInvariant, NEW w \in DocWorkers, Fail(w)
  PROVE  DocInvariant'
<1>. DEFINE r == Doing(w)
<1>1. /\ DocTypeOK /\ dtask \in [DocTasks -> TaskRow] /\ faults' \in 0 .. MaxFaults
      /\ r \in DocRuns /\ drun[r] \in DocRow
      /\ drun' = [drun EXCEPT ![r] = Released(drun[r], "failed")]
  BY WorkerFacts DEF Fail, At
<1>2. Keeps(drun[r], Released(drun[r], "failed"))
  BY <1>1, ReleasedRow
<1>3. /\ dtask' \in [DocTasks -> TaskRow]
      /\ \A t \in DocTasks : dtask'[t].status = "in_progress" =>
           dtask[t].status = "in_progress" /\ (drun[r].task # t \/ drun[r].kind # "check")
  <2>1. CASE drun[r].kind = "check"
    <3>1. dtask' = [dtask EXCEPT ![drun[r].task] = [@ EXCEPT !.status = "failed"]]
      BY <2>1 DEF Fail, RowOf
    <3> QED
      BY <1>1, <3>1, FailsTask
  <2>2. CASE drun[r].kind # "check"
    BY <1>1, <2>2 DEF Fail, RowOf
  <2> QED
    BY <2>1, <2>2
<1>4. RowsKept /\ TasksFollow
  BY <1>1, <1>2, <1>3, RowFollows
<1> QED
  BY <1>1, <1>4, RestingSound, OneMoves, StepKeeps DEF Fail, EndsPoll

-----------------------------------------------------------------------------
(* The invariant holds.                                                     *)

\* At the start there are no runs, and no worker does anything.
LEMMA DocStart == DocInit => DocInvariant
<1>. SUFFICES ASSUME DocInit PROVE DocInvariant
  OBVIOUS
<1>1. /\ drun \in [DocRuns -> DocRow] /\ dworker \in [DocWorkers -> DocWorker]
      /\ WorkersSound
  BY EmptyRow, RestingSound DEF DocInit, WorkersSound
<1>2. /\ dtask \in [DocTasks -> TaskRow] /\ \A t \in DocTasks : dtask[t].status # "in_progress"
  BY DEF DocInit, TaskRow
<1>3. faults \in 0 .. MaxFaults
  BY DEF DocInit
<1> QED
  BY <1>1, <1>2, <1>3 DEF DocInvariant, DocTypeOK, TasksChecked

\* Every step keeps it.
LEMMA DocSteps == DocInvariant /\ [DocNext]_docVars => DocInvariant'
<1>. SUFFICES ASSUME DocInvariant, [DocNext]_docVars PROVE DocInvariant'
  OBVIOUS
<1>1. CASE UNCHANGED docVars
  BY <1>1 DEF docVars, DocInvariant, DocTypeOK, WorkersSound, TasksChecked, Checked, ActiveDoc, At, Doing
<1>2. CASE DocRequest
  BY <1>2, RequestsKeep, StopsKeep DEF DocRequest
<1>3. ASSUME NEW w \in DocWorkers, DocProgress(w)
      PROVE  DocInvariant'
  BY <1>3, ReadsKeep, RecoverWritesKeeps, ClaimKeeps, HearStopKeeps, AbandonKeeps, QuietKeeps,
     SettleKeeps, SortKeeps, QueueKeeps, CloseKeeps, FailKeeps DEF DocProgress
<1>4. ASSUME NEW w \in DocWorkers, Renew(w) \/ MonitorFinishes(w) \/ Interrupt(w) \/ Crash(w)
      PROVE  DocInvariant'
  BY <1>4, RenewKeeps, QuietKeeps
<1>5. ASSUME NEW r \in DocRuns, LeaseRunsOut(r)
      PROVE  DocInvariant'
  BY <1>5, LeaseKeeps
<1> QED
  BY <1>1, <1>2, <1>3, <1>4, <1>5 DEF DocNext

-----------------------------------------------------------------------------

\* The tables, the workers and the attempts keep their types: no recovery, claim or late
\* write takes a run beyond MaxAttempts.
THEOREM DocumentTypeCorrect == DocSpec => []DocTypeOK
<1>1. DocInvariant => DocTypeOK
  BY DEF DocInvariant
<1> QED
  BY <1>1, DocStart, DocSteps, PTL DEF DocSpec

\* No task is left in progress without a check, for any number of workers, tasks and runs,
\* unless recovery gave its check up.
THEOREM NoneStranded == DocSpec => []NoStrandedTask
<1>1. DocInvariant => NoStrandedTask
  BY DEF DocInvariant, TasksChecked, Checked, NoStrandedTask
<1> QED
  BY <1>1, DocStart, DocSteps, PTL DEF DocSpec

-----------------------------------------------------------------------------
(* What a stopped task may become.                                          *)

\* The tasks that a step completes.
Completes(t) == dtask[t].status # "completed" /\ dtask'[t].status = "completed"

\* A new run, a stop, a failure and a step that writes no task complete none.
LEMMA OthersComplete ==
  ASSUME DocTypeOK, NEW t \in DocTasks, Completes(t),
         \/ UNCHANGED dtask
         \/ \E u, kind : dtask' = Created(dtask, u, kind)
         \/ \E r \in DocRuns : dtask' = StoppedTasks(dtask, r)
         \/ \E u : dtask' = [dtask EXCEPT ![u] = [status |-> "failed", stopped |-> TRUE]]
         \/ \E u : dtask' = [dtask EXCEPT ![u] = [@ EXCEPT !.status = "failed"]]
         \/ \E w \in DocWorkers : dtask' = Abandoned(w, dtask)
         \/ \E unable : dtask' = [u \in DocTasks |-> IF u \in unable
                                                     THEN [dtask[u] EXCEPT !.status = "failed"]
                                                     ELSE dtask[u]]
  PROVE  FALSE
<1>1. dtask \in [DocTasks -> TaskRow]
  BY DEF DocTypeOK
<1>2. dtask'[t] \in {dtask[t], [status |-> "failed", stopped |-> TRUE],
                     [dtask[t] EXCEPT !.status = "failed"], [dtask[t] EXCEPT !.status = "in_progress"]}
  BY <1>1 DEF Created, StoppedTasks, Abandoned
<1>3. dtask'[t].status \in {dtask[t].status, "failed", "in_progress"}
  BY <1>1, <1>2 DEF TaskRow
<1> QED
  BY <1>3 DEF Completes

\* complete_task refuses a stopped task; only the end of a retest does not ask.
LEMMA StoppedSteps == DocInvariant /\ [DocNext]_docVars => [StoppedStays]_docVars
<1>. SUFFICES ASSUME DocInvariant, DocNext, NEW t \in DocTasks, dtask[t].stopped, Completes(t)
              PROVE  \E w \in DocWorkers : At(w, "closing") /\ RowOf(w).kind = "retest"
  BY DEF StoppedStays, Completes
<1>t. DocTypeOK /\ dtask \in [DocTasks -> TaskRow]
  BY DEF DocInvariant, DocTypeOK
<1>1. CASE DocRequest
  BY <1>t, <1>1, OthersComplete
  DEF DocRequest, RequestBatch, RequestRun, StopRun, StopDocTask
<1>2. CASE \E r \in DocRuns : LeaseRunsOut(r)
  BY <1>t, <1>2, OthersComplete DEF LeaseRunsOut
<1>3. ASSUME NEW w \in DocWorkers, Settle(w)
      PROVE  FALSE
  <2>. DEFINE verdict == IF dworker[w].unable THEN "failed" ELSE "completed"
              u == RowOf(w).task
  <2>1. \/ UNCHANGED dtask
        \/ /\ dtask' = [dtask EXCEPT ![u] = [@ EXCEPT !.status = verdict]]
           /\ dworker[w].unable \/ ~dtask[u].stopped
    BY <1>3 DEF Settle, Completable
  <2>2. UNCHANGED dtask \/ dtask' = [dtask EXCEPT ![u] = [@ EXCEPT !.status = "failed"]] \/ u # t
    BY <2>1
  <2>3. u # t /\ dtask' = [dtask EXCEPT ![u] = [@ EXCEPT !.status = verdict]]
    BY <1>t, <2>1, <2>2, OthersComplete
  <2>. HIDE DEF verdict, u
  <2> QED
    BY <1>t, <2>3 DEF Completes
<1>4. ASSUME NEW w \in DocWorkers, Close(w)
      PROVE  At(w, "closing") /\ RowOf(w).kind = "retest"
  <2>1. drun[Doing(w)].kind = "retest"
    BY <1>t, <1>4, OthersComplete DEF Close
  <2> QED
    BY <1>4, <2>1 DEF Close, Batch, RowOf
<1>5. ASSUME NEW w \in DocWorkers, DocProgress(w), ~Settle(w), ~Close(w)
      PROVE  FALSE
  <2>1. CASE Recover(w) \/ RecoverWrites(w) \/ Select(w) \/ Conclude(w)
             \/ \E r \in DocRuns, a \in Attempts : Claim(w, r, a)
    BY <1>t, <2>1, OthersComplete DEF Recover, RecoverWrites, Select, Conclude, Claim
  <2>2. CASE HearStop(w)
    <3>1. Doing(w) \in DocRuns
      BY <2>2, WorkerFacts DEF HearStop, Executing, At
    <3> QED
      BY <1>t, <2>2, <3>1, OthersComplete DEF HearStop
  <2>3. CASE Abandon(w) \/ Fail(w)
    BY <1>t, <2>3, OthersComplete DEF Abandon, Fail
  <2>4. CASE Sort(w)
    BY <1>t, <2>4, OthersComplete DEF Sort
  <2>5. CASE \E u \in DocTasks : Queue(w, u)
    BY <1>t, <2>5, OthersComplete DEF Queue
  <2> QED
    BY <1>5, <2>1, <2>2, <2>3, <2>4, <2>5 DEF DocProgress
<1>6. ASSUME NEW w \in DocWorkers, Renew(w) \/ MonitorFinishes(w) \/ Interrupt(w) \/ Crash(w)
      PROVE  FALSE
  BY <1>t, <1>6, OthersComplete DEF Renew, MonitorFinishes, Interrupt, Crash
<1> QED
  BY <1>1, <1>2, <1>3, <1>4, <1>5, <1>6 DEF DocNext

\* A task that a user stopped is completed by no check, whatever runs, recoveries and
\* later uploads there are; only a retest writes over it.
THEOREM StoppedIsKept == DocSpec => StoppedNeverCompletes
<1> QED
  BY DocStart, DocSteps, StoppedSteps, PTL DEF DocSpec, StoppedNeverCompletes

-----------------------------------------------------------------------------
(* The scans of the assistant: which tasks are at work, and with what.        *)

\* A set of natural numbers has its Min.
LEMMA LeastNumber ==
  ASSUME NEW S \in SUBSET Nat, S # {}
  PROVE  Min(S) \in S
<1>1. PICK x \in S : \A y \in S : ~ (<<y, x>> \in OpToRel(<, Nat))
  BY NatLessThanWellFounded, WFMin, Zenon
<1>2. \A y \in S : ~ (y < x)
  BY <1>1 DEF OpToRel
<1>3. \A y \in S : x <= y
  BY <1>2
<1> QED BY <1>3 DEF Min

\* A task that is in active_tasks.
Busy == Working \cup {"tidying"}
\* The steps that are left have no checkpoint; a task leaves active_tasks when its scan has
\* ended, and no other is begun for it.
Follows(polled, read, row, tasks, a) ==
  /\ polled => IF read THEN a \in TaskIds /\ tasks[a].pc = "begin" ELSE a = 0
  /\ \A k \in TaskIds :
       /\ tasks[k].pc \in Busy => a = k
       /\ tasks[k].pc \in Working => tasks[k].left \cap row.done = {}
       /\ tasks[k].pc = "tidying" => row.status \in EndedScan
       /\ tasks[k].pc = "tidied" => row.status \in EndedScan /\ a = 0 /\ ~polled
Followed(s) == Follows(poll.scan = s, poll.read, scan[s], stask[s], active[s])
\* A step that is executed was left, and the poll finds a place for the scan it claimed.
StepsLeft(s) == \A k \in TaskIds : TaskAt(s, k, "step") => stask[s][k].left # {}
PlaceLeft(s) == poll.scan = s /\ ~poll.read => FreeIds(s) # {}
ScanSound(s) == StepsLeft(s) /\ PlaceLeft(s) /\ (~revived[s] => Followed(s))
ScanInvariant == ScanTypeOK /\ \A s \in Scans : ScanSound(s)

-----------------------------------------------------------------------------
\* The types of what belongs to one scan.
LEMMA ScanTyped ==
  ASSUME ScanTypeOK, NEW s \in Scans
  PROVE  /\ scan[s] \in ScanRow /\ stask[s] \in [TaskIds -> ScanTask]
         /\ active[s] \in {0} \cup TaskIds /\ revived[s] \in BOOLEAN /\ poll \in Poll
         /\ \A k \in TaskIds : stask[s][k] \in ScanTask
BY DEF ScanTypeOK

\* One row, one task, one entry of active_tasks.
LEMMA RowSet ==
  ASSUME ScanTypeOK, NEW s \in Scans, NEW row \in ScanRow, SetScan(s, row)
  PROVE  /\ scan' \in [Scans -> ScanRow] /\ scan'[s] = row
         /\ \A r \in Scans \ {s} : scan'[r] = scan[r]
BY DEF ScanTypeOK, SetScan

\* One task of one scan, replaced by another.
LEMMA TaskSet ==
  ASSUME ScanTypeOK, NEW s \in Scans, NEW k \in TaskIds, NEW t \in ScanTask, SetTask(s, k, t)
  PROVE  /\ stask' \in [Scans -> [TaskIds -> ScanTask]]
         /\ stask'[s] \in [TaskIds -> ScanTask] /\ stask'[s][k] = t
         /\ \A j \in TaskIds \ {k} : stask'[s][j] = stask[s][j]
         /\ \A r \in Scans \ {s} : stask'[r] = stask[r]
<1> DEFINE tasks == [stask[s] EXCEPT ![k] = t]
<1>1. stask[s] \in [TaskIds -> ScanTask]
  BY ScanTyped
<1>2. tasks \in [TaskIds -> ScanTask] /\ tasks[k] = t /\ \A j \in TaskIds \ {k} : tasks[j] = stask[s][j]
  BY <1>1
<1>3. stask' = [stask EXCEPT ![s] = tasks]
  BY DEF SetTask
<1> HIDE DEF tasks
<1> QED BY <1>2, <1>3 DEF ScanTypeOK

\* One entry of active_tasks, removed.
LEMMA Popped ==
  ASSUME ScanTypeOK, NEW s \in Scans, Pop(s)
  PROVE  /\ active' \in [Scans -> {0} \cup TaskIds] /\ active'[s] = 0
         /\ \A r \in Scans \ {s} : active'[r] = active[r]
BY DEF ScanTypeOK, Pop

\* Whatever happens to a scan leaves the others alone.
LEMMA OthersKeep ==
  ASSUME ScanInvariant, NEW s, NEW r \in Scans, r # s,
         scan'[r] = scan[r], stask'[r] = stask[r], active'[r] = active[r],
         revived'[r] = revived[r],
         poll' = poll \/ (poll.scan # r /\ poll'.scan # r)
  PROVE  ScanSound(r)'
<1>1. ScanSound(r)
  BY DEF ScanInvariant
<1>2. StepsLeft(r)'
  BY <1>1 DEF ScanSound, StepsLeft, TaskAt
<1>3. PlaceLeft(r)'
  <2>1. FreeIds(r)' = FreeIds(r)
    BY DEF FreeIds
  <2> QED BY <1>1, <2>1 DEF ScanSound, PlaceLeft
<1>4. Followed(r) => Followed(r)'
  BY DEF Followed, Follows
<1> QED BY <1>1, <1>2, <1>3, <1>4 DEF ScanSound

\* A row that changes while no task and no poll moves.
LEMMA RowKeeps ==
  ASSUME ScanInvariant, NEW s \in Scans, NEW row \in ScanRow, SetScan(s, row),
         stask' = stask, active' = active, poll' = poll,
         revived' = revived \/ revived'[s],
         row.done \subseteq scan[s].done, revived'[s] \/ (scan[s].status \in EndedScan => row.status \in EndedScan)
  PROVE  ScanSound(s)'
<1>1. ScanTypeOK /\ ScanSound(s)
  BY DEF ScanInvariant
<1>2. scan'[s] = row
  BY <1>1, RowSet
<1>3. StepsLeft(s)' /\ PlaceLeft(s)'
  BY <1>1 DEF ScanSound, StepsLeft, PlaceLeft, TaskAt, FreeIds
<1>4. ~revived'[s] => Followed(s)'
  <2> SUFFICES ASSUME ~revived'[s] PROVE Followed(s)'
    OBVIOUS
  <2>1. Followed(s)
    BY <1>1 DEF ScanSound
  <2> QED BY <1>2, <2>1 DEF Followed, Follows
<1> QED BY <1>3, <1>4 DEF ScanSound

\* Requests write the row of a scan: only a resume makes an ended scan live, and says so.
LEMMA RequestTyped ==
  ASSUME ScanInvariant, NEW s \in Scans, Submit(s) \/ Pause(s) \/ Resume(s) \/ StopScan(s)
  PROVE  ScanInvariant'
<1>1. ScanTypeOK /\ scan[s] \in ScanRow /\ api[s] \in {"none", "running", "paused", "stopped"}
  BY DEF ScanInvariant, ScanTypeOK
<1>2. PICK row \in ScanRow :
        /\ SetScan(s, row) /\ row.done \subseteq scan[s].done
        /\ revived'[s] \/ (scan[s].status \in EndedScan => row.status \in EndedScan)
  <2>1. CASE Submit(s)
    <3> DEFINE row == [NoScan EXCEPT !.status = "pending"]
    <3>1. SetScan(s, row) /\ scan[s].status = "none"
      BY <2>1 DEF Submit
    <3>2. row = [NoScan EXCEPT !.status = "pending"]
      OBVIOUS
    <3> HIDE DEF row
    <3>3. row = [status |-> "pending", control |-> "queued", shown |-> FALSE, lease |-> "none", done |-> {}]
      BY ONLY <3>2 DEF NoScan
    <3>4. row \in ScanRow /\ row.done = {}
      BY <3>3 DEF ScanRow, ActiveScan, Controls
    <3> QED BY <3>1, <3>4 DEF EndedScan
  <2>2. CASE Pause(s)
    <3> DEFINE row == [scan[s] EXCEPT !.control = "paused", !.shown = TRUE, !.lease = "paused"]
    <3>1. SetScan(s, row)
      BY <2>2 DEF Pause
    <3>2. row \in ScanRow /\ row.done = scan[s].done /\ row.status = scan[s].status
      BY <1>1 DEF ScanRow, Controls
    <3> HIDE DEF row
    <3> QED BY <3>1, <3>2
  <2>3. CASE Resume(s)
    <3> DEFINE known == api[s] = "paused"
               row == [scan[s] EXCEPT
                       !.status = IF ~known /\ @ = "pending" THEN @ ELSE "running",
                       !.control = "running", !.shown = FALSE, !.lease = "none"]
    <3>1. SetScan(s, row)
      BY <2>3 DEF Resume
    <3>2. row \in ScanRow /\ row.done = scan[s].done
      BY <1>1 DEF ScanRow, Controls, ActiveScan
    <3> HIDE DEF row
    <3>3. scan[s].status \in EndedScan => revived'[s]
      BY <1>1, <2>3 DEF Resume, ScanTypeOK
    <3> QED BY <3>1, <3>2, <3>3
  <2>4. CASE StopScan(s)
    <3> DEFINE row == [scan[s] EXCEPT !.status = "cancelled", !.control = "cancelled",
                                !.shown = FALSE, !.lease = "none"]
    <3>1. SetScan(s, row)
      BY <2>4 DEF StopScan
    <3>2. row \in ScanRow /\ row.done = scan[s].done /\ row.status = "cancelled"
      BY <1>1 DEF ScanRow, Controls, EndedScan
    <3> HIDE DEF row
    <3> QED BY <3>1, <3>2 DEF EndedScan
  <2> QED BY <2>1, <2>2, <2>3, <2>4
<1>3. stask' = stask /\ active' = active /\ poll' = poll
  BY DEF Submit, Pause, Resume, StopScan
<1>4. /\ revived' \in [Scans -> BOOLEAN] /\ (revived' = revived \/ revived'[s])
      /\ \A r \in Scans \ {s} : revived'[r] = revived[r]
  <2>1. CASE Resume(s)
    BY <1>1, <2>1 DEF ScanTypeOK, Resume, EndedScan
  <2>2. CASE Submit(s) \/ Pause(s) \/ StopScan(s)
    BY <1>1, <2>2 DEF ScanTypeOK, Submit, Pause, StopScan
  <2> QED BY <2>1, <2>2
<1>5. scan' \in [Scans -> ScanRow] /\ \A r \in Scans \ {s} : scan'[r] = scan[r]
  BY <1>1, <1>2, RowSet
<1>6. api' \in [Scans -> {"none", "running", "paused", "stopped"}] /\ restarts' = restarts
  BY <1>1 DEF ScanTypeOK, Submit, Pause, Resume, StopScan
<1>7. ScanTypeOK'
  BY <1>1, <1>3, <1>4, <1>5, <1>6 DEF ScanTypeOK
<1>8. ScanSound(s)'
  BY <1>2, <1>3, <1>4, RowKeeps
<1>9. ASSUME NEW r \in Scans, r # s PROVE ScanSound(r)'
  BY <1>3, <1>4, <1>5, <1>9, OthersKeep
<1> QED BY <1>7, <1>8, <1>9 DEF ScanInvariant

\* The changes of a row that neither requests nor polls make.
LEMMA RenewedRow ==
  ASSUME NEW row \in ScanRow
  PROVE  /\ Renewed(row) \in ScanRow /\ Renewed(row).done = row.done
         /\ Renewed(row).status = row.status
         /\ \A done \in SUBSET Plan :
              LET new == [Renewed(row) EXCEPT !.done = done]
              IN  new \in ScanRow /\ new.done = done /\ new.status = row.status
BY DEF Renewed, ScanRow

\* A final status, written over whatever there is.
LEMMA EndedRow ==
  ASSUME NEW row \in ScanRow, NEW status \in EndedScan
  PROVE  /\ Ended(row, status) \in ScanRow /\ Ended(row, status).done = row.done
         /\ Ended(row, status).status = status
BY DEF Ended, ScanRow, Controls, EndedScan

\* A progress message, or time, changes the lease.
LEMMA RowTyped ==
  ASSUME ScanInvariant, NEW s \in Scans, Progress(s) \/ ScanLeaseExpires(s)
  PROVE  ScanInvariant'
<1>1. ScanTypeOK /\ scan[s] \in ScanRow
  BY DEF ScanInvariant, ScanTypeOK
<1>2. PICK row \in ScanRow :
        SetScan(s, row) /\ row.done = scan[s].done /\ row.status = scan[s].status
  <2>1. CASE Progress(s)
    BY <1>1, <2>1, RenewedRow DEF Progress
  <2>2. CASE ScanLeaseExpires(s)
    <3> DEFINE row == [scan[s] EXCEPT !.lease = "expired"]
    <3>1. row \in ScanRow /\ row.done = scan[s].done /\ row.status = scan[s].status
      BY <1>1 DEF ScanRow
    <3>2. SetScan(s, row)
      BY <2>2 DEF ScanLeaseExpires
    <3> HIDE DEF row
    <3> QED BY <3>1, <3>2
  <2> QED BY <2>1, <2>2
<1>3. /\ stask' = stask /\ active' = active /\ poll' = poll /\ revived' = revived
      /\ api' = api /\ restarts' = restarts
  BY DEF Progress, ScanLeaseExpires
<1>4. scan' \in [Scans -> ScanRow] /\ \A r \in Scans \ {s} : scan'[r] = scan[r]
  BY <1>1, <1>2, RowSet
<1>5. ScanTypeOK'
  BY <1>1, <1>3, <1>4 DEF ScanTypeOK
<1>6. ScanSound(s)'
  BY <1>2, <1>3, RowKeeps
<1>7. ASSUME NEW r \in Scans, r # s PROVE ScanSound(r)'
  BY <1>3, <1>4, <1>7, OthersKeep
<1> QED BY <1>5, <1>6, <1>7 DEF ScanInvariant

\* Who restarts the API forgets what it knew, no more.
LEMMA ApiTyped ==
  ASSUME ScanInvariant, ApiRestarts
  PROVE  ScanInvariant'
<1>1. /\ scan' = scan /\ stask' = stask /\ active' = active /\ poll' = poll /\ revived' = revived
      /\ restarts' \in 0 .. MaxRestarts /\ api' \in [Scans -> {"none", "running", "paused", "stopped"}]
  BY DEF ScanInvariant, ScanTypeOK, ApiRestarts, Restarting
<1>2. ScanTypeOK'
  BY <1>1 DEF ScanInvariant, ScanTypeOK
<1>3. ASSUME NEW s \in Scans PROVE ScanSound(s)'
  <2>1. ScanSound(s)
    BY DEF ScanInvariant
  <2> QED BY <1>1, <2>1 DEF ScanSound, StepsLeft, PlaceLeft, Followed, TaskAt, FreeIds
<1> QED BY <1>2, <1>3 DEF ScanInvariant

\* A worker that restarts has no task.
LEMMA WorkerTyped ==
  ASSUME ScanInvariant, WorkerRestarts
  PROVE  ScanInvariant'
<1>1. NoTask \in ScanTask /\ NoTask.pc = "none" /\ NoPoll \in Poll /\ NoPoll.scan = "none"
  BY DEF NoTask, ScanTask, TaskPc, NoPoll, Poll
<1>2. /\ scan' = scan /\ revived' = revived /\ api' = api /\ restarts' \in 0 .. MaxRestarts
      /\ stask' = [s \in Scans |-> [k \in TaskIds |-> NoTask]]
      /\ active' = [s \in Scans |-> 0] /\ poll' = NoPoll
  BY DEF ScanInvariant, ScanTypeOK, WorkerRestarts, Restarting
<1>3. ScanTypeOK'
  BY <1>1, <1>2 DEF ScanInvariant, ScanTypeOK
<1>4. ASSUME NEW s \in Scans PROVE ScanSound(s)'
  <2>1. poll'.scan # s /\ \A k \in TaskIds : stask'[s][k].pc = "none"
    BY <1>1, <1>2
  <2> QED BY <2>1 DEF ScanSound, StepsLeft, PlaceLeft, Followed, Follows, TaskAt, Busy, Working
<1> QED BY <1>3, <1>4 DEF ScanInvariant

-----------------------------------------------------------------------------
\* The poll claims a live scan that is in active_tasks no longer: no task of it is at work.
LEMMA ClaimTyped ==
  ASSUME ScanInvariant, NEW s \in Scans, ClaimScan(s)
  PROVE  ScanInvariant'
<1>1. ScanTypeOK /\ scan[s] \in ScanRow /\ ScanSound(s)
  BY DEF ScanInvariant, ScanTypeOK
<1> DEFINE row == [scan[s] EXCEPT !.lease = "live"]
<1>2. row \in ScanRow /\ row.done = scan[s].done /\ row.status = scan[s].status /\ SetScan(s, row)
  BY <1>1 DEF ScanRow, ClaimScan
<1> HIDE DEF row
<1>3. scan' \in [Scans -> ScanRow] /\ scan'[s] = row /\ \A r \in Scans \ {s} : scan'[r] = scan[r]
  BY <1>1, <1>2, RowSet
<1>4. poll' \in Poll /\ poll'.scan = s /\ ~poll'.read
  <2>1. poll' = [NoPoll EXCEPT !.scan = s]
    BY DEF ClaimScan
  <2>2. poll' = [scan |-> s, read |-> FALSE, wasPending |-> FALSE, wasRunning |-> FALSE]
    BY ONLY <2>1 DEF NoPoll
  <2> QED BY <2>2 DEF Poll
<1>5. /\ stask' = stask /\ active' = active /\ revived' = revived /\ api' = api
      /\ restarts' = restarts /\ poll = NoPoll /\ active[s] = 0 /\ FreeIds(s) # {} /\ Live(s)
  BY DEF ClaimScan, Unknown, Eligible
<1>6. ScanTypeOK'
  BY <1>1, <1>3, <1>4, <1>5 DEF ScanTypeOK
<1>7. ScanSound(s)'
  <2>1. StepsLeft(s)' /\ PlaceLeft(s)'
    BY <1>1, <1>5 DEF ScanSound, StepsLeft, PlaceLeft, TaskAt, FreeIds
  <2>2. ASSUME ~revived[s] PROVE Followed(s)'
    <3>1. Followed(s) /\ scan[s].status \notin EndedScan
      BY <1>1, <1>5, <2>2 DEF ScanSound, Live, ActiveScan, EndedScan
    <3> QED BY <1>2, <1>3, <1>4, <1>5, <3>1 DEF Followed, Follows
  <2> QED BY <1>5, <2>1, <2>2 DEF ScanSound
<1>8. ASSUME NEW r \in Scans, r # s PROVE ScanSound(r)'
  <2>1. poll.scan # r /\ poll'.scan # r
    BY <1>4, <1>5, <1>8 DEF NoPoll
  <2> QED BY <1>3, <1>5, <1>8, <2>1, OthersKeep
<1> QED BY <1>6, <1>7, <1>8 DEF ScanInvariant

\* The new task takes the steps that have no checkpoint, and is the only one at work.
LEMMA LaunchTyped ==
  ASSUME ScanInvariant, NEW s \in Scans, Launch(s)
  PROVE  ScanInvariant' /\ \A r \in Scans, j \in TaskIds :
                               stask'[r][j].pc \in {stask[r][j].pc, "begin"}
<1>1. ScanTypeOK /\ ScanSound(s) /\ poll.scan = s /\ ~poll.read
  BY DEF ScanInvariant, Launch
<1> DEFINE k == Min(FreeIds(s))
           t == [pc |-> "begin", left |-> Remaining(scan[s])]
<1>2. k \in TaskIds /\ stask[s][k].pc = "none"
  <2>1. FreeIds(s) # {} /\ FreeIds(s) \in SUBSET Nat
    BY <1>1 DEF ScanSound, PlaceLeft, FreeIds, TaskIds
  <2>2. k \in FreeIds(s)
    BY <2>1, LeastNumber
  <2> QED BY <2>2 DEF FreeIds
<1>3. SetTask(s, k, t) /\ active' = [active EXCEPT ![s] = k]
  BY DEF Launch, SetTask
<1>4. poll' \in Poll /\ poll'.scan = s /\ poll'.read
  BY DEF Launch, Poll
<1>5. t \in ScanTask /\ t.pc = "begin" /\ t.left \cap scan[s].done = {}
  BY <1>1 DEF ScanTask, TaskPc, Working, Remaining
<1> HIDE DEF k, t
<1>6. /\ stask' \in [Scans -> [TaskIds -> ScanTask]] /\ stask'[s][k] = t
      /\ \A j \in TaskIds \ {k} : stask'[s][j] = stask[s][j]
      /\ \A r \in Scans \ {s} : stask'[r] = stask[r]
  BY <1>1, <1>2, <1>3, <1>5, TaskSet
<1>7. /\ active' \in [Scans -> {0} \cup TaskIds] /\ active'[s] = k
      /\ \A r \in Scans \ {s} : active'[r] = active[r]
  BY <1>1, <1>2, <1>3 DEF ScanTypeOK
<1>8. scan' = scan /\ revived' = revived /\ api' = api /\ restarts' = restarts
  BY DEF Launch
<1>9. ScanTypeOK'
  BY <1>1, <1>4, <1>6, <1>7, <1>8 DEF ScanTypeOK
<1>10. ScanSound(s)'
  <2>1. StepsLeft(s)' /\ PlaceLeft(s)'
    BY <1>1, <1>4, <1>5, <1>6 DEF ScanSound, StepsLeft, PlaceLeft, TaskAt
  <2>2. ASSUME ~revived[s] PROVE Followed(s)'
    <3>1. Followed(s)
      BY <1>1, <2>2 DEF ScanSound
    <3>2. active[s] = 0 /\ \A j \in TaskIds : stask[s][j].pc \notin Busy \cup {"tidied"}
      BY <1>1, <3>1 DEF Followed, Follows, TaskIds, Busy
    <3> QED BY <1>2, <1>4, <1>5, <1>6, <1>7, <1>8, <3>2 DEF Followed, Follows, Busy, Working
  <2> QED BY <1>8, <2>1, <2>2 DEF ScanSound
<1>11. ASSUME NEW r \in Scans, r # s PROVE ScanSound(r)'
  BY <1>1, <1>4, <1>6, <1>7, <1>8, <1>11, OthersKeep
<1>12. ScanInvariant'
  BY <1>9, <1>10, <1>11 DEF ScanInvariant
<1> QED BY <1>5, <1>6, <1>12

\* The poll writes its row before the task that it created has run.
LEMMA LaunchWritesTyped ==
  ASSUME ScanInvariant, NEW s \in Scans, LaunchWrites(s)
  PROVE  ScanInvariant'
<1>1. ScanTypeOK /\ scan[s] \in ScanRow /\ ScanSound(s) /\ poll.scan = s /\ poll.read
  BY DEF ScanInvariant, ScanTypeOK, LaunchWrites
<1> DEFINE row == [scan[s] EXCEPT !.status = IF poll.wasPending THEN "running" ELSE @,
                                !.control = IF poll.wasRunning THEN @ ELSE "running",
                                !.shown = FALSE]
<1>2. row \in ScanRow /\ row.done = scan[s].done /\ SetScan(s, row)
  BY <1>1 DEF ScanRow, LaunchWrites, ActiveScan, Controls
<1> HIDE DEF row
<1>3. scan' \in [Scans -> ScanRow] /\ scan'[s] = row /\ \A r \in Scans \ {s} : scan'[r] = scan[r]
  BY <1>1, <1>2, RowSet
<1>4. poll' \in Poll /\ poll'.scan = "none"
  BY DEF LaunchWrites, NoPoll, Poll
<1>5. stask' = stask /\ active' = active /\ revived' = revived /\ api' = api /\ restarts' = restarts
  BY DEF LaunchWrites
<1>6. ScanTypeOK'
  BY <1>1, <1>3, <1>4, <1>5 DEF ScanTypeOK
<1>7. ScanSound(s)'
  <2>1. StepsLeft(s)' /\ PlaceLeft(s)'
    BY <1>1, <1>4, <1>5 DEF ScanSound, StepsLeft, PlaceLeft, TaskAt
  <2>2. ASSUME ~revived[s] PROVE Followed(s)'
    <3>1. Followed(s)
      BY <1>1, <2>2 DEF ScanSound
    <3>2. \A j \in TaskIds : stask[s][j].pc \notin {"tidying", "tidied"}
      BY <1>1, <3>1 DEF Followed, Follows, Busy
    <3> QED BY <1>2, <1>3, <1>4, <1>5, <3>1, <3>2 DEF Followed, Follows
  <2> QED BY <1>5, <2>1, <2>2 DEF ScanSound
<1>8. ASSUME NEW r \in Scans, r # s PROVE ScanSound(r)'
  BY <1>1, <1>3, <1>4, <1>5, <1>8, OthersKeep
<1> QED BY <1>6, <1>7, <1>8 DEF ScanInvariant

-----------------------------------------------------------------------------
FollowsOn(s, k, t, row, a) ==
  \A tasks \in [TaskIds -> ScanTask] :
    tasks[k] = t /\ (\A j \in TaskIds \ {k} : tasks[j] = stask[s][j])
    => Follows(poll.scan = s, poll.read, row, tasks, a)

\* One task moves, and with it the row of its scan and its entry in active_tasks.
LEMMA TaskMoves ==
  ASSUME ScanInvariant, NEW s \in Scans, NEW k \in TaskIds, NEW t \in ScanTask, SetTask(s, k, t),
         NEW row \in ScanRow, SetScan(s, row) \/ (scan' = scan /\ row = scan[s]),
         NEW a, (Pop(s) /\ a = 0) \/ (active' = active /\ a = active[s]),
         poll' = poll, revived' = revived, api' = api, restarts' = restarts,
         stask[s][k].pc # "none", t.pc = "step" => t.left # {},
         ~revived[s] /\ Followed(s) => FollowsOn(s, k, t, row, a)
  PROVE  ScanInvariant' /\ \A r \in Scans, j \in TaskIds :
                               stask'[r][j] = IF r = s /\ j = k THEN t ELSE stask[r][j]
<1>1. ScanTypeOK /\ ScanSound(s)
  BY DEF ScanInvariant
<1>2. /\ stask' \in [Scans -> [TaskIds -> ScanTask]]
      /\ stask'[s] \in [TaskIds -> ScanTask] /\ stask'[s][k] = t
      /\ \A j \in TaskIds \ {k} : stask'[s][j] = stask[s][j]
      /\ \A r \in Scans \ {s} : stask'[r] = stask[r]
  BY <1>1, TaskSet
<1>3. scan' \in [Scans -> ScanRow] /\ scan'[s] = row /\ \A r \in Scans \ {s} : scan'[r] = scan[r]
  BY <1>1, RowSet DEF ScanTypeOK
<1>4. /\ active' \in [Scans -> {0} \cup TaskIds] /\ active'[s] = a
      /\ \A r \in Scans \ {s} : active'[r] = active[r]
  BY <1>1, Popped DEF ScanTypeOK
<1>5. ScanTypeOK'
  BY <1>1, <1>2, <1>3, <1>4 DEF ScanTypeOK
<1>6. ScanSound(s)'
  <2>1. StepsLeft(s)'
    BY <1>1, <1>2 DEF ScanSound, StepsLeft, TaskAt
  <2>2. PlaceLeft(s)'
    BY <1>1, <1>2 DEF ScanSound, PlaceLeft, FreeIds
  <2>3. ASSUME ~revived[s] PROVE Followed(s)'
    <3>1. Followed(s)
      BY <1>1, <2>3 DEF ScanSound
    <3>2. Follows(poll.scan = s, poll.read, row, stask'[s], a)
      BY <1>2, <2>3, <3>1 DEF FollowsOn
    <3> QED BY <1>3, <1>4, <3>2 DEF Followed
  <2> QED BY <2>1, <2>2, <2>3 DEF ScanSound
<1>7. ASSUME NEW r \in Scans, r # s PROVE ScanSound(r)'
  BY <1>2, <1>3, <1>4, <1>7, OthersKeep
<1>8. ScanInvariant'
  BY <1>5, <1>6, <1>7 DEF ScanInvariant
<1> QED BY <1>2, <1>8

\* A task that goes on keeps its steps.
LEMMA MovedTask ==
  ASSUME ScanTypeOK, NEW s \in Scans, NEW k \in TaskIds, NEW pc \in TaskPc, Moves(s, k, pc)
  PROVE  \E t \in ScanTask : SetTask(s, k, t) /\ t.pc = pc /\ t.left = stask[s][k].left
<1>1. stask[s][k] \in ScanTask
  BY ScanTyped
<1> QED BY <1>1 DEF Moves, ScanTask

\* A free place for a task.
LEMMA NoTaskTyped == NoTask \in ScanTask /\ NoTask.pc = "none"
BY DEF NoTask, ScanTask, TaskPc

\* The actions of a task, one by one.
Stays(s, k) ==
  ScanInvariant' /\ \A r \in Scans, j \in TaskIds : r # s \/ j # k => stask'[r][j] = stask[r][j]

\* The first write of a task.
LEMMA BeginTyped ==
  ASSUME ScanInvariant, NEW s \in Scans, NEW k \in TaskIds, BeginScan(s, k)
  PROVE  Stays(s, k) /\ stask'[s][k].pc # "step"
<1>1. ScanTypeOK /\ scan[s] \in ScanRow
  BY DEF ScanInvariant, ScanTypeOK
<1>2. PICK t \in ScanTask : SetTask(s, k, t) /\ t.pc = "between" /\ t.left = stask[s][k].left
  BY <1>1, MovedTask DEF BeginScan, TaskPc, Working
<1> DEFINE row == [scan[s] EXCEPT !.status = "running", !.shown = FALSE,
                                !.control = IF @ = "queued" THEN "running" ELSE @,
                                !.lease = IF scan[s].control = "paused" THEN @ ELSE "live"]
<1>3. SetScan(s, row) /\ row \in ScanRow /\ row.done = scan[s].done /\ row.status = "running"
  BY <1>1 DEF BeginScan, ScanRow, ActiveScan, Controls
<1> HIDE DEF row
<1>4. /\ TaskAt(s, k, "begin") /\ poll.scan # s /\ active' = active /\ poll' = poll
      /\ revived' = revived /\ api' = api /\ restarts' = restarts
  BY DEF BeginScan
<1>5. ASSUME Followed(s) PROVE FollowsOn(s, k, t, row, active[s])
  BY <1>2, <1>3, <1>4, <1>5 DEF Followed, Follows, FollowsOn, TaskAt, Busy, Working, TaskIds
<1>6. stask[s][k].pc # "none"
  BY <1>4 DEF TaskAt
<1>7. ScanInvariant' /\ \A r \in Scans, j \in TaskIds :
                          stask'[r][j] = IF r = s /\ j = k THEN t ELSE stask[r][j]
  BY <1>2, <1>3, <1>4, <1>5, <1>6, TaskMoves
<1> QED BY <1>2, <1>7 DEF Stays

\* A task that finds its scan cancelled.
LEMMA CancelTyped ==
  ASSUME ScanInvariant, NEW s \in Scans, NEW k \in TaskIds, HearCancel(s, k)
  PROVE  Stays(s, k) /\ stask'[s][k].pc # "step"
<1>1. ScanTypeOK /\ ScanSound(s) /\ scan[s] \in ScanRow /\ stask[s][k] \in ScanTask
  BY ScanTyped DEF ScanInvariant
<1>2. PICK t \in ScanTask : SetTask(s, k, t) /\ t.pc = "cancelling" /\ t.left = stask[s][k].left
  BY <1>1, MovedTask DEF HearCancel, TaskPc, Working
<1>3. scan' = scan /\ scan[s] \in ScanRow
  BY <1>1 DEF HearCancel
<1>4. /\ TaskAt(s, k, "between") /\ Pop(s)
      /\ poll' = poll /\ revived' = revived /\ api' = api /\ restarts' = restarts
  BY DEF HearCancel
<1>5. ASSUME ~revived[s], Followed(s) PROVE FollowsOn(s, k, t, scan[s], 0)
  BY <1>1, <1>2, <1>3, <1>4, <1>5 DEF Followed, Follows, FollowsOn, TaskAt, Busy, Working, TaskIds
<1>6. stask[s][k].pc # "none"
  BY <1>4 DEF TaskAt
<1>7. ScanInvariant' /\ \A r \in Scans, j \in TaskIds :
                          stask'[r][j] = IF r = s /\ j = k THEN t ELSE stask[r][j]
  BY <1>1, <1>2, <1>3, <1>4, <1>5, <1>6, TaskMoves
<1> QED BY <1>2, <1>7 DEF Stays

\* A step is started, of those that are left.
LEMMA StartTyped ==
  ASSUME ScanInvariant, NEW s \in Scans, NEW k \in TaskIds, StartStep(s, k)
  PROVE  Stays(s, k) /\ stask[s][k].left # {}
<1>1. ScanTypeOK /\ ScanSound(s) /\ scan[s] \in ScanRow /\ stask[s][k] \in ScanTask
  BY ScanTyped DEF ScanInvariant
<1>2. PICK t \in ScanTask : SetTask(s, k, t) /\ t.pc = "step" /\ t.left = stask[s][k].left
  BY <1>1, MovedTask DEF StartStep, TaskPc, Working
<1>3. scan' = scan /\ scan[s] \in ScanRow
  BY <1>1 DEF StartStep
<1>4. /\ TaskAt(s, k, "between") /\ active' = active /\ stask[s][k].left # {}
      /\ poll' = poll /\ revived' = revived /\ api' = api /\ restarts' = restarts
  BY DEF StartStep
<1>5. ASSUME ~revived[s], Followed(s) PROVE FollowsOn(s, k, t, scan[s], active[s])
  BY <1>1, <1>2, <1>3, <1>4, <1>5 DEF Followed, Follows, FollowsOn, TaskAt, Busy, Working, TaskIds
<1>6. stask[s][k].pc # "none"
  BY <1>4 DEF TaskAt
<1>7. ScanInvariant' /\ \A r \in Scans, j \in TaskIds :
                          stask'[r][j] = IF r = s /\ j = k THEN t ELSE stask[r][j]
  BY <1>1, <1>2, <1>3, <1>4, <1>5, <1>6, TaskMoves
<1> QED BY <1>2, <1>4, <1>7 DEF Stays

\* No step is left.
LEMMA FinishTyped ==
  ASSUME ScanInvariant, NEW s \in Scans, NEW k \in TaskIds, FinishPlan(s, k)
  PROVE  Stays(s, k) /\ stask'[s][k].pc # "step"
<1>1. ScanTypeOK /\ ScanSound(s) /\ scan[s] \in ScanRow /\ stask[s][k] \in ScanTask
  BY ScanTyped DEF ScanInvariant
<1>2. PICK t \in ScanTask : SetTask(s, k, t) /\ t.pc = "ending" /\ t.left = stask[s][k].left
  BY <1>1, MovedTask DEF FinishPlan, TaskPc, Working
<1>3. scan' = scan /\ scan[s] \in ScanRow
  BY <1>1 DEF FinishPlan
<1>4. /\ TaskAt(s, k, "between") /\ active' = active
      /\ poll' = poll /\ revived' = revived /\ api' = api /\ restarts' = restarts
  BY DEF FinishPlan
<1>5. ASSUME ~revived[s], Followed(s) PROVE FollowsOn(s, k, t, scan[s], active[s])
  BY <1>1, <1>2, <1>3, <1>4, <1>5 DEF Followed, Follows, FollowsOn, TaskAt, Busy, Working, TaskIds
<1>6. stask[s][k].pc # "none"
  BY <1>4 DEF TaskAt
<1>7. ScanInvariant' /\ \A r \in Scans, j \in TaskIds :
                          stask'[r][j] = IF r = s /\ j = k THEN t ELSE stask[r][j]
  BY <1>1, <1>2, <1>3, <1>4, <1>5, <1>6, TaskMoves
<1> QED BY <1>2, <1>7 DEF Stays

\* The scan is completed, and its task still in active_tasks.
LEMMA CompleteTyped ==
  ASSUME ScanInvariant, NEW s \in Scans, NEW k \in TaskIds, Complete(s, k)
  PROVE  Stays(s, k) /\ stask'[s][k].pc # "step"
<1>1. ScanTypeOK /\ ScanSound(s) /\ scan[s] \in ScanRow /\ stask[s][k] \in ScanTask
  BY ScanTyped DEF ScanInvariant
<1>2. PICK t \in ScanTask : SetTask(s, k, t) /\ t.pc = "tidying" /\ t.left = stask[s][k].left
  BY <1>1, MovedTask DEF Complete, TaskPc, Working
<1> DEFINE row == Ended(scan[s], "completed")
<1>3. SetScan(s, row) /\ row \in ScanRow /\ row.done = scan[s].done /\ row.status \in EndedScan
  BY <1>1, EndedRow DEF Complete, EndedScan
<1> HIDE DEF row
<1>4. /\ TaskAt(s, k, "ending") /\ active' = active
      /\ poll' = poll /\ revived' = revived /\ api' = api /\ restarts' = restarts
  BY DEF Complete
<1>5. ASSUME ~revived[s], Followed(s) PROVE FollowsOn(s, k, t, row, active[s])
  BY <1>1, <1>2, <1>3, <1>4, <1>5 DEF Followed, Follows, FollowsOn, TaskAt, Busy, Working, TaskIds
<1>6. stask[s][k].pc # "none"
  BY <1>4 DEF TaskAt
<1>7. ScanInvariant' /\ \A r \in Scans, j \in TaskIds :
                          stask'[r][j] = IF r = s /\ j = k THEN t ELSE stask[r][j]
  BY <1>1, <1>2, <1>3, <1>4, <1>5, <1>6, TaskMoves
<1> QED BY <1>2, <1>7 DEF Stays

\* The task leaves active_tasks.
LEMMA TidyTyped ==
  ASSUME ScanInvariant, NEW s \in Scans, NEW k \in TaskIds, TaskAt(s, k, "tidying"), Tidy(s, k)
  PROVE  Stays(s, k) /\ stask'[s][k].pc # "step"
<1>1. ScanTypeOK /\ ScanSound(s) /\ scan[s] \in ScanRow /\ stask[s][k] \in ScanTask
  BY ScanTyped DEF ScanInvariant
<1>2. PICK t \in ScanTask : SetTask(s, k, t) /\ t.pc = "tidied" /\ t.left = stask[s][k].left
  BY <1>1, MovedTask DEF Tidy, TaskAt, TaskPc, Working
<1>3. scan' = scan /\ scan[s] \in ScanRow
  BY <1>1 DEF Tidy
<1>4. /\ TaskAt(s, k, "tidying") /\ Pop(s)
      /\ poll' = poll /\ revived' = revived /\ api' = api /\ restarts' = restarts
  BY DEF Tidy, TaskAt
<1>5. ASSUME ~revived[s], Followed(s) PROVE FollowsOn(s, k, t, scan[s], 0)
  BY <1>1, <1>2, <1>3, <1>4, <1>5 DEF Followed, Follows, FollowsOn, TaskAt, Busy, Working, TaskIds
<1>6. stask[s][k].pc # "none"
  BY <1>4 DEF TaskAt
<1>7. ScanInvariant' /\ \A r \in Scans, j \in TaskIds :
                          stask'[r][j] = IF r = s /\ j = k THEN t ELSE stask[r][j]
  BY <1>1, <1>2, <1>3, <1>4, <1>5, <1>6, TaskMoves
<1> QED BY <1>2, <1>7 DEF Stays

\* The task ends.
LEMMA TidiedTyped ==
  ASSUME ScanInvariant, NEW s \in Scans, NEW k \in TaskIds, TaskAt(s, k, "tidied"), Tidy(s, k)
  PROVE  Stays(s, k) /\ stask'[s][k].pc # "step"
<1>1. ScanTypeOK /\ ScanSound(s) /\ scan[s] \in ScanRow /\ stask[s][k] \in ScanTask
  BY ScanTyped DEF ScanInvariant
<1>2. PICK t \in ScanTask : SetTask(s, k, t) /\ t.pc = "none"
  BY NoTaskTyped DEF Tidy, TaskAt
<1>3. scan' = scan /\ scan[s] \in ScanRow
  BY <1>1 DEF Tidy
<1>4. /\ TaskAt(s, k, "tidied") /\ active' = active
      /\ poll' = poll /\ revived' = revived /\ api' = api /\ restarts' = restarts
  BY DEF Tidy, TaskAt
<1>5. ASSUME ~revived[s], Followed(s) PROVE FollowsOn(s, k, t, scan[s], active[s])
  BY <1>1, <1>2, <1>3, <1>4, <1>5 DEF Followed, Follows, FollowsOn, TaskAt, Busy, Working, TaskIds
<1>6. stask[s][k].pc # "none"
  BY <1>4 DEF TaskAt
<1>7. ScanInvariant' /\ \A r \in Scans, j \in TaskIds :
                          stask'[r][j] = IF r = s /\ j = k THEN t ELSE stask[r][j]
  BY <1>1, <1>2, <1>3, <1>4, <1>5, <1>6, TaskMoves
<1> QED BY <1>2, <1>7 DEF Stays

\* An exception before the first step or after the last: the entry it removes is its own.
LEMMA RaiseTyped ==
  ASSUME ScanInvariant, NEW s \in Scans, NEW k \in TaskIds, Raise(s, k)
  PROVE  Stays(s, k) /\ stask'[s][k].pc # "step"
<1>1. ScanTypeOK /\ ScanSound(s) /\ scan[s] \in ScanRow /\ stask[s][k] \in ScanTask
  BY ScanTyped DEF ScanInvariant
<1>2. PICK t \in ScanTask : SetTask(s, k, t) /\ t.pc = "failing" /\ t.left = stask[s][k].left
  BY <1>1, MovedTask DEF Raise, TaskPc, Working
<1>3. scan' = scan /\ scan[s] \in ScanRow
  BY <1>1 DEF Raise
<1>4. /\ stask[s][k].pc \in {"ending", "tidying", "tidied"} \/ (TaskAt(s, k, "begin") /\ poll.scan # s)
      /\ Pop(s)
      /\ poll' = poll /\ revived' = revived /\ api' = api /\ restarts' = restarts
  BY DEF Raise
<1>5. ASSUME ~revived[s], Followed(s) PROVE FollowsOn(s, k, t, scan[s], 0)
  BY <1>1, <1>2, <1>3, <1>4, <1>5 DEF Followed, Follows, FollowsOn, TaskAt, Busy, Working, TaskIds
<1>6. stask[s][k].pc # "none"
  BY <1>4 DEF TaskAt
<1>7. ScanInvariant' /\ \A r \in Scans, j \in TaskIds :
                          stask'[r][j] = IF r = s /\ j = k THEN t ELSE stask[r][j]
  BY <1>1, <1>2, <1>3, <1>4, <1>5, <1>6, TaskMoves
<1> QED BY <1>2, <1>7 DEF Stays

\* The verdict of an exception ends the scan.
LEMMA VerdictTyped ==
  ASSUME ScanInvariant, NEW s \in Scans, NEW k \in TaskIds, WriteVerdict(s, k)
  PROVE  Stays(s, k) /\ stask'[s][k].pc # "step"
<1>1. ScanTypeOK /\ ScanSound(s) /\ scan[s] \in ScanRow /\ stask[s][k] \in ScanTask
  BY ScanTyped DEF ScanInvariant
<1>2. PICK t \in ScanTask : SetTask(s, k, t) /\ t.pc = "none"
  BY NoTaskTyped DEF WriteVerdict
<1> DEFINE row == Ended(scan[s], IF TaskAt(s, k, "failing") THEN "failed" ELSE "cancelled")
<1>3. SetScan(s, row) /\ row \in ScanRow /\ row.done = scan[s].done /\ row.status \in EndedScan
  BY <1>1, EndedRow DEF WriteVerdict, EndedScan
<1> HIDE DEF row
<1>4. /\ TaskAt(s, k, "failing") \/ TaskAt(s, k, "cancelling")
      /\ active' = active
      /\ poll' = poll /\ revived' = revived /\ api' = api /\ restarts' = restarts
  BY DEF WriteVerdict
<1>5. ASSUME ~revived[s], Followed(s) PROVE FollowsOn(s, k, t, row, active[s])
  BY <1>1, <1>2, <1>3, <1>4, <1>5 DEF Followed, Follows, FollowsOn, TaskAt, Busy, Working, TaskIds
<1>6. stask[s][k].pc # "none"
  BY <1>4 DEF TaskAt
<1>7. ScanInvariant' /\ \A r \in Scans, j \in TaskIds :
                          stask'[r][j] = IF r = s /\ j = k THEN t ELSE stask[r][j]
  BY <1>1, <1>2, <1>3, <1>4, <1>5, <1>6, TaskMoves
<1> QED BY <1>2, <1>7 DEF Stays

\* A step ends, with or without a checkpoint, and is left no longer.
LEMMA EndTyped ==
  ASSUME ScanInvariant, NEW s \in Scans, NEW k \in TaskIds, EndStep(s, k)
  PROVE  Stays(s, k) /\ stask'[s][k].pc # "step"
<1>1. ScanTypeOK /\ ScanSound(s) /\ scan[s] \in ScanRow /\ stask[s][k] \in ScanTask
  BY ScanTyped DEF ScanInvariant
<1> DEFINE p == Min(stask[s][k].left)
<1>2. p \in stask[s][k].left /\ stask[s][k].left \subseteq Plan
  <2>1. stask[s][k].left # {} /\ stask[s][k].left \subseteq Plan
    BY <1>1 DEF EndStep, ScanSound, StepsLeft, ScanTask
  <2>2. stask[s][k].left \in SUBSET Nat
    BY <2>1 DEF Plan
  <2> QED BY <2>1, <2>2, LeastNumber
<1>3. PICK t \in ScanTask : SetTask(s, k, t) /\ t.pc = "between" /\ t.left = stask[s][k].left \ {p}
  BY <1>2, <1>1 DEF EndStep, ScanTask, TaskPc, Working
<1>4. PICK row \in ScanRow :
        SetScan(s, row) /\ row.status = scan[s].status /\ row.done \subseteq scan[s].done \cup {p}
  <2>1. PICK success \in BOOLEAN :
          SetScan(s, IF Live(s)
                      THEN [Renewed(scan[s]) EXCEPT !.done = IF success THEN @ \cup {p} ELSE @ \ {p}]
                      ELSE scan[s])
    BY DEF EndStep
  <2> DEFINE done == IF success THEN scan[s].done \cup {p} ELSE scan[s].done \ {p}
  <2>2. done \in SUBSET Plan /\ done \subseteq scan[s].done \cup {p}
    BY <1>2, <1>1 DEF ScanRow
  <2>3. Live(s) => SetScan(s, [Renewed(scan[s]) EXCEPT !.done = done])
    BY <1>1, <2>1, RenewedRow
  <2> HIDE DEF done
  <2>4. CASE Live(s)
    <3> DEFINE new == [Renewed(scan[s]) EXCEPT !.done = done]
    <3>1. new \in ScanRow /\ new.done = done /\ new.status = scan[s].status
      BY <1>1, <2>2, RenewedRow
    <3> HIDE DEF new
    <3>2. SetScan(s, new)
      BY <2>3, <2>4 DEF new
    <3> QED BY <2>2, <3>1, <3>2
  <2>5. CASE ~Live(s)
    BY <1>1, <2>1, <2>5
  <2> QED BY <2>4, <2>5
<1> HIDE DEF p
<1>5. /\ TaskAt(s, k, "step") /\ active' = active
      /\ poll' = poll /\ revived' = revived /\ api' = api /\ restarts' = restarts
  BY DEF EndStep
<1>6. ASSUME ~revived[s], Followed(s) PROVE FollowsOn(s, k, t, row, active[s])
  BY <1>1, <1>3, <1>4, <1>5, <1>6 DEF Followed, Follows, FollowsOn, TaskAt, Busy, Working, TaskIds
<1>7. stask[s][k].pc # "none"
  BY <1>5 DEF TaskAt
<1>8. ScanInvariant' /\ \A r \in Scans, j \in TaskIds :
                          stask'[r][j] = IF r = s /\ j = k THEN t ELSE stask[r][j]
  BY <1>1, <1>3, <1>4, <1>5, <1>6, <1>7, TaskMoves
<1> QED BY <1>3, <1>8 DEF Stays

-----------------------------------------------------------------------------
\* No scan, no task.
LEMMA ScanInvariantInit == ScanInit => ScanInvariant
<1> SUFFICES ASSUME ScanInit PROVE ScanInvariant
  OBVIOUS
<1>1. NoScan \in ScanRow /\ NoTask \in ScanTask /\ NoPoll \in Poll /\ NoPoll.scan = "none" /\ NoTask.pc = "none"
  BY DEF NoScan, ScanRow, Controls, NoTask, ScanTask, TaskPc, NoPoll, Poll
<1>2. ScanTypeOK
  BY <1>1 DEF ScanInit, ScanTypeOK
<1>3. ASSUME NEW s \in Scans PROVE ScanSound(s)
  <2>1. poll.scan # s /\ \A k \in TaskIds : stask[s][k].pc = "none"
    BY <1>1 DEF ScanInit
  <2> QED BY <2>1 DEF ScanSound, StepsLeft, PlaceLeft, Followed, Follows, TaskAt, Busy, Working
<1> QED BY <1>2, <1>3 DEF ScanInvariant

\* What starts a step is StartStep, of a task that has steps left.
LEMMA TaskSteps ==
  ASSUME ScanInvariant, NEW s \in Scans, NEW k \in TaskIds, TaskProgress(s, k) \/ Raise(s, k)
  PROVE  Stays(s, k) /\ (stask'[s][k].pc = "step" => stask[s][k].left # {})
BY BeginTyped, CancelTyped, StartTyped, EndTyped, FinishTyped, CompleteTyped, TidyTyped, TidiedTyped,
   RaiseTyped, VerdictTyped DEF TaskProgress, Tidy

\* Every step keeps the invariant, and a step that is started was left.
LEMMA ScanStep ==
  ASSUME ScanInvariant, [ScanNext]_scanVars
  PROVE  /\ ScanInvariant'
         /\ \A s \in Scans, k \in TaskIds :
              stask[s][k].pc # "step" /\ stask'[s][k].pc = "step" => stask[s][k].left # {}
<1>1. CASE ScanRequest
  <2>1. ScanInvariant'
    BY <1>1, RequestTyped DEF ScanRequest
  <2>2. stask' = stask
    BY <1>1 DEF ScanRequest, Submit, Pause, Resume, StopScan
  <2> QED BY <2>1, <2>2
<1>2. CASE ApiRestarts
  <2>1. stask' = stask
    BY <1>2 DEF ApiRestarts
  <2> QED BY <1>2, <2>1, ApiTyped
<1>3. CASE PollProgress
  <2>1. ASSUME NEW s \in Scans, ClaimScan(s) \/ LaunchWrites(s)
        PROVE  ScanInvariant' /\ stask' = stask
    <3>1. stask' = stask
      BY <2>1 DEF ClaimScan, LaunchWrites
    <3> QED BY <2>1, <3>1, ClaimTyped, LaunchWritesTyped
  <2>2. ASSUME NEW s \in Scans, Launch(s)
        PROVE  /\ ScanInvariant'
               /\ \A r \in Scans, j \in TaskIds : stask'[r][j].pc \in {stask[r][j].pc, "begin"}
    BY <2>2, LaunchTyped
  <2> QED BY <1>3, <2>1, <2>2 DEF PollProgress
<1>4. CASE WorkerRestarts
  <2>1. \A s \in Scans, k \in TaskIds : stask'[s][k].pc = "none"
    BY <1>4 DEF WorkerRestarts, NoTask
  <2> QED BY <1>4, <2>1, WorkerTyped
<1>5. ASSUME NEW r \in Scans, Progress(r) \/ ScanLeaseExpires(r)
      PROVE  ScanInvariant' /\ stask' = stask
  <2>1. stask' = stask
    BY <1>5 DEF Progress, ScanLeaseExpires
  <2> QED BY <1>5, <2>1, RowTyped
<1>6. ASSUME NEW r \in Scans, NEW j \in TaskIds, TaskProgress(r, j) \/ Raise(r, j)
      PROVE  /\ ScanInvariant'
             /\ \A s \in Scans, k \in TaskIds :
                  stask[s][k].pc # "step" /\ stask'[s][k].pc = "step" => stask[s][k].left # {}
  BY <1>6, TaskSteps DEF Stays
<1>7. CASE UNCHANGED scanVars
  <2>1. stask' = stask
    BY <1>7 DEF scanVars
  <2>2. ScanInvariant'
    BY <1>7 DEF scanVars, ScanInvariant, ScanTypeOK, ScanSound, StepsLeft, PlaceLeft, Followed,
                TaskAt, FreeIds
  <2> QED BY <2>1, <2>2
<1> QED BY <1>1, <1>2, <1>3, <1>4, <1>5, <1>6, <1>7 DEF ScanNext

\* Every variable has its type, and a task's steps that are left have no checkpoint.
THEOREM ScansInvariant == ScanSpec => []ScanInvariant
<1>1. ScanInvariant /\ [ScanNext]_scanVars => ScanInvariant'
  BY ScanStep
<1> QED BY <1>1, ScanInvariantInit, PTL DEF ScanSpec

\* A step that is left has no checkpoint.
LEMMA NoRerunStep == ScanInvariant /\ [ScanNext]_scanVars => [NoRerun]_scanVars
<1> SUFFICES ASSUME ScanInvariant, [ScanNext]_scanVars, NEW s \in Scans, NEW k \in TaskIds,
                    ~revived[s], TaskAt(s, k, "between"), stask'[s][k].pc = "step"
             PROVE  Min(stask[s][k].left) \notin scan[s].done
  BY DEF NoRerun
<1>1. stask[s][k].left # {}
  BY ScanStep DEF TaskAt
<1>2. stask[s][k].left \in SUBSET Nat
  BY DEF ScanInvariant, ScanTypeOK, ScanTask, Plan
<1>3. Min(stask[s][k].left) \in stask[s][k].left
  BY <1>1, <1>2, LeastNumber
<1>4. stask[s][k].left \cap scan[s].done = {}
  BY DEF ScanInvariant, ScanSound, Followed, Follows, TaskAt, Working
<1> QED BY <1>3, <1>4

\* A step with a successful checkpoint is not executed again.
THEOREM CheckpointsAreKept == ScanSpec => StepsOnce
<1> QED BY ScansInvariant, NoRerunStep, PTL DEF ScanSpec, StepsOnce

-----------------------------------------------------------------------------
(* The findings: what an execution knows when it writes.                     *)

FoundStatus == {"open", "fixed"}

\* What a reliable tool did not report was not there, or out of its range.
Looked(e, gone) ==
  \A u \in Parts(e.cap) :
    e.verdicts[u].status = "success" /\ ~e.verdicts[u].risk => u \in gone \/ ~e.wide
\* The evidence that Justifies asks for.
Closable(e, p, gone) ==
  IF p[2] = "risk" THEN p[1] \in Parts(e.cap) /\ (p[1] \in gone \/ ~e.wide)
  ELSE p[1] = e.cap /\ Statuses(e) \subseteq {"success", "skipped"}
ExecutionSound(e, gone) ==
  /\ \A row \in e.items : row[1][1] = e.cap
  /\ e.stage # "synced" => e.fixes = {}
  /\ e.stage \in {"measured", "synced"} \/ (e.stage = "verdict" /\ ~e.raised) => Looked(e, gone)
  /\ \A row \in e.fixes : Closable(e, row[1], gone)
\* What an execution is about to write reports all it has seen.
Knows(e, rows) ==
  \A p \in SeenPrints(e) :
    /\ rows[p] = <<>> => p \in e.inserts
    /\ \A i \in DOMAIN rows[p] : /\ rows[p][i] = "fixed" => <<p, i>> \in e.opens
                                 /\ <<p, i>> \notin e.fixes
Informed(x) ==
  InStage(x, "synced") /\ ~disturbed[x] /\ ~exec[x].raised
  => Knows(exec[x], found[ScopeOf(exec[x].kind)])
FindInvariant ==
  FindTypeOK /\ \A x \in Executions : ExecutionSound(exec[x], absent[x]) /\ Informed(x)

-----------------------------------------------------------------------------
\* The rows of a fingerprint that an execution writes: each is fixed, opened or kept, and
\* one may be added.
LEMMA WrittenFacts ==
  ASSUME NEW rows \in Seq(FoundStatus), NEW e, NEW p
  PROVE  /\ Written(rows, e, p) \in Seq(FoundStatus)
         /\ \A i \in DOMAIN rows :
              /\ i \in DOMAIN Written(rows, e, p)
              /\ Written(rows, e, p)[i] = IF <<p, i>> \in e.fixes THEN "fixed"
                                         ELSE IF <<p, i>> \in e.opens THEN "open" ELSE rows[i]
         /\ p \in e.inserts => /\ Len(rows) + 1 \in DOMAIN Written(rows, e, p)
                               /\ Written(rows, e, p)[Len(rows) + 1] = "open"
<1> DEFINE old == [i \in DOMAIN rows |-> IF <<p, i>> \in e.fixes THEN "fixed"
                         ELSE IF <<p, i>> \in e.opens THEN "open" ELSE rows[i]]
           new == IF p \in e.inserts THEN <<"open">> ELSE <<>>
<1>1. old \in Seq(FoundStatus) /\ Len(old) = Len(rows) /\ DOMAIN old = DOMAIN rows
  <2>1. DOMAIN rows = 1 .. Len(rows) /\ Len(rows) \in Nat
    OBVIOUS
  <2>2. \A i \in 1 .. Len(rows) : old[i] \in FoundStatus
    <3>1. "fixed" \in FoundStatus /\ "open" \in FoundStatus
      BY DEF FoundStatus
    <3> QED BY <2>1, <3>1
  <2>3. old = [i \in 1 .. Len(rows) |-> old[i]]
    BY <2>1
  <2> QED BY <2>1, <2>2, <2>3
<1>2. new \in Seq(FoundStatus) /\ (p \in e.inserts => Len(new) = 1 /\ new[1] = "open")
  <2>1. CASE p \in e.inserts
    <3>1. new = <<"open">>
      BY <2>1
    <3>2. <<"open">> \in Seq(FoundStatus)
      BY ONLY "open" \in {"open", "fixed"} DEF FoundStatus
    <3> HIDE DEF new
    <3> QED BY <3>1, <3>2
  <2>2. CASE p \notin e.inserts
    <3>1. new = <<>>
      BY <2>2
    <3> QED BY ONLY <2>2, <3>1
  <2> QED BY <2>1, <2>2
<1>3. \A i \in DOMAIN rows : old[i] = IF <<p, i>> \in e.fixes THEN "fixed"
                                         ELSE IF <<p, i>> \in e.opens THEN "open" ELSE rows[i]
  OBVIOUS
<1>4. Written(rows, e, p) = old \o new
  BY DEF Written
<1> HIDE DEF old, new
<1>5. old \o new \in Seq(FoundStatus)
  BY <1>1, <1>2
<1>6. ASSUME NEW i \in DOMAIN rows
      PROVE  i \in DOMAIN (old \o new) /\ (old \o new)[i] = old[i]
  BY <1>1, <1>2
<1>7. ASSUME p \in e.inserts
      PROVE  Len(rows) + 1 \in DOMAIN (old \o new) /\ (old \o new)[Len(rows) + 1] = "open"
  BY <1>1, <1>2, <1>7
<1> QED BY <1>3, <1>4, <1>5, <1>6, <1>7

\* No execution, no row.
LEMMA FindTypedInit == FindInit => FindInvariant
<1> SUFFICES ASSUME FindInit PROVE FindInvariant
  OBVIOUS
<1>1. NoExecution \in Execution
  BY DEF NoExecution, Execution, Capabilities, Tools, Verdict, ExecutionKinds
<1>2. \A x \in Executions : ExecutionSound(exec[x], absent[x]) /\ Informed(x)
  BY DEF FindInit, NoExecution, ExecutionSound, Informed, InStage
<1>3. FindTypeOK
  BY <1>1 DEF FindInit, FindTypeOK
<1> QED BY <1>2, <1>3 DEF FindInvariant

\* An execution whose row does not change keeps what is known of it.
LEMMA Undisturbed ==
  ASSUME FindTypeOK, FindTypeOK', NEW x \in Executions,
         ExecutionSound(exec[x], absent[x]), Informed(x),
         exec'[x] = exec[x], absent'[x] = absent[x],
         \/ found' = found /\ disturbed'[x] = disturbed[x]
         \/ InStage(x, "synced") => disturbed'[x]
  PROVE  ExecutionSound(exec'[x], absent'[x]) /\ Informed(x)'
<1>1. ExecutionSound(exec'[x], absent'[x])
  OBVIOUS
<1>2. Informed(x)'
  BY DEF Informed, InStage
<1> QED BY <1>1, <1>2

\* The records of the executions, one by one.
LEMMA BegunExecution ==
  ASSUME NEW kind \in ExecutionKinds, NEW c \in Capabilities, NEW wide \in BOOLEAN,
         NEW items \in SUBSET Rows, \A row \in items : row[1][1] = c, NEW e, NEW gone,
         e = [NoExecution EXCEPT !.stage = "executing", !.kind = kind, !.cap = c, !.wide = wide,
                                 !.items = items]
  PROVE  e \in Execution /\ ExecutionSound(e, gone) /\ e.stage = "executing"
<1>1. e = [stage |-> "executing", kind |-> kind, cap |-> c, wide |-> wide,
           verdicts |-> [u \in Tools |-> [status |-> "skipped", risk |-> FALSE]],
           inserts |-> {}, opens |-> {}, fixes |-> {}, raised |-> FALSE, items |-> items]
  BY DEF NoExecution
<1>2. [u \in Tools |-> [status |-> "skipped", risk |-> FALSE]] \in [Tools -> Verdict]
  BY DEF Verdict
<1> DEFINE none == [u \in Tools |-> [status |-> "skipped", risk |-> FALSE]]
<1>3. e = [stage |-> "executing", kind |-> kind, cap |-> c, wide |-> wide, verdicts |-> none,
           inserts |-> {}, opens |-> {}, fixes |-> {}, raised |-> FALSE, items |-> items]
  BY ONLY <1>1
<1>4. none \in [Tools -> Verdict]
  BY <1>2
<1> HIDE DEF none
<1>5. e \in Execution
  BY ONLY <1>3, <1>4, kind \in ExecutionKinds, c \in Capabilities, wide \in BOOLEAN,
          items \in SUBSET Rows DEF Execution
<1>6. e.stage = "executing" /\ e.items = items /\ e.fixes = {} /\ e.cap = c
  BY ONLY <1>3
<1> QED BY <1>5, <1>6 DEF ExecutionSound

\* A place that no execution uses.
LEMMA FreeExecution ==
  ASSUME NEW gone
  PROVE  /\ NoExecution \in Execution /\ ExecutionSound(NoExecution, gone)
         /\ NoExecution.stage = "idle"
BY DEF NoExecution, Execution, Capabilities, Tools, Verdict, ExecutionKinds, ExecutionSound

\* An execution begins: a retest with the open rows of its capability.
LEMMA BeginKeeps ==
  ASSUME FindInvariant, NEW x \in Executions, NEW kind \in ExecutionKinds, NEW c \in Capabilities,
         BeginExecution(x, kind, c)
  PROVE  FindInvariant'
<1>1. PICK wide \in BOOLEAN :
        SetExec(x, [NoExecution EXCEPT
                     !.stage = "executing", !.kind = kind, !.cap = c, !.wide = wide,
                     !.items = IF kind = "retest" THEN RetestItems(c) ELSE {}])
  BY DEF BeginExecution
<1> DEFINE items == IF kind = "retest" THEN RetestItems(c) ELSE {}
           e == [NoExecution EXCEPT !.stage = "executing", !.kind = kind, !.cap = c, !.wide = wide,
                                    !.items = items]
<1>2. items \in SUBSET Rows /\ \A row \in items : row[1][1] = c
  <2>1. \A row \in RetestItems(c) : row \in Rows /\ row[1][1] = c
    BY DEF FindInvariant, FindTypeOK, RetestItems, CopiesWith, Copies, Rows, Scopes
  <2> QED BY <2>1
<1> HIDE DEF items
<1>3. e \in Execution /\ ExecutionSound(e, absent[x]) /\ e.stage = "executing"
  BY <1>2, BegunExecution
<1>4. exec' = [exec EXCEPT ![x] = e]
  BY <1>1 DEF SetExec, items
<1> HIDE DEF e
<1>5. FindTypeOK'
  BY <1>3, <1>4 DEF FindInvariant, FindTypeOK, BeginExecution
<1>6. ASSUME NEW y \in Executions
      PROVE  ExecutionSound(exec'[y], absent'[y]) /\ Informed(y)'
  <2>1. CASE y = x
    <3>1. exec'[x] = e /\ absent' = absent
      BY <1>4 DEF FindInvariant, FindTypeOK, BeginExecution
    <3> QED BY <1>3, <2>1, <3>1 DEF Informed, InStage
  <2>2. CASE y # x
    <3>1. exec'[y] = exec[y] /\ absent' = absent /\ found' = found /\ disturbed' = disturbed
      BY <1>4, <2>2 DEF FindInvariant, FindTypeOK, BeginExecution
    <3> QED BY <1>5, <2>2, <3>1, Undisturbed DEF FindInvariant
  <2> QED BY <2>1, <2>2
<1> QED BY <1>5, <1>6 DEF FindInvariant

-----------------------------------------------------------------------------
\* The tools ended, and what a reliable one did not report was not in its reach.
LEMMA MeasuredExecution ==
  ASSUME NEW e \in Execution, NEW verdicts \in [Tools -> Verdict], NEW old, NEW gone,
         ExecutionSound(e, old), e.stage = "executing", NEW m,
         m = [e EXCEPT !.stage = "measured", !.verdicts = verdicts],
         \A u \in Parts(e.cap) :
           verdicts[u].status = "success" /\ ~verdicts[u].risk => u \in gone \/ ~e.wide
  PROVE  m \in Execution /\ ExecutionSound(m, gone) /\ m.stage = "measured"
<1>1. /\ m \in Execution /\ m.stage = "measured" /\ m.cap = e.cap /\ m.wide = e.wide
      /\ m.items = e.items /\ m.fixes = e.fixes /\ m.verdicts = verdicts
  BY DEF Execution
<1>2. Looked(m, gone)
  BY <1>1 DEF Looked
<1>3. m.fixes = {}
  BY <1>1 DEF ExecutionSound
<1> QED BY <1>1, <1>2, <1>3 DEF ExecutionSound

\* The verdicts and the truth of the moment are taken in one step.
LEMMA MeasureKeeps ==
  ASSUME FindInvariant, NEW x \in Executions, Measure(x)
  PROVE  FindInvariant'
<1> DEFINE e == exec[x]
           gone == {u \in Tools : ~present[u]}
<1>1. PICK v \in [Parts(e.cap) -> Verdict] :
        /\ \A u \in Parts(e.cap) : v[u] \in VerdictsOf(x, u)
        /\ SetExec(x, [e EXCEPT !.stage = "measured",
                        !.verdicts = [u \in Tools |-> IF u \in Parts(e.cap) THEN v[u] ELSE @[u]]])
  BY DEF Measure
<1> DEFINE verdicts == [u \in Tools |-> IF u \in Parts(e.cap) THEN v[u] ELSE e.verdicts[u]]
           m == [e EXCEPT !.stage = "measured", !.verdicts = verdicts]
<1>2. e \in Execution /\ Parts(e.cap) \subseteq Tools
  <2>1. e \in Execution
    BY DEF FindInvariant, FindTypeOK
  <2> QED BY <2>1 DEF Execution, Parts, Capabilities
<1>3. verdicts \in [Tools -> Verdict]
  BY <1>1, <1>2 DEF Execution
<1>4. ASSUME NEW u \in Parts(e.cap), verdicts[u].status = "success", ~verdicts[u].risk
      PROVE  u \in gone \/ ~e.wide
  <2>1. verdicts[u] \in VerdictsOf(x, u) /\ u \in Tools
    BY <1>1, <1>2
  <2>2. verdicts[u].risk = Sees(x, u)
    BY <1>4, <2>1 DEF VerdictsOf
  <2> QED BY <1>4, <2>1, <2>2 DEF Sees
<1>5. exec' = [exec EXCEPT ![x] = m]
  BY <1>1, <1>2 DEF SetExec, Execution
<1>6. m \in Execution /\ ExecutionSound(m, gone) /\ m.stage = "measured"
  <2>1. ExecutionSound(e, absent[x]) /\ e.stage = "executing"
    BY DEF FindInvariant, Measure, InStage
  <2> HIDE DEF e, verdicts, gone
  <2> QED BY <1>2, <1>3, <1>4, <2>1, MeasuredExecution
<1> HIDE DEF m, gone
<1>7. absent' = [absent EXCEPT ![x] = gone] /\ gone \in SUBSET Tools
  BY DEF Measure, gone
<1>8. FindTypeOK'
  BY <1>5, <1>6, <1>7 DEF FindInvariant, FindTypeOK, Measure
<1>9. ASSUME NEW y \in Executions
      PROVE  ExecutionSound(exec'[y], absent'[y]) /\ Informed(y)'
  <2>1. CASE y = x
    <3>1. exec'[x] = m /\ absent'[x] = gone
      BY <1>5, <1>7 DEF FindInvariant, FindTypeOK
    <3> QED BY <1>6, <2>1, <3>1 DEF Informed, InStage
  <2>2. CASE y # x
    <3>1. exec'[y] = exec[y] /\ absent'[y] = absent[y] /\ found' = found /\ disturbed' = disturbed
      BY <1>5, <1>7, <2>2 DEF FindInvariant, FindTypeOK, Measure
    <3> QED BY <1>8, <2>2, <3>1, Undisturbed DEF FindInvariant
  <2> QED BY <2>1, <2>2
<1> QED BY <1>8, <1>9 DEF FindInvariant

\* What a reliable tool does not report, and what was done after all, may be closed.
LEMMA FixesJustified ==
  ASSUME FindTypeOK, NEW e \in Execution, NEW gone, Looked(e, gone), NEW row \in Fixes(e)
  PROVE  row \in Rows /\ Closable(e, row[1], gone)
<1>1. CASE e.kind = "independent"
  <2>1. PICK u \in Reliable(e) :
          ~e.verdicts[u].risk /\ row \in CopiesWith("independent", <<u, "risk">>, "open")
    BY <1>1 DEF Fixes
  <2>2. u \in Parts(e.cap) /\ e.verdicts[u].status = "success" /\ u \in Tools
    BY <2>1 DEF Reliable, Parts, Execution, Capabilities
  <2>3. row[1] = <<u, "risk">> /\ row \in Rows
    BY <2>1, <2>2 DEF CopiesWith, Copies, Rows, Prints, FindTypeOK, Scopes
  <2> QED BY <2>1, <2>2, <2>3 DEF Closable, Looked
<1>2. CASE e.kind # "independent"
  <2>1. Unable(e) = {} /\ row \in CopiesWith("assessment", <<e.cap, "unable">>, "open")
    BY <1>2 DEF Fixes, Recovers
  <2>2. row[1] = <<e.cap, "unable">> /\ row \in Rows
    BY <2>1 DEF CopiesWith, Copies, Rows, Prints, FindTypeOK, Scopes, Execution
  <2>3. ASSUME NEW u \in Parts(e.cap)
        PROVE  e.verdicts[u].status \in {"success", "skipped"}
    <3>1. u \in Tools
      BY DEF Parts, Execution, Capabilities
    <3>2. e.verdicts[u].status \in {"success", "warning", "skipped", "failed"}
      BY <3>1 DEF Execution, Verdict
    <3>3. u \notin NotExecuted(e)
      BY <2>1 DEF Unable
    <3> QED BY <3>2, <3>3 DEF NotExecuted
  <2>4. Statuses(e) \subseteq {"success", "skipped"}
    BY <2>3 DEF Statuses
  <2> QED BY <2>2, <2>4 DEF Closable
<1> QED BY <1>1, <1>2

\* A sync that raises nothing writes all that was seen.
LEMMA SyncKnows ==
  ASSUME FindTypeOK, NEW e \in Execution, NEW scope, scope = ScopeOf(e.kind), NEW s,
         s.inserts = ToInsert(e), s.opens = ToOpen(e), s.fixes = Fixes(e),
         s.cap = e.cap, s.kind = e.kind, s.verdicts = e.verdicts
  PROVE  Knows(s, found[scope])
<1>1. SeenPrints(s) = SeenPrints(e)
  BY DEF SeenPrints
<1>2. ASSUME NEW p \in SeenPrints(e)
      PROVE  p \in Items(e) /\ \A row \in Fixes(e) : row[1] # p
  <2>1. CASE \E u \in Parts(e.cap) : p = <<u, "risk">> /\ e.verdicts[u].risk
    <3>1. PICK u \in Parts(e.cap) : p = <<u, "risk">> /\ e.verdicts[u].risk
      BY <2>1
    <3>2. p \in Items(e)
      BY <3>1 DEF Items, Risks
    <3>3. ASSUME NEW row \in Fixes(e) PROVE row[1] # p
      <4>1. CASE e.kind = "independent"
        <5>1. PICK v \in Reliable(e) :
                ~e.verdicts[v].risk /\ row \in CopiesWith("independent", <<v, "risk">>, "open")
          BY <4>1 DEF Fixes
        <5>2. row[1] = <<v, "risk">>
          BY <5>1 DEF CopiesWith, Copies
        <5> QED BY <3>1, <5>1, <5>2
      <4>2. CASE e.kind # "independent"
        <5>1. row[1] = <<e.cap, "unable">>
          BY <4>2 DEF Fixes, CopiesWith, Copies
        <5> QED BY <3>1, <5>1
      <4> QED BY <4>1, <4>2
    <3> QED BY <3>2, <3>3
  <2>2. CASE \E u \in Parts(e.cap) : /\ p = <<u, "unable">> /\ e.kind # "independent"
                                     /\ e.verdicts[u].status \in {"warning", "failed"}
    <3>1. PICK u \in Parts(e.cap) : /\ p = <<u, "unable">> /\ e.kind # "independent"
                                    /\ e.verdicts[u].status \in {"warning", "failed"}
      BY <2>2
    <3>2. p \in Unable(e)
      BY <3>1 DEF Unable, NotExecuted
    <3>3. p \in Items(e)
      BY <3>1, <3>2 DEF Items
    <3>4. Fixes(e) = {}
      BY <3>1, <3>2 DEF Fixes, Recovers
    <3> QED BY <3>3, <3>4
  <2> QED BY <2>1, <2>2 DEF SeenPrints
<1>3. ASSUME NEW p \in SeenPrints(e)
      PROVE  /\ found[scope][p] = <<>> => p \in s.inserts
             /\ \A i \in DOMAIN found[scope][p] :
                  /\ found[scope][p][i] = "fixed" => <<p, i>> \in s.opens
                  /\ <<p, i>> \notin s.fixes
  <2>1. found[scope][p] = <<>> => p \in s.inserts
    BY <1>2 DEF ToInsert
  <2>2. ASSUME NEW i \in DOMAIN found[scope][p], found[scope][p][i] = "fixed"
        PROVE  <<p, i>> \in s.opens
    BY <1>2, <2>2 DEF ToOpen, CopiesWith, Copies, StatusOf
  <2>3. ASSUME NEW i \in DOMAIN found[scope][p] PROVE <<p, i>> \notin s.fixes
    BY <1>2
  <2> QED BY <2>1, <2>2, <2>3
<1> QED BY <1>1, <1>3 DEF Knows

\* What an execution reports is a fingerprint, in one of the two scopes.
LEMMA ItemsTyped ==
  ASSUME FindTypeOK, NEW e \in Execution
  PROVE  Items(e) \subseteq Prints /\ ScopeOf(e.kind) \in Scopes
<1>1. e.cap \in Capabilities /\ Parts(e.cap) \subseteq Tools
  BY DEF Execution, Parts, Capabilities
<1>2. Risks(e) \subseteq Prints
  BY <1>1 DEF Risks, Prints
<1>3. Unable(e) \subseteq Prints
  BY <1>1 DEF Unable, NotExecuted, Prints, Capabilities
<1> QED BY <1>2, <1>3 DEF Items, ScopeOf, Scopes

\* What a sync opens and inserts.
LEMMA ToOpenTyped ==
  ASSUME FindTypeOK, NEW e \in Execution
  PROVE  ToOpen(e) \subseteq Rows /\ ToInsert(e) \subseteq Prints
<1>1. Items(e) \subseteq Prints /\ ScopeOf(e.kind) \in Scopes
  BY ItemsTyped
<1>2. ASSUME NEW row \in ToOpen(e) PROVE row \in Rows
  <2>1. PICK p \in Items(e) : row \in CopiesWith(ScopeOf(e.kind), p, "fixed")
    BY DEF ToOpen
  <2>2. found[ScopeOf(e.kind)][p] \in Seq({"open", "fixed"})
    BY <1>1 DEF FindTypeOK
  <2> QED BY <1>1, <2>1, <2>2 DEF CopiesWith, Copies, Rows
<1> QED BY <1>1, <1>2 DEF ToInsert

\* What a sync leaves of its execution, whether it raised or not.
LEMMA SyncedExecution ==
  ASSUME NEW e, NEW gone, ExecutionSound(e, gone), e.stage = "measured", NEW s,
         s.stage = "synced", s.cap = e.cap, s.wide = e.wide, s.verdicts = e.verdicts,
         s.items = e.items, \A row \in s.fixes : Closable(e, row[1], gone)
  PROVE  ExecutionSound(s, gone)
<1>1. Looked(s, gone)
  BY DEF ExecutionSound, Looked
<1>2. \A row \in s.fixes : Closable(s, row[1], gone)
  BY DEF Closable, Statuses
<1> QED BY <1>1, <1>2 DEF ExecutionSound

\* A sync reads the rows, and knows them until somebody writes.
LEMMA SyncKeeps ==
  ASSUME FindInvariant, NEW x \in Executions, Sync(x)
  PROVE  FindInvariant'
<1> DEFINE e == exec[x]
<1>1. /\ FindTypeOK /\ e \in Execution /\ ExecutionSound(e, absent[x]) /\ e.stage = "measured"
      /\ e.fixes = {} /\ Looked(e, absent[x]) /\ e.raised \in BOOLEAN
  BY DEF FindInvariant, FindTypeOK, ExecutionSound, Sync, InStage, Execution
<1>2. ToOpen(e) \subseteq Rows /\ ToInsert(e) \subseteq Prints
  BY <1>1, ToOpenTyped
<1>3. Fixes(e) \subseteq Rows /\ \A row \in Fixes(e) : Closable(e, row[1], absent[x])
  BY <1>1, FixesJustified
<1>4. PICK s \in Execution :
        /\ exec' = [exec EXCEPT ![x] = s] /\ ExecutionSound(s, absent[x])
        /\ s.raised \/ Knows(s, found[ScopeOf(s.kind)])
  <2>1. CASE /\ ~Raises(e)
             /\ SetExec(x, [e EXCEPT !.stage = "synced",
                             !.inserts = ToInsert(e), !.opens = ToOpen(e), !.fixes = Fixes(e)])
    <3> DEFINE s == [e EXCEPT !.stage = "synced", !.inserts = ToInsert(e), !.opens = ToOpen(e),
                              !.fixes = Fixes(e), !.raised = e.raised]
    <3>1. exec' = [exec EXCEPT ![x] = s]
      BY <1>1, <2>1 DEF SetExec, Execution
    <3>2. /\ s \in Execution /\ ExecutionSound(s, absent[x])
          /\ s.inserts = ToInsert(e) /\ s.opens = ToOpen(e) /\ s.fixes = Fixes(e)
          /\ s.cap = e.cap /\ s.kind = e.kind /\ s.verdicts = e.verdicts
      <4>1. /\ s \in Execution /\ s.stage = "synced" /\ s.wide = e.wide /\ s.items = e.items
            /\ s.inserts = ToInsert(e) /\ s.opens = ToOpen(e) /\ s.fixes = Fixes(e)
            /\ s.cap = e.cap /\ s.kind = e.kind /\ s.verdicts = e.verdicts
        BY <1>1, <1>2, <1>3 DEF Execution
      <4> HIDE DEF e, s
      <4> QED BY <1>1, <1>3, <4>1, SyncedExecution
    <3> HIDE DEF s
    <3>3. Knows(s, found[ScopeOf(s.kind)])
      BY <1>1, <3>2, SyncKnows
    <3> QED BY <3>1, <3>2, <3>3
  <2>2. CASE /\ Raises(e)
             /\ \E inserts \in SUBSET ToInsert(e), opens \in SUBSET ToOpen(e) :
                  SetExec(x, [e EXCEPT !.stage = "synced", !.raised = TRUE,
                                       !.inserts = inserts, !.opens = opens])
    <3>1. PICK inserts \in SUBSET ToInsert(e), opens \in SUBSET ToOpen(e) :
            SetExec(x, [e EXCEPT !.stage = "synced", !.raised = TRUE,
                                 !.inserts = inserts, !.opens = opens])
      BY <2>2
    <3> DEFINE s == [e EXCEPT !.stage = "synced", !.inserts = inserts, !.opens = opens,
                              !.fixes = {}, !.raised = TRUE]
    <3>2. exec' = [exec EXCEPT ![x] = s]
      BY <1>1, <3>1 DEF SetExec, Execution
    <3>3. s \in Execution /\ ExecutionSound(s, absent[x]) /\ s.raised
      <4>1. /\ s \in Execution /\ s.stage = "synced" /\ s.wide = e.wide /\ s.items = e.items
            /\ s.fixes = {} /\ s.cap = e.cap /\ s.verdicts = e.verdicts /\ s.raised
        BY <1>1, <1>2 DEF Execution
      <4> HIDE DEF e, s
      <4> QED BY <1>1, <4>1, SyncedExecution
    <3> HIDE DEF s
    <3> QED BY <3>2, <3>3
  <2> QED BY <2>1, <2>2 DEF Sync
<1>5. absent' = absent /\ found' = found /\ disturbed' = [disturbed EXCEPT ![x] = FALSE]
  BY DEF Sync
<1>6. FindTypeOK'
  BY <1>1, <1>4, <1>5 DEF FindTypeOK, Sync
<1>7. ASSUME NEW y \in Executions
      PROVE  ExecutionSound(exec'[y], absent'[y]) /\ Informed(y)'
  <2>1. CASE y = x
    <3>1. exec'[x] = s
      BY <1>1, <1>4 DEF FindTypeOK
    <3> QED BY <1>4, <1>5, <2>1, <3>1 DEF Informed, InStage
  <2>2. CASE y # x
    <3>1. exec'[y] = exec[y] /\ disturbed'[y] = disturbed[y]
      BY <1>1, <1>4, <1>5, <2>2 DEF FindTypeOK
    <3> QED BY <1>5, <1>6, <2>2, <3>1, Undisturbed DEF FindInvariant
  <2> QED BY <2>1, <2>2
<1> QED BY <1>6, <1>7 DEF FindInvariant

-----------------------------------------------------------------------------
\* Whoever writes rows keeps the others' executions, and what they know or forget.
LEMMA WriteKeeps ==
  ASSUME FindInvariant, FindTypeOK', NEW x, Disturbs(x),
         \A y \in Executions \ {x} : exec'[y] = exec[y] /\ absent'[y] = absent[y],
         x \in Executions => ExecutionSound(exec'[x], absent'[x]) /\ exec'[x].stage # "synced"
  PROVE  FindInvariant'
<1>1. ASSUME NEW y \in Executions
      PROVE  ExecutionSound(exec'[y], absent'[y]) /\ Informed(y)'
  <2>1. CASE y = x
    BY <2>1 DEF Informed, InStage
  <2>2. CASE y # x
    <3>1. InStage(y, "synced") => disturbed'[y]
      BY <2>2 DEF Disturbs
    <3> QED BY <2>2, <3>1, Undisturbed DEF FindInvariant
  <2> QED BY <2>1, <2>2
<1> QED BY <1>1 DEF FindInvariant

\* Whoever writes disturbs executions only.
LEMMA DisturbedTyped ==
  ASSUME FindTypeOK, NEW x, Disturbs(x)
  PROVE  disturbed' \in [Executions -> BOOLEAN]
BY DEF FindTypeOK, Disturbs, InStage

\* The rows of one scope, written.
LEMMA CommitWrites ==
  ASSUME FindTypeOK, NEW x \in Executions, CommitExecution(x), NEW scope \in Scopes, NEW p \in Prints
  PROVE  found'[scope][p] = IF scope = ScopeOf(exec[x].kind) THEN Written(found[scope][p], exec[x], p)
                            ELSE found[scope][p]
BY DEF FindTypeOK, CommitExecution

\* A commit writes one scope and leaves the stage.
LEMMA CommitKeeps ==
  ASSUME FindInvariant, NEW x \in Executions, CommitExecution(x)
  PROVE  FindInvariant' /\ exec'[x].stage # "synced"
<1> DEFINE e == exec[x]
           scope == ScopeOf(e.kind)
<1>1. /\ FindTypeOK /\ e \in Execution /\ ExecutionSound(e, absent[x]) /\ e.stage = "synced"
      /\ scope \in Scopes
  BY ItemsTyped DEF FindInvariant, FindTypeOK, CommitExecution, InStage
<1>2. found' \in [Scopes -> [Prints -> Seq(FoundStatus)]]
  <2>1. ASSUME NEW p \in Prints
        PROVE  Written(found[scope][p], e, p) \in Seq(FoundStatus)
    <3>1. found[scope][p] \in Seq(FoundStatus)
      BY <1>1 DEF FindTypeOK, FoundStatus
    <3> QED BY <3>1, WrittenFacts
  <2> DEFINE rows == [p \in Prints |-> Written(found[scope][p], e, p)]
  <2>2. found' = [found EXCEPT ![scope] = rows]
    BY <1>1 DEF CommitExecution, FindTypeOK
  <2>3. rows \in [Prints -> Seq(FoundStatus)]
    BY <2>1
  <2> HIDE DEF rows
  <2> QED BY <1>1, <2>2, <2>3 DEF FindTypeOK, FoundStatus
<1>3. PICK s \in Execution, gone \in SUBSET Tools :
        /\ exec' = [exec EXCEPT ![x] = s] /\ absent' = [absent EXCEPT ![x] = gone]
        /\ ExecutionSound(s, gone) /\ s.stage # "synced"
  <2>1. CASE e.kind = "retest"
    <3> DEFINE s == [e EXCEPT !.stage = "verdict", !.inserts = {}, !.opens = {}, !.fixes = {}]
    <3>1. exec' = [exec EXCEPT ![x] = s] /\ absent' = absent
      BY <2>1 DEF CommitExecution, SetExec
    <3>2. /\ s \in Execution /\ s.stage = "verdict" /\ s.fixes = {} /\ s.items = e.items
          /\ s.cap = e.cap /\ s.verdicts = e.verdicts /\ s.wide = e.wide
      BY <1>1 DEF Execution
    <3>3. ExecutionSound(s, absent[x])
      BY <1>1, <3>2 DEF ExecutionSound, Looked
    <3> HIDE DEF s
    <3>4. absent' = [absent EXCEPT ![x] = absent[x]] /\ absent[x] \in SUBSET Tools
      BY <1>1, <3>1 DEF FindTypeOK
    <3> QED BY <3>1, <3>2, <3>3, <3>4
  <2>2. CASE e.kind # "retest"
    <3>1. exec' = [exec EXCEPT ![x] = NoExecution] /\ absent' = [absent EXCEPT ![x] = {}]
      BY <2>2 DEF CommitExecution, EndExec, SetExec
    <3>2. NoExecution \in Execution /\ ExecutionSound(NoExecution, {}) /\ NoExecution.stage = "idle"
      BY FreeExecution
    <3> QED BY <3>1, <3>2
  <2> QED BY <2>1, <2>2
<1>4. Disturbs(x) /\ disturbed' \in [Executions -> BOOLEAN]
  BY <1>1, DisturbedTyped DEF CommitExecution
<1>5. FindTypeOK'
  BY <1>1, <1>2, <1>3, <1>4 DEF FindTypeOK, FoundStatus, CommitExecution
<1>6. exec'[x] = s /\ absent'[x] = gone
  BY <1>1, <1>3 DEF FindTypeOK
<1>7. \A y \in Executions \ {x} : exec'[y] = exec[y] /\ absent'[y] = absent[y]
  BY <1>1, <1>3 DEF FindTypeOK
<1> QED BY <1>3, <1>4, <1>5, <1>6, <1>7, WriteKeeps

\* An execution that ends frees its place and no other.
LEMMA EndedExecution ==
  ASSUME FindTypeOK, NEW x \in Executions, EndExec(x)
  PROVE  /\ exec' \in [Executions -> Execution] /\ absent' \in [Executions -> SUBSET Tools]
         /\ ExecutionSound(exec'[x], absent'[x]) /\ exec'[x].stage = "idle"
         /\ \A y \in Executions \ {x} : exec'[y] = exec[y] /\ absent'[y] = absent[y]
<1>1. exec' = [exec EXCEPT ![x] = NoExecution] /\ absent' = [absent EXCEPT ![x] = {}]
  BY DEF EndExec, SetExec
<1>2. NoExecution \in Execution /\ ExecutionSound(NoExecution, {}) /\ NoExecution.stage = "idle"
  BY FreeExecution
<1>3. exec'[x] = NoExecution /\ absent'[x] = {}
  BY <1>1 DEF FindTypeOK
<1> QED BY <1>1, <1>2, <1>3 DEF FindTypeOK

\* The verdict of a retest writes the rows of its items.
LEMMA VerdictKeeps ==
  ASSUME FindInvariant, NEW x \in Executions, GiveVerdict(x)
  PROVE  FindInvariant' /\ exec'[x].stage # "verdict"
<1> DEFINE e == exec[x]
           rows == [p \in Prints |-> [i \in DOMAIN found["assessment"][p] |->
                      IF <<p, i>> \in ToClose(e) THEN "fixed"
                      ELSE IF <<p, i>> \in e.items THEN "open" ELSE found["assessment"][p][i]]]
<1>1. FindTypeOK /\ "assessment" \in Scopes
  BY DEF FindInvariant, Scopes
<1>2. found' = [found EXCEPT !["assessment"] = rows]
  BY <1>1 DEF GiveVerdict, FindTypeOK
<1>3. ASSUME NEW p \in Prints PROVE rows[p] \in Seq(FoundStatus)
  <2>1. found["assessment"][p] \in Seq(FoundStatus)
    BY <1>1 DEF FindTypeOK, FoundStatus
  <2>2. "open" \in FoundStatus /\ "fixed" \in FoundStatus
    BY DEF FoundStatus
  <2>3. \A i \in DOMAIN found["assessment"][p] : found["assessment"][p][i] \in FoundStatus
    BY <2>1
  <2>4. PICK n \in Nat : DOMAIN found["assessment"][p] = 1 .. n
    BY <2>1
  <2>5. rows[p] \in [1 .. n -> FoundStatus]
    BY <2>2, <2>3, <2>4
  <2> HIDE DEF rows
  <2> QED BY <2>4, <2>5
<1>4. rows \in [Prints -> Seq(FoundStatus)]
  BY <1>3
<1> HIDE DEF rows
<1>5. found' \in [Scopes -> [Prints -> Seq(FoundStatus)]]
  BY <1>1, <1>2, <1>4 DEF FindTypeOK, FoundStatus
<1>6. EndExec(x) /\ Disturbs(x) /\ disturbed' \in [Executions -> BOOLEAN]
  BY <1>1, DisturbedTyped DEF GiveVerdict
<1>7. /\ exec' \in [Executions -> Execution] /\ absent' \in [Executions -> SUBSET Tools]
      /\ ExecutionSound(exec'[x], absent'[x]) /\ exec'[x].stage = "idle"
      /\ \A y \in Executions \ {x} : exec'[y] = exec[y] /\ absent'[y] = absent[y]
  BY <1>1, <1>6, EndedExecution
<1>8. FindTypeOK'
  BY <1>1, <1>5, <1>6, <1>7 DEF FindTypeOK, FoundStatus, GiveVerdict
<1> QED BY <1>6, <1>7, <1>8, WriteKeeps

\* Who stops an execution writes no row; the verdict of a stopped retest says that it raised.
LEMMA StopKeeps ==
  ASSUME FindInvariant, NEW x \in Executions, ExecutionStops(x)
  PROVE  FindInvariant'
<1>1. FindTypeOK /\ found' = found /\ disturbed' = disturbed
  BY DEF FindInvariant, ExecutionStops
<1>2. /\ exec' \in [Executions -> Execution] /\ absent' \in [Executions -> SUBSET Tools]
      /\ ExecutionSound(exec'[x], absent'[x]) /\ exec'[x].stage # "synced"
      /\ \A y \in Executions \ {x} : exec'[y] = exec[y] /\ absent'[y] = absent[y]
  <2>1. CASE EndExec(x)
    BY <1>1, <2>1, EndedExecution
  <2>2. CASE /\ exec[x].kind = "retest" /\ InStage(x, "executing")
             /\ SetExec(x, [exec[x] EXCEPT !.stage = "verdict", !.raised = TRUE])
             /\ UNCHANGED absent
    <3> DEFINE s == [exec[x] EXCEPT !.stage = "verdict", !.raised = TRUE]
    <3>1. exec' = [exec EXCEPT ![x] = s] /\ absent' = absent
      BY <2>2 DEF SetExec
    <3>2. exec[x] \in Execution /\ ExecutionSound(exec[x], absent[x])
      BY DEF FindInvariant, FindTypeOK
    <3>3. /\ s \in Execution /\ s.stage = "verdict" /\ s.raised /\ s.fixes = exec[x].fixes
          /\ s.items = exec[x].items /\ s.cap = exec[x].cap
      BY <3>2 DEF Execution
    <3>4. ExecutionSound(s, absent[x])
      BY <2>2, <3>2, <3>3 DEF ExecutionSound, InStage
    <3> HIDE DEF s
    <3>5. exec'[x] = s
      BY <1>1, <3>1 DEF FindTypeOK
    <3> QED BY <1>1, <3>1, <3>3, <3>4, <3>5 DEF FindTypeOK
  <2> QED BY <2>1, <2>2 DEF ExecutionStops
<1>3. FindTypeOK'
  BY <1>1, <1>2 DEF FindTypeOK, ExecutionStops
<1>4. ASSUME NEW y \in Executions
      PROVE  ExecutionSound(exec'[y], absent'[y]) /\ Informed(y)'
  <2>1. CASE y = x
    BY <1>2, <2>1 DEF Informed, InStage
  <2>2. CASE y # x
    BY <1>1, <1>2, <1>3, <2>2, Undisturbed DEF FindInvariant
  <2> QED BY <2>1, <2>2
<1> QED BY <1>3, <1>4 DEF FindInvariant

\* What the users and the target do touches no execution.
LEMMA UserKeeps ==
  ASSUME FindInvariant, exec' = exec, absent' = absent, present' \in [Tools -> BOOLEAN],
         begins' = begins, promoted' \subseteq Rows,
         found' \in [Scopes -> [Prints -> Seq({"open", "fixed"})]],
         Disturbs("nobody") \/ (found' = found /\ disturbed' = disturbed)
  PROVE  FindInvariant'
<1>1. disturbed' \in [Executions -> BOOLEAN]
  BY DisturbedTyped DEF FindInvariant, FindTypeOK
<1>2. FindTypeOK'
  BY <1>1 DEF FindInvariant, FindTypeOK
<1>3. CASE Disturbs("nobody")
  BY <1>2, <1>3, WriteKeeps
<1>4. CASE found' = found /\ disturbed' = disturbed
  <2>1. ASSUME NEW y \in Executions
        PROVE  ExecutionSound(exec'[y], absent'[y]) /\ Informed(y)'
    BY <1>2, <1>4, Undisturbed DEF FindInvariant
  <2> QED BY <1>2, <2>1 DEF FindInvariant
<1> QED BY <1>3, <1>4

\* One list of rows, replaced by another.
LEMMA OneRowWritten ==
  ASSUME FindTypeOK, NEW scope \in Scopes, NEW p \in Prints, NEW rows \in Seq({"open", "fixed"}),
         found' = [found EXCEPT ![scope][p] = rows]
  PROVE  found' \in [Scopes -> [Prints -> Seq({"open", "fixed"})]]
BY DEF FindTypeOK

\* Users write rows and leave the executions alone.
LEMMA RequestKeeps ==
  ASSUME FindInvariant, FindRequest
  PROVE  FindInvariant' /\ \A x \in Executions : exec'[x] = exec[x]
<1>1. FindTypeOK
  BY DEF FindInvariant
<1>2. CASE \E p \in Prints : \E row \in Copies("independent", p) : Promote(row)
  <2>1. PICK p \in Prints : \E row \in Copies("independent", p) : Promote(row)
    BY <1>2
  <2>2. PICK i \in DOMAIN found["independent"][p] : Promote(<<p, i>>)
    BY <2>1 DEF Copies
  <2>3. "assessment" \in Scopes /\ "independent" \in Scopes
    BY DEF Scopes
  <2>4. found["independent"][p] \in Seq({"open", "fixed"}) /\ found["assessment"][p] \in Seq({"open", "fixed"})
    BY <1>1, <2>3 DEF FindTypeOK
  <2>5. <<p, i>> \in Rows
    BY <2>4 DEF Rows
  <2> DEFINE rows == Append(found["assessment"][p], "open")
  <2>6. rows \in Seq({"open", "fixed"})
    BY <2>4
  <2>7. found' = [found EXCEPT !["assessment"][p] = rows]
    <3>1. <<p, i>>[1] = p
      OBVIOUS
    <3>2. found' = [found EXCEPT !["assessment"][<<p, i>>[1]] =
                      Append(found["assessment"][<<p, i>>[1]], "open")]
      BY ONLY <2>2 DEF Promote
    <3> QED BY <3>1, <3>2
  <2> HIDE DEF rows
  <2>8. found' \in [Scopes -> [Prints -> Seq({"open", "fixed"})]]
    BY <1>1, <2>3, <2>6, <2>7, OneRowWritten
  <2>9. promoted' \subseteq Rows
    BY <1>1, <2>2, <2>5 DEF FindTypeOK, Promote
  <2>10. /\ exec' = exec /\ absent' = absent /\ begins' = begins /\ Disturbs("nobody")
        /\ present' \in [Tools -> BOOLEAN]
    BY <1>1, <2>2 DEF Promote, FindTypeOK
  <2> QED BY <2>8, <2>9, <2>10, UserKeeps
<1>3. CASE \E scope \in Scopes, p \in Prints : \E row \in Copies(scope, p) : ReopenFinding(scope, row)
  <2>1. PICK scope \in Scopes, p \in Prints : \E row \in Copies(scope, p) : ReopenFinding(scope, row)
    BY <1>3
  <2>2. PICK i \in DOMAIN found[scope][p] : ReopenFinding(scope, <<p, i>>)
    BY <2>1 DEF Copies
  <2>3. found[scope][p] \in Seq({"open", "fixed"})
    BY <1>1 DEF FindTypeOK
  <2> DEFINE rows == [found[scope][p] EXCEPT ![i] = "open"]
  <2>4. rows \in Seq({"open", "fixed"})
    BY <2>3
  <2>5. found' = [found EXCEPT ![scope][p] = rows]
    <3>1. <<p, i>>[1] = p /\ <<p, i>>[2] = i
      OBVIOUS
    <3>2. found' = [found EXCEPT ![scope][<<p, i>>[1]] =
                      [found[scope][<<p, i>>[1]] EXCEPT ![<<p, i>>[2]] = "open"]]
      BY ONLY <2>2 DEF ReopenFinding
    <3> QED BY <3>1, <3>2
  <2> HIDE DEF rows
  <2>6. found' \in [Scopes -> [Prints -> Seq({"open", "fixed"})]]
    BY <1>1, <2>4, <2>5, OneRowWritten
  <2>7. /\ exec' = exec /\ absent' = absent /\ begins' = begins /\ Disturbs("nobody")
        /\ present' \in [Tools -> BOOLEAN] /\ promoted' \subseteq Rows
    BY <1>1, <2>2 DEF ReopenFinding, FindTypeOK
  <2> QED BY <2>6, <2>7, UserKeeps
<1>4. CASE ResetFindings
  <2> DEFINE rows == [p \in Prints |-> [i \in DOMAIN found["assessment"][p] |-> "open"]]
  <2>1. "assessment" \in Scopes
    BY DEF Scopes
  <2>2. found' = [found EXCEPT !["assessment"] = rows]
    BY <1>1, <1>4, <2>1 DEF ResetFindings, FindTypeOK
  <2>3. ASSUME NEW p \in Prints PROVE rows[p] \in Seq({"open", "fixed"})
    <3>1. PICK n \in Nat : DOMAIN found["assessment"][p] = 1 .. n
      BY <1>1, <2>1 DEF FindTypeOK
    <3>2. rows[p] \in [1 .. n -> {"open", "fixed"}]
      BY <3>1
    <3> QED BY <3>2
  <2>4. rows \in [Prints -> Seq({"open", "fixed"})]
    BY <2>3
  <2> HIDE DEF rows
  <2>5. found' \in [Scopes -> [Prints -> Seq({"open", "fixed"})]]
    BY <1>1, <2>2, <2>4 DEF FindTypeOK
  <2>6. /\ exec' = exec /\ absent' = absent /\ begins' = begins /\ Disturbs("nobody")
        /\ present' \in [Tools -> BOOLEAN] /\ promoted' \subseteq Rows
    BY <1>1, <1>4 DEF ResetFindings, FindTypeOK
  <2> QED BY <2>5, <2>6, UserKeeps
<1> QED BY <1>2, <1>3, <1>4 DEF FindRequest

-----------------------------------------------------------------------------
\* Every step of the findings keeps the invariant.
LEMMA FindInvariantStep == FindInvariant /\ [FindNext]_findVars => FindInvariant'
<1> SUFFICES ASSUME FindInvariant, [FindNext]_findVars
             PROVE  FindInvariant'
  OBVIOUS
<1>1. ASSUME NEW u \in Tools, TargetChanges(u) PROVE FindInvariant'
  <2>1. present' \in [Tools -> BOOLEAN]
    BY <1>1 DEF TargetChanges, FindInvariant, FindTypeOK
  <2> QED BY <1>1, <2>1, UserKeeps DEF TargetChanges, FindInvariant, FindTypeOK
<1>2. CASE UNCHANGED findVars
  BY <1>2 DEF findVars, FindInvariant, FindTypeOK, Informed, InStage
<1> QED BY <1>1, <1>2, RequestKeeps, BeginKeeps, MeasureKeeps, SyncKeeps, CommitKeeps,
           VerdictKeeps, StopKeeps DEF FindNext

\* Every variable has its type, and an execution's record says what it did.
THEOREM FindingsInvariant == FindSpec => []FindInvariant
<1> QED BY FindTypedInit, FindInvariantStep, PTL DEF FindSpec

-----------------------------------------------------------------------------
\* Who leaves the rows as they are closes none of them; nor who only opens.
LEMMA CommitCloses ==
  ASSUME FindInvariant, NEW x \in Executions, CommitExecution(x), NEW scope \in Scopes,
         NEW p \in Prints, NEW i \in DOMAIN found[scope][p], found[scope][p][i] = "open",
         found'[scope][p][i] = "fixed"
  PROVE  Justifies(x, p)
<1> DEFINE e == exec[x]
<1>1. /\ FindTypeOK /\ e \in Execution /\ ExecutionSound(e, absent[x]) /\ e.stage = "synced"
  BY DEF FindInvariant, FindTypeOK, CommitExecution, InStage
<1>2. exec'[x].stage # e.stage
  BY <1>1, CommitKeeps
<1>3. found[scope][p] \in Seq(FoundStatus)
  BY <1>1 DEF FindTypeOK, FoundStatus
<1>4. scope = ScopeOf(e.kind) /\ found'[scope][p] = Written(found[scope][p], e, p)
  BY <1>1, CommitWrites
<1>5. <<p, i>> \in e.fixes
  BY <1>3, <1>4, WrittenFacts
<1>6. Closable(e, p, absent[x])
  BY <1>1, <1>5 DEF ExecutionSound
<1> QED BY <1>1, <1>2, <1>6 DEF Justifies, Closable

\* What a complete execution did not report was not there, or was done.
LEMMA CompletedJustifies ==
  ASSUME NEW e \in Execution, NEW gone, ExecutionSound(e, gone), e.stage = "verdict",
         NEW row \in ToClose(e), row[1] \in Prints
  PROVE  Closable(e, row[1], gone)
<1>1. row[1][1] = e.cap /\ Completed(e) /\ row[1] \notin Risks(e)
  BY DEF ToClose, ExecutionSound
<1>2. Looked(e, gone) /\ (Statuses(e) = {"success"} \/ (e.cap \notin Tools /\ Statuses(e) = {"skipped"}))
  BY <1>1 DEF Completed, HasIssue, ExecutionSound
<1>3. CASE row[1][2] = "risk"
  <2>1. row[1] = <<e.cap, "risk">> /\ e.cap \in Tools
    BY <1>1, <1>3 DEF Prints
  <2>2. e.cap \in Parts(e.cap)
    BY <2>1 DEF Parts
  <2>3. e.verdicts[e.cap].status = "success"
    BY <1>2, <2>1, <2>2 DEF Statuses
  <2>4. e.verdicts[e.cap] \in Verdict
    BY <2>1 DEF Execution
  <2>5. ~e.verdicts[e.cap].risk
    BY <1>1, <2>1, <2>2 DEF Risks
  <2> QED BY <1>2, <1>3, <2>1, <2>2, <2>3, <2>5 DEF Closable, Looked
<1>4. CASE row[1][2] # "risk"
  BY <1>1, <1>2, <1>4 DEF Closable
<1> QED BY <1>3, <1>4

\* The verdict of a retest closes only what Justifies allows.
LEMMA VerdictCloses ==
  ASSUME FindInvariant, NEW x \in Executions, GiveVerdict(x), NEW scope \in Scopes,
         NEW p \in Prints, NEW i \in DOMAIN found[scope][p], found[scope][p][i] = "open",
         found'[scope][p][i] = "fixed"
  PROVE  Justifies(x, p)
<1> DEFINE e == exec[x]
<1>1. /\ FindTypeOK /\ e \in Execution /\ ExecutionSound(e, absent[x]) /\ e.stage = "verdict"
  BY DEF FindInvariant, FindTypeOK, GiveVerdict, InStage
<1>2. exec'[x].stage # e.stage
  BY <1>1, VerdictKeeps
<1>3. scope = "assessment" /\ <<p, i>> \in ToClose(e)
  <2>1. found' = [found EXCEPT !["assessment"] = [q \in Prints |-> [j \in DOMAIN found["assessment"][q] |->
                      IF <<q, j>> \in ToClose(e) THEN "fixed"
                      ELSE IF <<q, j>> \in e.items THEN "open" ELSE found["assessment"][q][j]]]]
    BY <1>1 DEF GiveVerdict, FindTypeOK, Scopes
  <2>2. found'["assessment"][p] = [j \in DOMAIN found["assessment"][p] |->
                      IF <<p, j>> \in ToClose(e) THEN "fixed"
                      ELSE IF <<p, j>> \in e.items THEN "open" ELSE found["assessment"][p][j]]
    BY <1>1, <2>1 DEF FindTypeOK, Scopes
  <2>3. scope = "assessment"
    BY <1>1, <2>1 DEF FindTypeOK
  <2> HIDE DEF e
  <2> QED BY <2>2, <2>3
<1>4. <<p, i>>[1] = p
  OBVIOUS
<1>5. Closable(e, p, absent[x])
  BY <1>1, <1>3, <1>4, CompletedJustifies
<1> QED BY <1>1, <1>2, <1>5 DEF Justifies, Closable

\* No request closes a row.
LEMMA RequestCloses ==
  ASSUME FindInvariant, FindRequest, NEW scope \in Scopes, NEW p \in Prints,
         NEW i \in DOMAIN found[scope][p], found[scope][p][i] = "open"
  PROVE  found'[scope][p][i] = "open"
<1>1. FindTypeOK /\ "assessment" \in Scopes /\ found[scope][p] \in Seq({"open", "fixed"})
  BY DEF FindInvariant, FindTypeOK, Scopes
<1>2. CASE \E q \in Prints : \E row \in Copies("independent", q) : Promote(row)
  <2>1. PICK q \in Prints : \E row \in Copies("independent", q) : Promote(row)
    BY <1>2
  <2>2. PICK row : row[1] = q /\ Promote(row)
    BY <2>1 DEF Copies
  <2>3. found' = [found EXCEPT !["assessment"][q] = Append(found["assessment"][q], "open")]
    BY <2>2 DEF Promote
  <2>4. CASE scope = "assessment" /\ p = q
    <3>1. found'[scope][p] = Append(found[scope][p], "open")
      BY <1>1, <2>3, <2>4 DEF FindTypeOK
    <3> QED BY <1>1, <3>1
  <2>5. CASE ~(scope = "assessment" /\ p = q)
    BY <1>1, <2>3, <2>5 DEF FindTypeOK
  <2> QED BY <2>4, <2>5
<1>3. CASE \E s \in Scopes, q \in Prints : \E row \in Copies(s, q) : ReopenFinding(s, row)
  <2>1. PICK s \in Scopes, q \in Prints : \E row \in Copies(s, q) : ReopenFinding(s, row)
    BY <1>3
  <2>2. PICK row : row[1] = q /\ ReopenFinding(s, row)
    BY <2>1 DEF Copies
  <2>3. found' = [found EXCEPT ![s][q] = [found[s][q] EXCEPT ![row[2]] = "open"]]
    BY <2>2 DEF ReopenFinding
  <2>4. CASE scope = s /\ p = q
    <3>1. found'[scope][p] = [found[scope][p] EXCEPT ![row[2]] = "open"]
      BY <1>1, <2>3, <2>4 DEF FindTypeOK
    <3> QED BY <1>1, <3>1
  <2>5. CASE ~(scope = s /\ p = q)
    BY <1>1, <2>3, <2>5 DEF FindTypeOK
  <2> QED BY <2>4, <2>5
<1>4. CASE ResetFindings
  <2>1. found' = [found EXCEPT !["assessment"] = [q \in Prints |-> [j \in DOMAIN found["assessment"][q] |-> "open"]]]
    BY <1>1, <1>4 DEF ResetFindings, FindTypeOK
  <2>2. CASE scope = "assessment"
    <3>1. found'[scope][p] = [j \in DOMAIN found[scope][p] |-> "open"]
      BY <1>1, <2>1, <2>2 DEF FindTypeOK
    <3> QED BY <3>1
  <2>3. CASE scope # "assessment"
    BY <1>1, <2>1, <2>3 DEF FindTypeOK
  <2> QED BY <2>2, <2>3
<1> QED BY <1>2, <1>3, <1>4 DEF FindRequest

\* Every step closes on evidence.
LEMMA ClosesStep == FindInvariant /\ [FindNext]_findVars => [ClosesOnEvidence]_findVars
<1> SUFFICES ASSUME FindInvariant, FindNext, NEW scope \in Scopes, NEW p \in Prints,
                    NEW row \in CopiesWith(scope, p, "open"), found'[scope][p][row[2]] = "fixed"
             PROVE  \E x \in Executions : Justifies(x, p)
  BY DEF ClosesOnEvidence
<1>1. PICK i \in DOMAIN found[scope][p] : row = <<p, i>> /\ found[scope][p][i] = "open"
  BY DEF CopiesWith, Copies, StatusOf
<1>2. found'[scope][p][i] # found[scope][p][i] /\ found'[scope][p][i] = "fixed"
  BY <1>1
<1>3. CASE FindRequest
  BY <1>1, <1>2, <1>3, RequestCloses
<1>4. ASSUME NEW x \in Executions, CommitExecution(x) \/ GiveVerdict(x)
      PROVE  Justifies(x, p)
  BY <1>1, <1>2, <1>4, CommitCloses, VerdictCloses
<1>5. ASSUME found' = found PROVE FALSE
  BY <1>2, <1>5
<1> QED BY <1>3, <1>4, <1>5 DEF FindNext, TargetChanges, BeginExecution, Measure, Sync, ExecutionStops

\* A finding is closed on evidence only: by an execution that looked for it.
THEOREM RisksClosedOnEvidence == FindSpec => ClosedOnEvidence
<1> QED BY FindingsInvariant, ClosesStep, PTL DEF FindSpec, ClosedOnEvidence

-----------------------------------------------------------------------------
\* A commit that nobody disturbed leaves an open row for all that was seen.
LEMMA CommitReports ==
  ASSUME FindInvariant, NEW x \in Executions, CommitExecution(x), ~disturbed[x], ~exec[x].raised,
         NEW p \in SeenPrints(exec[x])
  PROVE  \E i \in DOMAIN found'[ScopeOf(exec[x].kind)][p] : found'[ScopeOf(exec[x].kind)][p][i] = "open"
<1> DEFINE e == exec[x]
           scope == ScopeOf(e.kind)
<1>1. FindTypeOK /\ e \in Execution /\ e.stage = "synced" /\ scope \in Scopes
  BY ItemsTyped DEF FindInvariant, FindTypeOK, CommitExecution, InStage
<1>2. p \in Prints
  <2>1. Parts(e.cap) \subseteq Tools
    BY <1>1 DEF Execution, Parts, Capabilities
  <2> QED BY <2>1 DEF SeenPrints, Prints, Capabilities
<1>3. Knows(e, found[scope])
  BY <1>1 DEF FindInvariant, Informed, InStage
<1>4. found[scope][p] \in Seq(FoundStatus) /\ found'[scope][p] = Written(found[scope][p], e, p)
  BY <1>1, <1>2, CommitWrites DEF FindTypeOK, FoundStatus
<1>5. CASE found[scope][p] = <<>>
  <2>1. p \in e.inserts
    BY <1>3, <1>5 DEF Knows
  <2> DEFINE last == Len(found[scope][p]) + 1
  <2>2. last \in DOMAIN found'[scope][p] /\ found'[scope][p][last] = "open"
    BY <1>4, <2>1, WrittenFacts
  <2> QED BY <2>2
<1>6. CASE found[scope][p] # <<>>
  <2>1. 1 \in DOMAIN found[scope][p] /\ found[scope][p][1] \in FoundStatus
    BY <1>4, <1>6
  <2>2. <<p, 1>> \notin e.fixes /\ (found[scope][p][1] = "fixed" => <<p, 1>> \in e.opens)
    BY <1>3, <2>1 DEF Knows
  <2>3. 1 \in DOMAIN found'[scope][p] /\ found'[scope][p][1] = "open"
    BY <1>4, <2>1, <2>2, WrittenFacts DEF FoundStatus
  <2> QED BY <2>3
<1> QED BY <1>5, <1>6

\* Every step reports what was seen.
LEMMA ReportsStep == FindInvariant /\ [FindNext]_findVars => [ReportsAll]_findVars
<1> SUFFICES ASSUME FindInvariant, FindNext, NEW x \in Executions,
                    InStage(x, "synced"), exec'[x].stage # "synced", found' # found,
                    ~disturbed[x], ~exec[x].raised
             PROVE  \A p \in SeenPrints(exec[x]) :
                      \E i \in DOMAIN found'[ScopeOf(exec[x].kind)][p] :
                        found'[ScopeOf(exec[x].kind)][p][i] = "open"
  BY DEF ReportsAll
<1>1. ~FindRequest
  BY RequestKeeps DEF InStage
<1>2. PICK y \in Executions : CommitExecution(y) \/ GiveVerdict(y)
  BY <1>1 DEF FindNext, TargetChanges, BeginExecution, Measure, Sync, ExecutionStops
<1>3. \A z \in Executions \ {y} : exec'[z] = exec[z]
  BY <1>2 DEF CommitExecution, GiveVerdict, EndExec, SetExec, FindInvariant, FindTypeOK
<1>4. y = x /\ CommitExecution(x)
  BY <1>2, <1>3 DEF InStage, GiveVerdict
<1> QED BY <1>4, CommitReports

\* What an execution saw is reported when it commits undisturbed.
THEOREM WhatIsSeenIsReported == FindSpec => SeenIsReported
<1> QED BY FindingsInvariant, ReportsStep, PTL DEF FindSpec, SeenIsReported

-----------------------------------------------------------------------------
(* The maintenance worker: its invariant.                                   *)

\* Where a poll may stand: schedules are read, claimed and executed in their stage, the
\* jobs claimed are those of the stage, and a job is not written and waiting at once.
PollPlaced(k) ==
  /\ k.stage # "schedules" => k.rest = {} /\ k.scanning = "none"
  /\ k.scanning \notin k.rest
  /\ k.stage \in {"idle", "schedules"} => k.claimed = {} /\ k.writing = "none"
  /\ k.stage \in {"archives", "summaries"} =>
       k.claimed \subseteq StageJobs(k.stage) /\ k.writing \in StageJobs(k.stage) \cup {"none"}
  /\ k.writing \notin k.claimed

\* Nobody scans a schedule that never was, and no job that was not asked for is processed.
MaintInvariant ==
  /\ MaintTypeOK /\ PollPlaced(mworker)
  /\ \A c \in Schedules : ~schedule[c].exists => schedule[c] = NoSchedule
  /\ \A j \in Jobs : j \in mworker.claimed \cup {mworker.writing} => job[j].status # "none"

\* What a step may do to a row that a user has deleted: a late end of a run, of a claim or
\* of a summary does not bring it back.
StaysDeleted ==
  /\ \A j \in Jobs : job[j].status = "deleted" => job'[j].status = "deleted"
  /\ \A c \in Schedules : ~schedule[c].exists => ~schedule'[c].exists \/ CreateSchedule(c)

\* The rows that a step may leave.
LEMMA MaintRows ==
  /\ NoSchedule \in Schedule /\ NoSchedule.next = "later" /\ ~NoSchedule.exists
  /\ NoJob \in Job
  /\ \A status \in {"queued", "completed", "failed", "deleted"} :
       [NoJob EXCEPT !.status = status] \in Job /\ [NoJob EXCEPT !.status = status].status = status
  /\ NoPolling \in Worker /\ PollPlaced(NoPolling) /\ NoPolling.stage = "idle"
  /\ NoPolling.claimed = {} /\ NoPolling.writing = "none" /\ NoPolling.rest = {} /\ NoPolling.scanning = "none"
  /\ "none" \notin Jobs /\ "none" \notin Schedules
BY MaintenanceAssumption DEF NoSchedule, Schedule, NoJob, Job, NoPolling, Worker, PollStage, PollPlaced, Jobs

\* A schedule that changes keeps a row a row, and exists or is blank.
LEMMA ScheduleRows ==
  ASSUME NEW row \in Schedule, row.exists
  PROVE  /\ \A on \in BOOLEAN, next \in {"later", "claimed", "due"} :
              LET new == [row EXCEPT !.on = on, !.next = next] IN new \in Schedule /\ new.exists
         /\ [row EXCEPT !.next = "due"] \in Schedule /\ [row EXCEPT !.next = "due"].exists
         /\ Rescheduled(row) \in Schedule /\ Rescheduled(row).exists
         /\ Claimed(row) \in Schedule /\ Claimed(row).exists
         /\ Postponed(row) \in Schedule /\ Postponed(row).exists
BY DEF Schedule, Rescheduled, Claimed, Postponed

\* The bounds of a behaviour.
LEMMA SpendsTyped ==
  ASSUME MaintTypeOK,
         \/ UNCHANGED spent \/ Spends("requests", MaxRequests) \/ Spends("days", MaxDays)
         \/ Spends("deaths", MaxDeaths)
  PROVE  spent' \in [days : 0 .. MaxDays, deaths : 0 .. MaxDeaths, requests : 0 .. MaxRequests]
<1> DEFINE S == [days : 0 .. MaxDays, deaths : 0 .. MaxDeaths, requests : 0 .. MaxRequests]
<1>1. /\ spent \in S /\ MaxDays \in Nat /\ MaxDeaths \in Nat /\ MaxRequests \in Nat
  BY MaintenanceAssumption DEF MaintTypeOK
<1>2. CASE UNCHANGED spent
  BY <1>1, <1>2
<1>3. CASE Spends("requests", MaxRequests)
  <2>1. spent.requests + 1 \in 0 .. MaxRequests
    BY <1>1, <1>3 DEF Spends
  <2> QED BY <1>1, <1>3, <2>1 DEF Spends
<1>4. CASE Spends("days", MaxDays)
  <2>1. spent.days + 1 \in 0 .. MaxDays
    BY <1>1, <1>4 DEF Spends
  <2> QED BY <1>1, <1>4, <2>1 DEF Spends
<1>5. CASE Spends("deaths", MaxDeaths)
  <2>1. spent.deaths + 1 \in 0 .. MaxDeaths
    BY <1>1, <1>5 DEF Spends
  <2> QED BY <1>1, <1>5, <2>1 DEF Spends
<1> QED BY <1>2, <1>3, <1>4, <1>5

\* A step on one schedule, or on none.
LEMMA ScheduleMoves ==
  ASSUME MaintInvariant, NEW c \in Schedules, NEW row \in Schedule, schedule' = [schedule EXCEPT ![c] = row],
         row.exists => schedule[c].exists \/ CreateSchedule(c), ~row.exists => row = NoSchedule
  PROVE  /\ schedule' \in [Schedules -> Schedule]
         /\ \A d \in Schedules : ~schedule'[d].exists => schedule'[d] = NoSchedule
         /\ \A d \in Schedules : ~schedule[d].exists => ~schedule'[d].exists \/ CreateSchedule(d)
BY DEF MaintInvariant, MaintTypeOK

\* A step on one job: it was not deleted, and is asked for.
LEMMA JobMoves ==
  ASSUME MaintInvariant, NEW j \in Jobs, NEW row \in Job, job' = [job EXCEPT ![j] = row],
         job[j].status # "deleted", row.status # "none"
  PROVE  /\ job' \in [Jobs -> Job]
         /\ \A i \in Jobs : job[i].status # "none" => job'[i].status # "none"
         /\ \A i \in Jobs : job[i].status = "deleted" => job'[i].status = "deleted"
BY DEF MaintInvariant, MaintTypeOK

\* A request of a user, and the end of a run that a user started.
LEMMA MaintRequestKeeps ==
  ASSUME MaintInvariant,
         \/ MaintRequest
         \/ \E c \in Schedules : BecomesDue(c) \/ ByHandEnds(c)
         \/ \E j \in Jobs : JobLeaseExpires(j)
  PROVE  MaintInvariant' /\ StaysDeleted
<1>0. /\ MaintTypeOK /\ schedule \in [Schedules -> Schedule] /\ job \in [Jobs -> Job] /\ byhand \subseteq Schedules
      /\ mworker' = mworker
  BY DEF MaintInvariant, MaintTypeOK, MaintRequest, CreateSchedule, UpdateSchedule, DeleteSchedule, RunByHand, QueueJob,
       RetryArchive, DeleteArchive, BecomesDue, ByHandEnds, JobLeaseExpires
<1>1. spent' \in [days : 0 .. MaxDays, deaths : 0 .. MaxDeaths, requests : 0 .. MaxRequests]
  <2>1. UNCHANGED spent \/ Spends("requests", MaxRequests) \/ Spends("days", MaxDays)
    BY DEF MaintRequest, CreateSchedule, UpdateSchedule, DeleteSchedule, RunByHand, QueueJob,
       RetryArchive, DeleteArchive, BecomesDue, ByHandEnds, JobLeaseExpires
  <2> QED BY <1>0, <2>1, SpendsTyped
<1>2. byhand' \subseteq Schedules
  BY <1>0 DEF MaintRequest, CreateSchedule, UpdateSchedule, DeleteSchedule, RunByHand, QueueJob,
       RetryArchive, DeleteArchive, BecomesDue, ByHandEnds, JobLeaseExpires
<1>3. ASSUME NEW c \in Schedules, NEW row \in Schedule, schedule' = [schedule EXCEPT ![c] = row], job' = job,
             row.exists => schedule[c].exists \/ CreateSchedule(c), ~row.exists => row = NoSchedule
      PROVE  MaintInvariant' /\ StaysDeleted
  <2>1. /\ schedule' \in [Schedules -> Schedule]
        /\ \A d \in Schedules : ~schedule'[d].exists => schedule'[d] = NoSchedule
        /\ \A d \in Schedules : ~schedule[d].exists => ~schedule'[d].exists \/ CreateSchedule(d)
    BY <1>3, ScheduleMoves
  <2> QED BY <1>0, <1>1, <1>2, <1>3, <2>1 DEF MaintInvariant, MaintTypeOK, StaysDeleted, PollPlaced
<1>4. ASSUME job' \in [Jobs -> Job], schedule' = schedule,
             \A i \in Jobs : job[i].status # "none" => job'[i].status # "none",
             \A i \in Jobs : job[i].status = "deleted" => job'[i].status = "deleted"
      PROVE  MaintInvariant' /\ StaysDeleted
  BY <1>0, <1>1, <1>2, <1>4 DEF MaintInvariant, MaintTypeOK, StaysDeleted, PollPlaced
<1>5. ASSUME NEW c \in Schedules, CreateSchedule(c) PROVE MaintInvariant' /\ StaysDeleted
  <2> DEFINE row == [NoSchedule EXCEPT !.exists = TRUE, !.on = TRUE]
  <2>1. row \in Schedule /\ row.exists
    BY DEF NoSchedule, Schedule
  <2>2. schedule' = [schedule EXCEPT ![c] = row] /\ job' = job
    BY <1>5 DEF CreateSchedule
  <2> HIDE DEF row
  <2> QED BY <1>3, <1>5, <2>1, <2>2
<1>6. ASSUME NEW c \in Schedules, UpdateSchedule(c) \/ BecomesDue(c) PROVE MaintInvariant' /\ StaysDeleted
  <2>1. schedule[c] \in Schedule /\ schedule[c].exists /\ job' = job
    BY <1>0, <1>6 DEF UpdateSchedule, BecomesDue
  <2>2. \E row \in Schedule : schedule' = [schedule EXCEPT ![c] = row] /\ row.exists
    <3>1. CASE UpdateSchedule(c)
      <4>1. PICK on \in BOOLEAN, next \in {"later", schedule[c].next} :
              schedule' = [schedule EXCEPT ![c] = [@ EXCEPT !.on = on, !.next = next]]
        BY <3>1 DEF UpdateSchedule
      <4>2. next \in {"later", "claimed", "due"}
        BY <2>1 DEF Schedule
      <4> QED BY <2>1, <4>1, <4>2, ScheduleRows
    <3>2. CASE BecomesDue(c)
      BY <2>1, <3>2, ScheduleRows DEF BecomesDue
    <3> QED BY <1>6, <3>1, <3>2
  <2> QED BY <1>3, <2>1, <2>2
<1>7. ASSUME NEW c \in Schedules, DeleteSchedule(c) PROVE MaintInvariant' /\ StaysDeleted
  BY <1>3, <1>7, MaintRows DEF DeleteSchedule
<1>8. ASSUME NEW c \in Schedules, RunByHand(c) \/ (ByHandEnds(c) /\ UNCHANGED schedule)
      PROVE  MaintInvariant' /\ StaysDeleted
  BY <1>0, <1>4, <1>8 DEF RunByHand, ByHandEnds
<1>9. ASSUME NEW c \in Schedules, ByHandEnds(c), schedule' # schedule PROVE MaintInvariant' /\ StaysDeleted
  <2>1. schedule[c] \in Schedule /\ schedule[c].exists /\ job' = job
        /\ schedule' = [schedule EXCEPT ![c] = Rescheduled(schedule[c])]
    BY <1>0, <1>9 DEF ByHandEnds
  <2> QED BY <1>3, <2>1, ScheduleRows
<1>10. ASSUME NEW j \in Jobs, QueueJob(j) \/ (j \in Archives /\ RetryArchive(j)) PROVE MaintInvariant' /\ StaysDeleted
  <2> DEFINE row == [NoJob EXCEPT !.status = "queued"]
  <2>1. row \in Job /\ row.status = "queued"
    BY MaintRows
  <2>2. job' = [job EXCEPT ![j] = row] /\ job[j].status # "deleted" /\ schedule' = schedule
    BY <1>10 DEF QueueJob, RetryArchive
  <2> HIDE DEF row
  <2> QED BY <1>4, <2>1, <2>2, JobMoves
<1>11. ASSUME NEW a \in Archives, DeleteArchive(a) PROVE MaintInvariant' /\ StaysDeleted
  <2> DEFINE row == [NoJob EXCEPT !.status = "deleted"]
  <2>1. row \in Job /\ row.status = "deleted"
    BY MaintRows
  <2>2. PICK gone \in SUBSET Summaries : job' = [j \in Jobs |-> IF j \in gone \cup {a} THEN row ELSE job[j]]
    BY <1>11 DEF DeleteArchive
  <2>3. schedule' = schedule
    BY <1>11 DEF DeleteArchive
  <2> HIDE DEF row
  <2>4. \A j \in Jobs : job'[j] = IF j \in gone \cup {a} THEN row ELSE job[j]
    BY <2>2
  <2>5. job' \in [Jobs -> Job]
    BY <1>0, <2>1, <2>2
  <2> QED BY <1>4, <2>1, <2>3, <2>4, <2>5
<1>12. ASSUME NEW j \in Jobs, JobLeaseExpires(j) PROVE MaintInvariant' /\ StaysDeleted
  <2> DEFINE row == [job[j] EXCEPT !.expired = TRUE]
  <2>1. row \in Job /\ row.status = "processing"
    BY <1>0, <1>12 DEF JobLeaseExpires, Job
  <2>2. job' = [job EXCEPT ![j] = row] /\ job[j].status # "deleted" /\ schedule' = schedule
    BY <1>12 DEF JobLeaseExpires
  <2> HIDE DEF row
  <2> QED BY <1>4, <2>1, <2>2, JobMoves
<1> QED BY <1>5, <1>6, <1>7, <1>8, <1>9, <1>10, <1>11, <1>12 DEF MaintRequest, Jobs

\* A step of the poll leaves the worker in a place of a poll, or without one.
LEMMA WorkerPlaces ==
  ASSUME mworker \in Worker, PollPlaced(mworker)
  PROVE  /\ mworker.stage \in PollStage /\ mworker.rest \subseteq Schedules
         /\ mworker.claimed \subseteq Jobs /\ mworker.writing \in Jobs \cup {"none"}
         /\ mworker.scanning \in Schedules \cup {"none"}
BY DEF Worker

\* The poll of the maintenance worker, and its death.
LEMMA PollKeeps ==
  ASSUME MaintInvariant, PollStep \/ WorkerDies
  PROVE  MaintInvariant' /\ StaysDeleted
<1>0. /\ MaintTypeOK /\ schedule \in [Schedules -> Schedule] /\ job \in [Jobs -> Job] /\ byhand \subseteq Schedules
      /\ byhand' = byhand /\ mworker \in Worker /\ PollPlaced(mworker)
      /\ mworker.stage \in PollStage /\ mworker.rest \subseteq Schedules
      /\ mworker.claimed \subseteq Jobs /\ mworker.writing \in Jobs \cup {"none"}
      /\ mworker.scanning \in Schedules \cup {"none"}
  <2>1. byhand' = byhand
    BY DEF PollStep, StartPoll, ClaimSchedule, ScheduleRuns, ScheduleFails, ClaimJobs, StartJob, EndJob, EndPoll, WorkerDies
  <2>2. MaintTypeOK /\ mworker \in Worker /\ PollPlaced(mworker)
    BY DEF MaintInvariant, MaintTypeOK
  <2> QED BY <2>1, <2>2, WorkerPlaces DEF MaintTypeOK
<1>1. spent' \in [days : 0 .. MaxDays, deaths : 0 .. MaxDeaths, requests : 0 .. MaxRequests]
  <2>1. UNCHANGED spent \/ Spends("deaths", MaxDeaths)
    BY DEF PollStep, StartPoll, ClaimSchedule, ScheduleRuns, ScheduleFails, ClaimJobs, StartJob, EndJob, EndPoll, WorkerDies
  <2> QED BY <1>0, <2>1, SpendsTyped
<1>2. ASSUME mworker' \in Worker, PollPlaced(mworker)',
             schedule' \in [Schedules -> Schedule], job' \in [Jobs -> Job],
             \A d \in Schedules : ~schedule'[d].exists => schedule'[d] = NoSchedule,
             \A d \in Schedules : ~schedule[d].exists => ~schedule'[d].exists,
             \A i \in Jobs : job[i].status = "deleted" => job'[i].status = "deleted",
             \A i \in Jobs : i \in mworker'.claimed \cup {mworker'.writing} => job'[i].status # "none"
      PROVE  MaintInvariant' /\ StaysDeleted
  BY <1>0, <1>1, <1>2 DEF MaintInvariant, MaintTypeOK, StaysDeleted
<1>3. ASSUME mworker' \in Worker, PollPlaced(mworker)', schedule' = schedule, job' = job,
             mworker'.claimed \cup {mworker'.writing} \subseteq mworker.claimed \cup {mworker.writing, "none"}
      PROVE  MaintInvariant' /\ StaysDeleted
  <2>1. \A i \in Jobs : i \in mworker'.claimed \cup {mworker'.writing} => i \in mworker.claimed \cup {mworker.writing}
    BY <1>3, MaintRows
  <2> QED BY <1>0, <1>2, <1>3, <2>1 DEF MaintInvariant
<1>4. ASSUME mworker' = NoPolling, schedule' = schedule, job' = job PROVE MaintInvariant' /\ StaysDeleted
  BY <1>3, <1>4, MaintRows
<1>5. ASSUME mworker' \in Worker, PollPlaced(mworker)', mworker'.claimed = {}, mworker'.writing = "none", job' = job,
             NEW c \in Schedules, NEW row \in Schedule, schedule' = [schedule EXCEPT ![c] = row],
             row.exists => schedule[c].exists, ~row.exists => row = NoSchedule
      PROVE  MaintInvariant' /\ StaysDeleted
  <2>1. /\ schedule' \in [Schedules -> Schedule]
        /\ \A d \in Schedules : ~schedule'[d].exists => schedule'[d] = NoSchedule
        /\ \A d \in Schedules : ~schedule[d].exists => ~schedule'[d].exists
    BY <1>5 DEF MaintInvariant, MaintTypeOK
  <2> QED BY <1>0, <1>2, <1>5, <2>1, MaintRows
<1>6. CASE StartPoll
  <2>1. PICK some \in SUBSET DueNow : mworker' = [NoPolling EXCEPT !.stage = "schedules", !.rest = some]
    BY <1>6 DEF StartPoll, Polls
  <2> DEFINE k == [NoPolling EXCEPT !.stage = "schedules", !.rest = some]
  <2>2. some \subseteq Schedules
    BY DEF DueNow
  <2>3. /\ k.stage = "schedules" /\ k.rest = some /\ k.scanning = "none" /\ k.claimed = {} /\ k.writing = "none"
        /\ k \in Worker
    BY <2>2 DEF NoPolling, Worker, PollStage
  <2> HIDE DEF k
  <2>4. PollPlaced(k)
    BY <2>2, <2>3, MaintRows DEF PollPlaced
  <2> QED BY <1>3, <1>6, <2>1, <2>3, <2>4 DEF StartPoll, k
<1>7. ASSUME NEW c \in Schedules, ClaimSchedule(c) PROVE MaintInvariant' /\ StaysDeleted
  <2> DEFINE k == [mworker EXCEPT !.rest = @ \ {c}]
             k2 == [mworker EXCEPT !.rest = @ \ {c}, !.scanning = c]
  <2>1. mworker.stage = "schedules" /\ mworker.scanning = "none" /\ mworker.claimed = {} /\ mworker.writing = "none"
    BY <1>0, <1>7 DEF ClaimSchedule, PollPlaced
  <2>2. /\ k \in Worker /\ k.stage = "schedules" /\ k.rest = mworker.rest \ {c} /\ k.scanning = "none"
        /\ k.claimed = {} /\ k.writing = "none"
        /\ k2 \in Worker /\ k2.stage = "schedules" /\ k2.rest = mworker.rest \ {c} /\ k2.scanning = c
        /\ k2.claimed = {} /\ k2.writing = "none"
    BY <1>0, <2>1 DEF Worker
  <2>3. /\ c \in DueNow => mworker' = k2 /\ schedule' = [schedule EXCEPT ![c] = Claimed(schedule[c])]
        /\ c \notin DueNow => mworker' = k /\ schedule' = schedule
        /\ job' = job
    BY <1>7 DEF ClaimSchedule, Polls
  <2> HIDE DEF k, k2
  <2>4. PollPlaced(k) /\ PollPlaced(k2)
    BY <1>0, <2>2, MaintRows DEF PollPlaced
  <2>5. CASE c \in DueNow
    <3>1. schedule[c] \in Schedule /\ schedule[c].exists
      BY <1>0, <2>5 DEF DueNow
    <3>2. Claimed(schedule[c]) \in Schedule /\ Claimed(schedule[c]).exists
      BY <3>1, ScheduleRows
    <3> QED BY <1>5, <2>2, <2>3, <2>4, <2>5, <3>1, <3>2
  <2>6. CASE c \notin DueNow
    BY <1>3, <2>2, <2>3, <2>4, <2>6
  <2> QED BY <2>5, <2>6
<1>8. CASE ScheduleRuns \/ ScheduleFails
  <2> DEFINE c == mworker.scanning
             k == [mworker EXCEPT !.scanning = "none"]
  <2>1. c \in Schedules /\ mworker.stage = "schedules" /\ mworker.claimed = {} /\ mworker.writing = "none"
    BY <1>0, <1>8 DEF ScheduleRuns, ScheduleFails, PollPlaced
  <2>2. /\ k \in Worker /\ k.stage = "schedules" /\ k.rest = mworker.rest /\ k.scanning = "none"
        /\ k.claimed = {} /\ k.writing = "none"
    BY <1>0, <2>1 DEF Worker
  <2>3. PollPlaced(k)
    <3> HIDE DEF k
    <3> QED BY <1>0, <2>1, <2>2, MaintRows DEF PollPlaced
  <2>4. /\ job' = job
        /\ \/ mworker' = k /\ schedule[c].exists /\ schedule' = [schedule EXCEPT ![c] = Rescheduled(schedule[c])]
           \/ mworker' = NoPolling /\ schedule' = schedule
           \/ mworker' = NoPolling /\ schedule' = [schedule EXCEPT ![c] = Postponed(schedule[c])]
    BY <1>8 DEF ScheduleRuns, ScheduleFails, Polls, PollFails
  <2> HIDE DEF k
  <2>5. schedule[c] \in Schedule /\ (~schedule[c].exists => schedule[c] = NoSchedule)
    BY <1>0, <2>1 DEF MaintInvariant
  <2>6. CASE schedule[c].exists
    <3>1. /\ Rescheduled(schedule[c]) \in Schedule /\ Rescheduled(schedule[c]).exists
          /\ Postponed(schedule[c]) \in Schedule /\ Postponed(schedule[c]).exists
      BY <2>5, <2>6, ScheduleRows
    <3> HIDE DEF c
    <3>2. CASE mworker' = k /\ schedule' = [schedule EXCEPT ![c] = Rescheduled(schedule[c])]
      BY <1>5, <2>1, <2>2, <2>3, <2>4, <2>6, <3>1, <3>2
    <3>3. CASE mworker' = NoPolling /\ schedule' = [schedule EXCEPT ![c] = Postponed(schedule[c])]
      BY <1>5, <2>1, <2>4, <2>6, <3>1, <3>3, MaintRows
    <3> QED BY <1>4, <2>4, <3>2, <3>3
  <2>7. CASE ~schedule[c].exists
    <3>1. [schedule EXCEPT ![c] = Postponed(schedule[c])] = schedule
      BY <1>0, <2>7 DEF Postponed
    <3> QED BY <1>4, <2>4, <2>7, <3>1
  <2> QED BY <2>6, <2>7
<1>9. ASSUME NEW stage \in {"archives", "summaries"}, ClaimJobs(stage) PROVE MaintInvariant' /\ StaysDeleted
  <2> DEFINE now == {j \in StageJobs(stage) : Pending(j)}
             k == [mworker EXCEPT !.stage = stage, !.claimed = now]
             row == [status |-> "processing", expired |-> FALSE]
  <2>1. /\ mworker' = k /\ job' = [j \in Jobs |-> IF j \in now THEN row ELSE job[j]] /\ schedule' = schedule
        /\ mworker.rest = {} /\ mworker.scanning = "none" /\ mworker.writing = "none"
    BY <1>9 DEF ClaimJobs, Polls
  <2>2. now \subseteq StageJobs(stage) /\ now \subseteq Jobs
    BY DEF StageJobs, Jobs
  <2>3. row \in Job /\ row.status = "processing"
    BY DEF Job
  <2>4. \A j \in now : job[j].status # "deleted"
    BY DEF Pending
  <2> HIDE DEF now, row
  <2>5. /\ k \in Worker /\ k.stage = stage /\ k.rest = {} /\ k.scanning = "none" /\ k.claimed = now /\ k.writing = "none"
    BY <1>0, <2>1, <2>2 DEF Worker, PollStage
  <2> HIDE DEF k
  <2>6. PollPlaced(k)
    BY <2>2, <2>5, MaintRows DEF PollPlaced
  <2>7. job' \in [Jobs -> Job]
    BY <1>0, <2>1, <2>3
  <2>8. \A i \in Jobs : job[i].status = "deleted" => job'[i].status = "deleted"
    BY <2>1, <2>4
  <2>9. \A i \in Jobs : i \in mworker'.claimed \cup {mworker'.writing} => job'[i].status # "none"
    BY <2>1, <2>3, <2>5, MaintRows
  <2> QED BY <1>0, <1>2, <2>1, <2>5, <2>6, <2>7, <2>8, <2>9 DEF MaintInvariant
<1>10. ASSUME NEW j \in Jobs, StartJob(j) PROVE MaintInvariant' /\ StaysDeleted
  <2>1. PICK w \in {"none", j} : mworker' = [mworker EXCEPT !.claimed = @ \ {j}, !.writing = w]
    BY <1>10 DEF StartJob, Polls
  <2> DEFINE k == [mworker EXCEPT !.claimed = @ \ {j}, !.writing = w]
  <2>2. /\ k \in Worker /\ k.stage = mworker.stage /\ k.rest = mworker.rest /\ k.scanning = mworker.scanning
        /\ k.claimed = mworker.claimed \ {j} /\ k.writing = w
    BY <1>0 DEF Worker
  <2> HIDE DEF k
  <2>3. j \in mworker.claimed /\ schedule' = schedule /\ job' = job
    BY <1>10 DEF StartJob
  <2>4. PollPlaced(k)
    BY <1>0, <2>2, <2>3, MaintRows DEF PollPlaced, PollStage
  <2> QED BY <1>3, <2>1, <2>2, <2>3, <2>4 DEF k
<1>11. CASE EndJob
  <2> DEFINE j == mworker.writing
             k == [mworker EXCEPT !.writing = "none"]
  <2>1. j \in Jobs /\ schedule' = schedule
    BY <1>0, <1>11 DEF EndJob
  <2>2. /\ k \in Worker /\ k.stage = mworker.stage /\ k.rest = mworker.rest /\ k.scanning = mworker.scanning
        /\ k.claimed = mworker.claimed /\ k.writing = "none"
    BY <1>0 DEF Worker
  <2>3. PollPlaced(k)
    <3> HIDE DEF k
    <3> QED BY <1>0, <2>2, MaintRows DEF PollPlaced, PollStage
  <2>4. CASE mworker' = NoPolling /\ job' = job
    BY <1>4, <2>1, <2>4
  <2>5. CASE mworker' # NoPolling \/ job' # job
    <3>1. PICK verdict \in {"completed", "failed"} : job' = [job EXCEPT ![j] = [NoJob EXCEPT !.status = verdict]]
      BY <1>11, <2>5 DEF EndJob, PollFails, Polls
    <3>2. mworker' = k /\ job[j].status # "deleted"
      BY <1>11, <2>5 DEF EndJob, PollFails, Polls
    <3> DEFINE row == [NoJob EXCEPT !.status = verdict]
    <3>3. row \in Job /\ row.status = verdict
      BY MaintRows
    <3> HIDE DEF row, j, k
    <3>4. /\ job' \in [Jobs -> Job]
          /\ \A i \in Jobs : job[i].status # "none" => job'[i].status # "none"
          /\ \A i \in Jobs : job[i].status = "deleted" => job'[i].status = "deleted"
      BY <2>1, <3>1, <3>2, <3>3, JobMoves DEF row
    <3>5. \A i \in Jobs : i \in mworker'.claimed \cup {mworker'.writing} => job'[i].status # "none"
      BY <2>2, <3>2, <3>4, MaintRows DEF MaintInvariant
    <3> QED BY <1>0, <1>2, <2>1, <2>2, <2>3, <3>2, <3>4, <3>5 DEF MaintInvariant
  <2> QED BY <2>4, <2>5
<1>12. CASE EndPoll \/ WorkerDies
  BY <1>4, <1>12 DEF EndPoll, WorkerDies, Polls
<1> QED BY <1>6, <1>7, <1>8, <1>9, <1>10, <1>11, <1>12 DEF PollStep

\* Nothing is scheduled, asked for or polled.
LEMMA MaintStarts == MaintInit => MaintInvariant
<1> SUFFICES ASSUME MaintInit PROVE MaintInvariant
  OBVIOUS
<1>1. spent \in [days : 0 .. MaxDays, deaths : 0 .. MaxDeaths, requests : 0 .. MaxRequests]
  BY MaintenanceAssumption DEF MaintInit
<1>2. MaintTypeOK
  BY <1>1, MaintRows DEF MaintInit, MaintTypeOK
<1>3. PollPlaced(mworker) /\ mworker.claimed \cup {mworker.writing} = {"none"}
  BY MaintRows DEF MaintInit
<1> QED BY <1>2, <1>3, MaintRows DEF MaintInit, MaintInvariant

\* Every step keeps the invariant and what was deleted.
LEMMA MaintSteps == MaintInvariant /\ [MaintNext]_maintVars => MaintInvariant' /\ [StaysDeleted]_maintVars
<1> SUFFICES ASSUME MaintInvariant, [MaintNext]_maintVars PROVE MaintInvariant' /\ [StaysDeleted]_maintVars
  OBVIOUS
<1>1. CASE MaintNext
  BY <1>1, MaintRequestKeeps, PollKeeps DEF MaintNext
<1>2. CASE UNCHANGED maintVars
  BY <1>2 DEF maintVars, MaintInvariant, MaintTypeOK, PollPlaced
<1> QED BY <1>1, <1>2

\* Polls of the maintenance worker follow their order, whatever dies, fails or is deleted
\* under them, and every row is one that the tables can hold.
THEOREM MaintenanceInvariant == MaintSpec => []MaintInvariant
BY MaintStarts, MaintSteps, PTL DEF MaintSpec

\* A late end of a scan, a claim, a lease that runs out or a summary does not bring back
\* what a user has deleted meanwhile.
THEOREM DeletedNeverReturns == MaintSpec => [][StaysDeleted]_maintVars
BY MaintStarts, MaintSteps, PTL DEF MaintSpec

-----------------------------------------------------------------------------
(* All roles in one run (MCWorkerRoles).                                     *)

\* The run starts each role as its own specification does, and each of its steps is one of
\* the role it follows.
LEMMA RunIsOfRoles == AllSpec => DocSpec /\ ScanSpec /\ MaintSpec /\ FindSpec
<1>1. AllInit => DocInit /\ ScanInit /\ MaintInit /\ FindInit
  BY DEF AllInit
<1>2. [AllNext]_allVars => [DocNext]_docVars /\ [ScanNext]_scanVars /\ [MaintNext]_maintVars /\ [FindNext]_findVars
  BY DEF AllNext, allVars
<1> QED BY <1>1, <1>2, PTL DEF AllSpec, DocSpec, ScanSpec, MaintSpec, FindSpec

\* Whichever role the worker takes, rows, leases and program counters are ones that the tables
\* and processes can hold.
THEOREM WorkerRolesTypeCorrect == AllSpec => []RolesTypeOK
<1>1. ScanInvariant /\ MaintInvariant /\ FindInvariant => ScanTypeOK /\ MaintTypeOK /\ FindTypeOK
  BY DEF ScanInvariant, MaintInvariant, FindInvariant
<1>2. DocTypeOK /\ ScanTypeOK /\ MaintTypeOK /\ FindTypeOK => RolesTypeOK
  BY DEF RolesTypeOK
<1> QED
  BY <1>1, <1>2, RunIsOfRoles, DocumentTypeCorrect, ScansInvariant, MaintenanceInvariant, FindingsInvariant, PTL

\* What is proved of each role holds of the run of all.
THEOREM WorkerRolesKeepTheirPromises ==
  AllSpec => /\ []NoStrandedTask /\ StoppedNeverCompletes /\ StepsOnce /\ ClosedOnEvidence /\ SeenIsReported
             /\ [][StaysDeleted]_maintVars
BY RunIsOfRoles, NoneStranded, StoppedIsKept, CheckpointsAreKept, DeletedNeverReturns, RisksClosedOnEvidence,
   WhatIsSeenIsReported, PTL
=============================================================================
