------------------------------ MODULE Materials ------------------------------
(***************************************************************************)
(* The files of a project and the rows that refer to them.  A request that *)
(* uploads, replaces or deletes a document, and one that clears a project  *)
(* or resets a part of an assessment, writes to the disk and to the        *)
(* database in several steps, and any of them may be its last: the two are *)
(* not one transaction (api/assessments.py, api/verification.py,           *)
(* api/evidences.py, api/projects.py, services/flow_engine.py,             *)
(* services/data_lifecycle.py).  The analyses that the requests queue are  *)
(* run by one document worker, which is reduced to what it reads and       *)
(* writes here; its queue is the subject of DocumentQueue.                 *)
(***************************************************************************)
EXTENDS Naturals, FiniteSets

CONSTANTS
  Reviews,     \* doc_review tasks of the assessment
  Contents,    \* what a file can hold: equal contents have the same sha256
  Askers,      \* requests that may be served at the same time
  MaxFiles,    \* files stored in a behaviour (a bound)
  MaxAnalyses,   \* analyses created in a behaviour (a bound)
  MaxAsks      \* requests begun in a behaviour (a bound)

ASSUME MaterialAssumption ==
  /\ MaxFiles \in Nat /\ MaxAnalyses \in Nat /\ MaxAsks \in Nat
  /\ Contents # {} /\ Reviews \cap {"unsorted", "finding", "answer", "none"} = {}

Files == 1 .. MaxFiles
Analyses == 1 .. MaxAnalyses
ReviewStatus == {"todo", "in_progress", "completed", "failed"}
\* of: the task of a document, or unsorted (task_id is null); an attachment is
\* evidence of a finding or of an answer of a questionnaire.
FileRow == [row : {"none", "active", "replaced", "deleted"},
            of : Reviews \cup {"unsorted", "finding", "answer"}, content : Contents]
\* files: document_run_files; read: what _files_for_run returned.
CheckRow == [status : {"none", "queued", "running", "sorting", "ended", "deleted"},
             kind : {"check", "retest", "sorts", "resorts"}, task : Reviews \cup {"none"},
             files : SUBSET Files, read : SUBSET Files]
Ops == {"upload", "batch", "rebatch", "retest", "analyze", "attach", "detach", "delete",
        "reset", "restart", "clear", "remove", "discard", "wipe"}
\* seen: the statuses of the tasks as the session of the request loaded them.
AskRow == [op : Ops, pc : {"idle", "saving", "recording", "queueing", "unlinking", "dropping",
                           "erasing", "committing", "purging", "cleaning", "rebuilding"},
           task : Reviews \cup {"none"}, file : Files \cup {0}, files : SUBSET Files,
           checks : SUBSET Analyses, seen : [Reviews -> ReviewStatus]]

VARIABLES
  disk,      \* the files in the storage directory
  doc,       \* [Files -> FileRow], document_files and evidences
  review,    \* [Reviews -> status and corpus (document_file_ids of its verdict)]
  analysis,  \* [Analyses -> CheckRow], document_analysis_runs
  ask,       \* [Askers -> AskRow], the requests that are being served
  asks,      \* how many were begun
  torn,      \* (history) files a deletion has unlinked before it dropped their rows
  excused,   \* (history) tasks whose documents changed and will not be judged: see below
  slipped    \* (history) tasks a reset left in progress: see StatusWritten

matVars == <<disk, doc, review, analysis, ask, asks, torn, excused, slipped>>

Unseen == [t \in Reviews |-> "todo"]
NoAsk == [op |-> "upload", pc |-> "idle", task |-> "none", file |-> 0, files |-> {},
          checks |-> {}, seen |-> Unseen]
NoCheck == [status |-> "none", kind |-> "check", task |-> "none", files |-> {}, read |-> {}]

Stands(f) == doc[f].row \in {"active", "replaced"}
ActiveOf(t) == {f \in Files : doc[f].row = "active" /\ doc[f].of = t}
Documents == {f \in Files : Stands(f) /\ doc[f].of \notin {"finding", "answer"}}
Attachments == {f \in Files : Stands(f) /\ doc[f].of = "finding"}
ActiveCheck(r) == analysis[r].status \in {"queued", "running", "sorting"}

\* A new assessment: nothing was uploaded.
MatInit ==
  /\ doc = [f \in Files |-> [row |-> "none", of |-> "unsorted", content |-> CHOOSE c \in Contents : TRUE]]
  /\ disk = {}
  /\ review = [t \in Reviews |-> [status |-> "todo", corpus |-> {}]]
  /\ analysis = [r \in Analyses |-> NoCheck]
  /\ ask = [q \in Askers |-> NoAsk]
  /\ asks = 0 /\ torn = {} /\ excused = {} /\ slipped = {}

-----------------------------------------------------------------------------
(* What a transaction writes.                                               *)

\* The session of a request keeps the rows it has loaded (expire_on_commit is off,
\* and a later select does not refresh them) and writes a column when the new value
\* differs from the one it loaded.
Written(t, old, new) == IF old = new THEN review[t].status ELSE new
\* A reset that loaded the task before another request began to work on it.
Slips(T, seen) == {t \in T : seen[t] = "todo" /\ review[t].status # "todo"}
Reset(T, seen) ==
  [t \in Reviews |-> IF t \in T /\ seen[t] # "todo" THEN [status |-> "todo", corpus |-> {}]
                     ELSE review[t]]

\* Rows that an open transaction has deleted: who needs them waits for its end.
Held == UNION {ask[q].files : q \in {p \in Askers : ask[p].pc = "committing"}}
HeldChecks == UNION {ask[q].checks : q \in {p \in Askers : ask[p].pc = "committing"}}

\* Deleted document rows take their document_run_files along.
Dropped(fs, rs) ==
  /\ doc' = [f \in Files |-> IF f \in fs THEN [doc[f] EXCEPT !.row = "deleted"] ELSE doc[f]]
  /\ analysis' = [r \in Analyses |-> IF r \in rs THEN [NoCheck EXCEPT !.status = "deleted"]
                                ELSE [analysis[r] EXCEPT !.files = @ \ fs]]

\* The next run of the table.
NewCheck(r) == analysis[r].status = "none" /\ \A p \in 1 .. r - 1 : analysis[p].status # "none"
CheckOf(t, kind, fs) == [status |-> "queued", kind |-> kind, task |-> t, files |-> fs, read |-> {}]

Becomes(q, record) == ask' = [ask EXCEPT ![q] = record]
Goes(q, pc) == Becomes(q, [ask[q] EXCEPT !.pc = pc])
Ends(q) == Becomes(q, NoAsk)
Begins(q, op, t, fs, pc) ==
  /\ ask[q].pc = "idle" /\ asks < MaxAsks /\ asks' = asks + 1
  /\ Becomes(q, [NoAsk EXCEPT !.op = op, !.task = t, !.files = fs, !.pc = pc,
                              !.seen = [u \in Reviews |-> review[u].status]])
Histories == <<torn, excused, slipped>>
\* An analysis of the task is active besides these.
Analysed(t, but) == \E r \in Analyses \ but : ActiveCheck(r) /\ analysis[r].task = t
\* Tasks whose next verdict need not be about all of their documents.
Excuse(T) == excused' = excused \cup (T \ {"none"})

-----------------------------------------------------------------------------
(* Uploads.                                                                 *)

\* upload_task_documents: not while the task is analysed.
BeginUpload(q, t) ==
  /\ review[t].status # "in_progress"
  /\ Begins(q, "upload", t, {}, "saving")
  /\ UNCHANGED <<disk, doc, review, analysis, Histories>>

\* upload_phase_documents: one batch at a time, and no task in progress; a batch of
\* the remediation phase waits for the retests of documents.
BeginBatch(q, op) ==
  /\ op \in {"batch", "rebatch"}
  /\ \A r \in Analyses : ActiveCheck(r) => analysis[r].kind \notin {"sorts", "resorts"}
  /\ \A t \in Reviews : review[t].status # "in_progress"
  /\ op = "rebatch" => \A r \in Analyses : ActiveCheck(r) => analysis[r].kind # "retest"
  /\ Begins(q, op, "none", {}, "saving")
  /\ UNCHANGED <<disk, doc, review, analysis, Histories>>

\* document_verification, for a finding that an earlier verdict has opened: the user
\* names the documents that are replaced.
BeginRetest(q, t, fs) ==
  /\ review[t].status \in {"completed", "failed"} /\ fs \subseteq ActiveOf(t)
  /\ Begins(q, "retest", t, fs, "saving")
  /\ UNCHANGED <<disk, doc, review, analysis, Histories>>

\* upload_evidence: a file for a finding or for an answer.
BeginAttach(q) ==
  /\ Begins(q, "attach", "none", {}, "saving")
  /\ UNCHANGED <<disk, doc, review, analysis, Histories>>

\* reanalyze_task_documents does not look at the task.
BeginAnalyze(q, t) ==
  /\ ActiveOf(t) # {}
  /\ Begins(q, "analyze", t, {}, "queueing")
  /\ UNCHANGED <<disk, doc, review, analysis, Histories>>

\* Whose documents an upload is compared with (a retest is compared when it stores the
\* file; the versions it replaces do not count).
Twins(q, c) ==
  LET a == ask[q]
      among == CASE a.op = "upload" -> ActiveOf(a.task)
                 [] a.op \in {"batch", "rebatch"} -> {f \in Documents : doc[f].row = "active"}
                 [] a.op = "retest" -> ActiveOf(a.task) \ a.files
                 [] a.op = "attach" -> {}
  IN  {f \in among : doc[f].content = c}

\* save_file finds a path of its own.
Unused(f) == doc[f].row = "none" /\ f \notin disk /\ \A q \in Askers : ask[q].file # f
MutantStored(q, c, f) ==
  LET a == ask[q]
  IN  IF Twins(q, c) = {}
      THEN /\ disk' = disk \cup {f}
           /\ doc' = [doc EXCEPT ![f] = [@ EXCEPT !.content = c]]
           /\ Becomes(q, [a EXCEPT !.file = f, !.pc = "recording"])
      ELSE /\ disk' = disk \ Twins(q, c)
           /\ \E twin \in Twins(q, c) :
                Becomes(q, [a EXCEPT !.file = twin,
                              !.pc = IF a.op = "retest" THEN "recording" ELSE "queueing"])
           /\ UNCHANGED doc
\* The file is written first; one that the project already has is deleted again, and
\* the row of the other stands for it.
Stored(q, c, f) ==
  LET a == ask[q]
  IN  IF Twins(q, c) = {}
      THEN /\ disk' = disk \cup {f}
           /\ doc' = [doc EXCEPT ![f] = [@ EXCEPT !.content = c]]
           /\ Becomes(q, [a EXCEPT !.file = f, !.pc = "recording"])
      ELSE /\ \E twin \in Twins(q, c) :
                Becomes(q, [a EXCEPT !.file = twin,
                              !.pc = IF a.op = "retest" THEN "recording" ELSE "queueing"])
           /\ UNCHANGED <<disk, doc>>
Save(q) ==
  /\ ask[q].pc = "saving"
  /\ \E c \in Contents : \E f \in {g \in Files : Unused(g) /\ \A h \in 1 .. g - 1 : ~Unused(h)} :
       Stored(q, c, f)
  /\ UNCHANGED <<review, analysis, asks, Histories>>

\* Whom a new row belongs to.
Recorded(q, of) == [doc EXCEPT ![ask[q].file] = [@ EXCEPT !.row = "active", !.of = of]]

\* The row is committed; the run is created in a transaction of its own.
Record(q) ==
  /\ ask[q].pc = "recording" /\ ask[q].op \in {"upload", "batch", "rebatch"}
  /\ doc' = Recorded(q, IF ask[q].op = "upload" THEN ask[q].task ELSE "unsorted")
  /\ Goes(q, "queueing")
  /\ UNCHANGED <<disk, review, analysis, asks, Histories>>

RecordAttachment(q) ==
  /\ ask[q].pc = "recording" /\ ask[q].op = "attach"
  /\ \E of \in {"finding", "answer"} : doc' = Recorded(q, of)
  /\ Ends(q)
  /\ UNCHANGED <<disk, review, analysis, asks, Histories>>

\* queue_document_task_verification: the rows and the run of a retest are committed
\* together.
RecordRetest(q) ==
  LET a == ask[q]
      twin == doc[a.file].row # "none"
      rows == [f \in Files |->
                 IF f \in a.files THEN [doc[f] EXCEPT !.row = "replaced"]
                 ELSE IF f = a.file /\ ~twin THEN [doc[f] EXCEPT !.row = "active", !.of = a.task]
                 ELSE doc[f]]
      fs == {f \in Files : rows[f].row = "active" /\ rows[f].of = a.task}
  IN  /\ a.pc = "recording" /\ a.op = "retest" /\ (a.files \cup {a.file} \cup fs) \cap Held = {}
      /\ fs # {} /\ \A f \in a.files : doc[f].row # "deleted"
      /\ \E r \in Analyses : NewCheck(r) /\ analysis' = [analysis EXCEPT ![r] = CheckOf(a.task, "retest", fs)]
      /\ doc' = rows
      /\ Ends(q)
      \* a batch has given a document to another task meanwhile
      /\ excused' = excused \cup {t \in Reviews \ {a.task} : a.files \cap ActiveOf(t) # {}}
      /\ UNCHANGED <<disk, review, asks, torn, slipped>>

\* The task has no open finding left, or a document to be replaced is gone: nothing is
\* committed, and the file stays.
RefuseRetest(q) ==
  /\ ask[q].pc = "recording" /\ ask[q].op = "retest"
  /\ Ends(q)
  /\ UNCHANGED <<disk, doc, review, analysis, asks, Histories>>

\* create_document_run and create_document_batch_run: over the documents the task has
\* by now; without any, or when the document of a batch was deleted, they raise.
Queue(q) ==
  LET a == ask[q]
      fs == IF a.op \in {"batch", "rebatch"} THEN {f \in {a.file} : Stands(f)} ELSE ActiveOf(a.task)
      kind == CASE a.op = "batch" -> "sorts" [] a.op = "rebatch" -> "resorts" [] OTHER -> "check"
  IN  /\ a.pc = "queueing" /\ fs \cap Held = {}
      /\ IF fs = {} THEN UNCHANGED <<analysis, review>>
         ELSE /\ \E r \in Analyses :
                   NewCheck(r) /\ analysis' = [analysis EXCEPT ![r] = CheckOf(a.task, kind, fs)]
              /\ review' = [t \in Reviews |->
                              IF t # a.task THEN review[t]
                              ELSE [status |-> Written(t, a.seen[t], "in_progress"), corpus |-> {}]]
      /\ Ends(q)
      /\ UNCHANGED <<disk, doc, asks, Histories>>

-----------------------------------------------------------------------------
(* Deletions of one file: the file goes first, then the row.                *)

\* delete_task_document: not while the task or a run works on the document.
BeginDelete(q, t, f) ==
  /\ review[t].status # "in_progress" /\ f \in ActiveOf(t)
  /\ \A r \in Analyses : ActiveCheck(r) => f \notin analysis[r].files
  /\ Begins(q, "delete", t, {f}, "unlinking")
  /\ UNCHANGED <<disk, doc, review, analysis, Histories>>

\* delete_evidence.
BeginDetach(q, f) ==
  /\ Stands(f) /\ doc[f].of \in {"finding", "answer"}
  /\ Begins(q, "detach", "none", {f}, "unlinking")
  /\ UNCHANGED <<disk, doc, review, analysis, Histories>>

Unlink(q) ==
  /\ ask[q].pc = "unlinking"
  /\ disk' = disk \ ask[q].files /\ torn' = torn \cup ask[q].files
  /\ Goes(q, "dropping")
  /\ UNCHANGED <<doc, review, analysis, asks, excused, slipped>>

\* The rest of the documents is analysed again; a task without any is reset.  A row
\* that somebody else has deleted ends the request.
Drop(q) ==
  LET a == ask[q]
  IN  /\ a.pc = "dropping" /\ a.files \cap Held = {}
      /\ IF \A f \in a.files : Stands(f)
         THEN /\ Dropped(a.files, {})
              /\ IF a.op = "detach" THEN Ends(q)
                 ELSE Becomes(q, [a EXCEPT !.files = {},
                                    !.pc = IF ActiveOf(a.task) \ a.files = {} THEN "erasing" ELSE "queueing"])
         ELSE Ends(q) /\ UNCHANGED <<doc, analysis>>
      /\ torn' = torn \ a.files
      \* a batch has moved the document meanwhile
      /\ excused' = excused \cup {t \in Reviews \ {a.task} : a.files \cap ActiveOf(t) # {}}
      /\ UNCHANGED <<disk, review, asks, slipped>>

-----------------------------------------------------------------------------
(* Resets of a task and of a phase: the rows are deleted, then the files, and  *)
(* the transaction commits last.                                            *)

\* POST /tasks/{id}/reset, for a task that is not in progress.
BeginReset(q, t) ==
  /\ review[t].status # "in_progress"
  /\ Begins(q, "reset", t, {}, "erasing")
  /\ UNCHANGED <<disk, doc, review, analysis, Histories>>

\* POST /phases/{id}/restart, whatever its tasks do.
BeginRestart(q) ==
  /\ Begins(q, "restart", "none", {}, "erasing")
  /\ UNCHANGED <<disk, doc, review, analysis, Histories>>

Scope(q) == IF ask[q].task = "none" THEN Reviews ELSE {ask[q].task}

\* reset_task and restart_phase: the documents of the tasks, replaced versions
\* included, their runs, and the batches these documents came with (all of the phase).
Erase(q) ==
  LET fs == {f \in Documents : doc[f].of \in Scope(q)}
      rs == {r \in Analyses :
               /\ analysis[r].status \notin {"none", "deleted"}
               /\ \/ ask[q].op = "restart" \/ analysis[r].task \in Scope(q)
                  \/ analysis[r].kind \in {"sorts", "resorts"} /\ analysis[r].files \cap fs # {}}
  IN  /\ ask[q].pc = "erasing" /\ fs \cap Held = {} /\ rs \cap HeldChecks = {}
      /\ disk' = disk \ fs /\ torn' = torn \cup fs
      /\ Becomes(q, [ask[q] EXCEPT !.files = fs, !.checks = rs, !.pc = "committing"])
      /\ UNCHANGED <<doc, review, analysis, asks, excused, slipped>>

Commit(q) ==
  /\ ask[q].pc = "committing"
  /\ Dropped(ask[q].files, ask[q].checks)
  /\ review' = Reset(Scope(q), ask[q].seen)
  /\ torn' = torn \ ask[q].files
  /\ slipped' = slipped \cup Slips(Scope(q), ask[q].seen)
  /\ excused' = excused \ {t \in Scope(q) : ask[q].seen[t] # "todo" /\ ~Analysed(t, ask[q].checks)}
  /\ Ends(q)
  /\ UNCHANGED <<disk, asks>>

-----------------------------------------------------------------------------
(* Clearing, resetting an assessment, deleting a project or scan results: the *)
(* rows are deleted and committed, then the files that were read before.    *)

\* clear_project_documents, delete_project_records: not while an analysis is active.
\* The attachments of findings go with the findings they belong to.
BeginClear(q, fs) ==
  /\ \A r \in Analyses : ~ActiveCheck(r)
  /\ fs \subseteq Attachments
  /\ Begins(q, "clear", "none", Documents \cup fs, "purging")
  /\ UNCHANGED <<disk, doc, review, analysis, Histories>>

BeginRemove(q) ==
  /\ \A r \in Analyses : ~ActiveCheck(r)
  /\ Begins(q, "remove", "none", {f \in Files : Stands(f)}, "purging")
  /\ UNCHANGED <<disk, doc, review, analysis, Histories>>

\* _delete_scan_records: the findings of some scans, and their evidence.
BeginDiscard(q, fs) ==
  /\ fs # {} /\ fs \subseteq Attachments
  /\ Begins(q, "discard", "none", fs, "purging")
  /\ UNCHANGED <<disk, doc, review, analysis, Histories>>

\* restart_assessment: _cancel_assessment_jobs commits first; then the tasks and the
\* paths are read.
BeginWipe(q) ==
  /\ HeldChecks = {}
  /\ ask[q].pc = "idle" /\ asks < MaxAsks /\ asks' = asks + 1
  /\ analysis' = [r \in Analyses |-> IF ActiveCheck(r) THEN [analysis[r] EXCEPT !.status = "ended"] ELSE analysis[r]]
  /\ review' = [t \in Reviews |-> IF review[t].status = "in_progress"
                                  THEN [status |-> "failed", corpus |-> {}] ELSE review[t]]
  /\ Becomes(q, [NoAsk EXCEPT !.op = "wipe", !.files = Documents \cup Attachments, !.pc = "purging",
                              !.seen = [t \in Reviews |-> review'[t].status]])
  /\ Excuse({analysis[r].task : r \in {p \in Analyses : ActiveCheck(p)}})
  /\ UNCHANGED <<disk, doc, torn, slipped>>

\* The rows that exist by now are deleted, whether their paths were read or not.
Doomed(q) ==
  LET a == ask[q]
  IN  CASE a.op = "clear" -> Documents \cup {f \in a.files : Stands(f)}
        [] a.op = "remove" -> {f \in Files : Stands(f)}
        [] a.op = "wipe" -> Documents \cup Attachments
        [] a.op = "discard" -> {f \in a.files : Stands(f)}

\* Requests on rows that are gone fail at their next statement, except that a
\* document whose file is unlinked still loses its row.
Fails(p, q) ==
  IF p = q THEN [ask[q] EXCEPT !.pc = "cleaning"]
  ELSE IF ask[p].op \in {"clear", "discard", "wipe", "remove"} \/ ask[p].pc = "idle" THEN ask[p]
  ELSE IF ask[p].pc \in {"unlinking", "dropping"} THEN [ask[p] EXCEPT !.op = "detach", !.task = "none"]
  ELSE NoAsk

Purge(q) ==
  LET a == ask[q]
      T == IF a.op = "discard" THEN {} ELSE Reviews
  IN  /\ a.pc = "purging" /\ Held = {} /\ HeldChecks = {}
      /\ Dropped(Doomed(q), {r \in Analyses : T # {} /\ analysis[r].status # "none"})
      /\ IF a.op = "remove"
         THEN /\ review' = [t \in Reviews |-> [status |-> "todo", corpus |-> {}]]
              /\ ask' = [p \in Askers |-> Fails(p, q)]
              /\ excused' = {} /\ slipped' = {}
         ELSE /\ review' = Reset(T, a.seen)
              /\ Goes(q, "cleaning")
              /\ excused' = excused \ {t \in T : a.seen[t] # "todo"}
              /\ slipped' = slipped \cup Slips(T, a.seen)
      /\ UNCHANGED <<disk, asks, torn>>

\* delete_storage_files, _finish_file_cleanup.
Clean(q) ==
  /\ ask[q].pc = "cleaning"
  /\ disk' = disk \ ask[q].files
  /\ IF ask[q].op = "wipe" THEN Goes(q, "rebuilding") ELSE Ends(q)
  /\ UNCHANGED <<doc, review, analysis, asks, Histories>>

\* _rebuild_assessment_structure: the tasks are new rows, and what was stored for the
\* old ones meanwhile belongs to none.
Rebuild(q) ==
  /\ ask[q].pc = "rebuilding" /\ Held = {} /\ HeldChecks = {}
  /\ doc' = [f \in Files |-> IF doc[f].of \in Reviews THEN [doc[f] EXCEPT !.of = "unsorted"] ELSE doc[f]]
  /\ analysis' = [r \in Analyses |-> IF analysis[r].status = "none" THEN analysis[r]
                                ELSE [NoCheck EXCEPT !.status = "deleted"]]
  /\ review' = [t \in Reviews |-> [status |-> "todo", corpus |-> {}]]
  /\ ask' = [p \in Askers |-> IF p = q \/ ask[p].op = "attach" THEN (IF p = q THEN NoAsk ELSE ask[p])
                              ELSE Fails(p, q)]
  /\ excused' = {} /\ slipped' = {}
  /\ UNCHANGED <<disk, asks, torn>>

-----------------------------------------------------------------------------
(* The worker.                                                              *)

MutantStart(r) ==
  /\ analysis[r].status = "queued" /\ r \notin HeldChecks
  /\ \A p \in Analyses : analysis[p].status \notin {"running", "sorting"}
  /\ analysis' = [analysis EXCEPT ![r] = [@ EXCEPT !.status = "running",
                                             !.read = {f \in analysis[r].files : doc[f].row = "active"}]]
  /\ UNCHANGED <<disk, doc, review, ask, asks, Histories>>
\* Runs are processed one by one, oldest first, over the documents that are still current.
Start(r) ==
  /\ analysis[r].status = "queued" /\ r \notin HeldChecks
  /\ \A p \in Analyses : analysis[p].status \notin {"running", "sorting"}
  /\ \A p \in 1 .. r - 1 : analysis[p].status # "queued"
  /\ analysis' = [analysis EXCEPT ![r] = [@ EXCEPT !.status = "running",
                                             !.read = {f \in analysis[r].files : doc[f].row = "active"}]]
  /\ UNCHANGED <<disk, doc, review, ask, asks, Histories>>

Doing(r, kinds) == analysis[r].status = "running" /\ analysis[r].kind \in kinds /\ r \notin HeldChecks
Closed(r) == [analysis EXCEPT ![r] = [@ EXCEPT !.status = "ended"]]
Verdict(t, status, fs) == [review EXCEPT ![t] = [status |-> status, corpus |-> fs]]

\* process_document_run: complete_task refuses a task that is neither in progress nor
\* completed, which fails the check; a retest writes its task without a test.
Judge(r) ==
  LET c == analysis[r]
      t == c.task
      accepted == c.kind = "retest" \/ review[t].status \in {"in_progress", "completed"}
  IN  /\ Doing(r, {"check", "retest"}) /\ c.read # {}
      /\ review' = IF accepted THEN Verdict(t, "completed", c.read) ELSE Verdict(t, "failed", {})
      /\ analysis' = Closed(r)
      /\ excused' = IF c.read = ActiveOf(t) /\ ~Analysed(t, {r}) THEN excused \ {t} ELSE excused
      /\ UNCHANGED <<disk, doc, ask, asks, torn, slipped>>

\* The documents could not all be read or judged.
CannotTell(r) ==
  /\ Doing(r, {"check", "retest"}) /\ analysis[r].read # {}
  /\ review' = Verdict(analysis[r].task, "failed", {})
  /\ analysis' = Closed(r)
  /\ UNCHANGED <<disk, doc, ask, asks, Histories>>

\* The analysis raises: a check fails its task, a retest leaves the old verdict.
Raise(r) ==
  LET t == analysis[r].task
  IN  /\ Doing(r, {"check", "retest", "sorts", "resorts"})
      /\ review' = IF analysis[r].kind = "check" THEN Verdict(t, "failed", {}) ELSE review
      /\ analysis' = Closed(r)
      /\ Excuse({t})
      /\ UNCHANGED <<disk, doc, ask, asks, torn, slipped>>

\* A batch of the remediation phase replaces the other documents of the task.
Older(kind, t, f) == {g \in ActiveOf(t) \ {f} : kind = "resorts" /\ t \in Reviews}
\* The rows once the document is given to a task.
SortedRows(kind, t, f) ==
  LET sorted == IF t = "unsorted" THEN doc ELSE [doc EXCEPT ![f] = [@ EXCEPT !.of = t]]
  IN  [g \in Files |-> IF g \in Older(kind, t, f) THEN [sorted[g] EXCEPT !.row = "replaced"] ELSE sorted[g]]
\* Batches of another phase fail the tasks without a document.
Unable(kind, t, readable, rows) ==
  IF kind = "resorts" THEN {}
  ELSE {u \in Reviews : \A g \in Files : ~(rows[g].row = "active" /\ rows[g].of = u)}
       \cup (IF readable THEN {} ELSE {t} \cap Reviews)
\* process_document_batch_run: the document is given to a task by its content, or by
\* its name when it cannot be read.
GivenTo(r, t, readable, f) ==
  LET kind == analysis[r].kind
  IN  /\ Older(kind, t, f) \cap Held = {}
      /\ doc' = SortedRows(kind, t, f)
      /\ review' = [u \in Reviews |-> IF u \in Unable(kind, t, readable, SortedRows(kind, t, f))
                                      THEN [status |-> "failed", corpus |-> {}] ELSE review[u]]
      /\ analysis' = [analysis EXCEPT ![r] =
                     [@ EXCEPT !.status = "sorting",
                               !.task = IF t \in Reviews /\ (readable \/ kind = "resorts") THEN t ELSE "none"]]
      \* who loses the document, and who gets one that cannot be read
      /\ excused' = excused \cup (({doc[f].of} \cap Reviews) \ {t})
                          \cup (IF readable THEN {} ELSE {t} \cap Reviews)
Sort(r) ==
  LET c == analysis[r]
  IN  /\ Doing(r, {"sorts", "resorts"}) /\ c.read \cap Held = {} /\ \A f \in c.read : Stands(f)
      /\ \E t \in Reviews \cup {"unsorted"}, readable \in BOOLEAN, f \in c.read : GivenTo(r, t, readable, f)
      /\ UNCHANGED <<disk, ask, asks, torn, slipped>>

\* It queues the analysis of the task, or its retest, unless no finding is open.
QueueSorted(r) ==
  LET t == analysis[r].task
      fs == ActiveOf(t)
      kind == IF analysis[r].kind = "sorts" THEN "check" ELSE "retest"
  IN  /\ analysis[r].status = "sorting" /\ r \notin HeldChecks /\ fs \cap Held = {}
      /\ \/ /\ fs # {}
            /\ kind = "retest" => review[t].status \in {"completed", "failed"}
            /\ \E p \in Analyses : NewCheck(p)
                 /\ analysis' = [Closed(r) EXCEPT ![p] = CheckOf(t, kind, fs)]
            /\ review' = IF kind = "check" THEN Verdict(t, "in_progress", {}) ELSE review
            /\ UNCHANGED excused
         \/ /\ fs = {} \/ kind = "retest"
            /\ analysis' = Closed(r)
            /\ UNCHANGED review /\ Excuse({t})
      /\ UNCHANGED <<disk, doc, ask, asks, torn, slipped>>

\* cancel_document_run fails the task if it is in progress.
Stop(r) ==
  LET t == analysis[r].task
  IN  /\ ActiveCheck(r) /\ r \notin HeldChecks
      /\ analysis' = Closed(r)
      /\ review' = [u \in Reviews |-> IF u = t /\ review[u].status = "in_progress"
                                      THEN [status |-> "failed", corpus |-> {}] ELSE review[u]]
      /\ Excuse({t})
      /\ UNCHANGED <<disk, doc, ask, asks, torn, slipped>>

\* The process that serves a request dies, or a statement of it fails: what it has
\* committed stays.
Die(q) ==
  /\ ask[q].pc # "idle"
  /\ Ends(q)
  /\ excused' = excused \cup {t \in Reviews : t = ask[q].task /\ ask[q].op \in {"upload", "delete"}
                                              /\ ask[q].pc \in {"queueing", "erasing", "committing"}}
  /\ UNCHANGED <<disk, doc, review, analysis, asks, torn, slipped>>

-----------------------------------------------------------------------------
Request(q) ==
  \/ BeginAttach(q) \/ BeginRestart(q) \/ BeginRemove(q) \/ BeginWipe(q)
  \/ \E op \in {"batch", "rebatch"} : BeginBatch(q, op)
  \/ \E t \in Reviews : BeginUpload(q, t) \/ BeginAnalyze(q, t) \/ BeginReset(q, t)
  \/ \E t \in Reviews, fs \in SUBSET Files : BeginRetest(q, t, fs)
  \/ \E t \in Reviews, f \in Files : BeginDelete(q, t, f)
  \/ \E f \in Files : BeginDetach(q, f)
  \/ \E fs \in SUBSET Files : BeginClear(q, fs) \/ BeginDiscard(q, fs)
Serve(q) ==
  \/ Save(q) \/ Record(q) \/ RecordAttachment(q) \/ RecordRetest(q) \/ RefuseRetest(q) \/ Queue(q)
  \/ Unlink(q) \/ Drop(q) \/ Erase(q) \/ Commit(q) \/ Purge(q) \/ Clean(q) \/ Rebuild(q)
Work(r) ==
  Start(r) \/ Judge(r) \/ CannotTell(r) \/ Raise(r) \/ Sort(r) \/ QueueSorted(r) \/ Stop(r)
MatNext ==
  \/ \E q \in Askers : Request(q) \/ Serve(q) \/ Die(q)
  \/ \E r \in Analyses : Work(r)
MatSpec == MatInit /\ [][MatNext]_matVars

-----------------------------------------------------------------------------
MatTypeOK ==
  /\ disk \subseteq Files /\ torn \subseteq Files
  /\ doc \in [Files -> FileRow]
  /\ review \in [Reviews -> [status : ReviewStatus, corpus : SUBSET Files]]
  /\ analysis \in [Analyses -> CheckRow]
  /\ ask \in [Askers -> AskRow]
  /\ asks \in 0 .. MaxAsks
  /\ excused \subseteq Reviews /\ slipped \subseteq Reviews

\* A row in the database has its file on the disk, unless a deletion that unlinks
\* first is between the two (or ended there): no duplicate, clearing, reset, batch or
\* failure of another request takes a file away from a row that stays.
RowsHaveFiles == \A f \in Files : Stands(f) => f \in disk \cup torn

\* Requests that have changed the documents of a task and not yet queued what follows.
Unfinished(t) ==
  \/ \E q \in Askers : ask[q].task = t /\ ask[q].pc \in {"queueing", "erasing", "committing"}
  \/ \E r \in Analyses : ActiveCheck(r) /\ analysis[r].task = t

\* The verdict of a completed task is about the documents the task has now, once no
\* request or analysis of it is under way.  Excused is a task whose upload or deletion
\* died before it queued the analysis, whose retest or second analysis was stopped,
\* failed or was refused, that lost a document to another task in a batch, or whose
\* document a retest of another task, begun before it had the document, has replaced.
VerdictCoversDocuments ==
  \A t \in Reviews :
    review[t].status = "completed" /\ ~Unfinished(t) /\ t \notin excused \cup slipped
      => review[t].corpus = ActiveOf(t)

\* A task in progress has an analysis that is queued or running, also after resets and
\* clearings of runs, except when the reset had loaded the task before the analysis was
\* queued, and so did not write its status.
ResetsStrandNoTask ==
  \A t \in Reviews : review[t].status = "in_progress" /\ t \notin slipped
    => \E r \in Analyses : ActiveCheck(r) /\ analysis[r].task = t

\* What a task of documents says it is, completed or in progress, is so: a verdict on the
\* documents it has, or an analysis of them under way.
TaskStatusStands == VerdictCoversDocuments /\ ResetsStrandNoTask
=============================================================================
