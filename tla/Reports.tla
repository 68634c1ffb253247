------------------------------ MODULE Reports ------------------------------
(***************************************************************************)
(* The report versions of one assessment: report_service.py with the       *)
(* requests that generate, delete and invalidate them (api/assessments.py, *)
(* execution_engine.py, api/projects.py) and the work that changes what a  *)
(* report says: technical checks, document checks, retests, promotions.    *)
(*                                                                         *)
(* Sessions are READ COMMITTED transactions.  A technical check or retest        *)
(* flushes its invalidation when its execution begins and commits it when  *)
(* the execution ends: `hit' is what it marked and keeps locked meanwhile. *)
(* Contents are abstracted to `missed', the work whose results a version   *)
(* does not contain, and `lap', the work begun after the version's last    *)
(* readiness check and before its commit.                                  *)
(***************************************************************************)
EXTENDS Integers, FiniteSetsExt

CONSTANTS
  Generators,   \* requests for a report
  Assistants,   \* those of them that come from the chat
  Checks,       \* failed technical checks of the field phase, to be run again
  DocChecks,    \* document checks, to be run again on new material
  TechRetests,  \* retests of a technical finding, one finding each
  DocRetests,   \* retests of a document finding, one finding each
  Promotions,   \* findings of independent scans, to be taken into the assessment
  MaxVersions   \* bound on the version numbers

\* A piece of work is of one kind.
ASSUME ReportAssumption ==
  /\ MaxVersions \in Nat
  /\ Checks \cap DocChecks = {} /\ TechRetests \cap DocRetests = {}
  /\ (Checks \cup DocChecks) \cap (TechRetests \cup DocRetests) = {}

Retests == TechRetests \cup DocRetests
Versions == 1..MaxVersions

VARIABLES
  versions,      \* ReportArtifact by version: status, and what it has missed
  counter,   \* Project.report_version_counter
  flow,      \* the last two phases and the report task
  gen,       \* the generating requests
  task_status,     \* status of the tasks of Checks and DocChecks
  retest,    \* VerificationRun, its item, its finding, its document run
  hit,       \* versions marked stale by an uncommitted execution
  extra,     \* findings nobody has reviewed, of checks and promotions
  removed    \* history: the current version was deleted
repVars == <<versions, counter, flow, gen, task_status, retest, hit, extra, removed>>

NoVersion == [status |-> "none", lap |-> {}, missed |-> {}]
IdleGen == [pc |-> "idle", version |-> 0, lap |-> {}, missed |-> {}]

RepInit ==
  /\ versions = [v \in Versions |-> NoVersion]
  /\ counter = 0
  /\ flow = [remediation |-> "active", final |-> FALSE, report |-> "pending", task |-> "todo"]
  /\ gen = [g \in Generators |-> IdleGen]
  /\ task_status = [c \in Checks \cup DocChecks |-> IF c \in Checks THEN "failed" ELSE "completed"]
  /\ retest = [w \in Retests |-> [run |-> "none", item |-> "none", finding |-> "open", doc |-> "none",
                             resumed |-> FALSE]]
  /\ hit = [x \in Checks \cup TechRetests |-> {}]
  /\ extra = {} /\ removed = FALSE

-----------------------------------------------------------------------------
(* invalidate_report_artifacts                                              *)

CurrentOnes(vs) == {v \in Versions : vs[v].status = "current"}

Invalidated(vs) ==
  [v \in Versions |-> IF vs[v].status = "current" THEN [vs[v] EXCEPT !.status = "stale"] ELSE vs[v]]

\* reopen_phase: only when a version was current.
MutantReopened(f, marked) == f
Reopened(f, marked) ==
  IF marked = {} THEN f ELSE [f EXCEPT !.report = "active", !.task = "todo"]

\* An uncommitted UPDATE of the current version by another session: writers wait for it.
LockedFor(x) == \E y \in DOMAIN hit \ {x} : hit[y] # {}
RowLocked == \E y \in DOMAIN hit : hit[y] # {}

-----------------------------------------------------------------------------
(* What a report has missed.                                                *)

\* Work x begins: a generation past its last check could not see it.
Begun(x, gs) ==
  [g \in Generators |-> IF gs[g].pc \in {"locked", "drawn"} THEN [gs[g] EXCEPT !.lap = @ \cup {x}] ELSE gs[g]]
\* The results of x are committed.
Told(x, r) == IF x \in r.lap THEN r ELSE [r EXCEPT !.missed = @ \cup {x}]
ToldRows(x, vs) == [v \in Versions |-> IF vs[v].status = "current" THEN Told(x, vs[v]) ELSE vs[v]]
ToldGens(x, gs) == [g \in Generators |-> IF gs[g].pc = "drawn" THEN Told(x, gs[g]) ELSE gs[g]]

-----------------------------------------------------------------------------
(* reconcile_verification_phase, both earlier phases being completed.       *)

ActiveRun(rt) == \E w \in Retests : rt[w].run \in {"queued", "running"}
Reviewed(r) == r.finding = "fixed" \/ r.item \in {"fixed", "still_present", "unable"}
AllReviewed(rt, ck, ex) ==
  /\ \A w \in Retests : Reviewed(rt[w])
  /\ ex = {}
  /\ \A c \in Checks : ck[c] # "failed"   \* execution_blockers

MustWait(f, rt, ck, ex) == ActiveRun(rt) \/ ~(f.final \/ AllReviewed(rt, ck, ex))

Reconciled(f, rt, ck, ex) ==
  LET g == [f EXCEPT !.final = @ /\ ~ActiveRun(rt)]
  IN  IF MustWait(f, rt, ck, ex)
      THEN [g EXCEPT !.remediation = "active", !.report = "pending", !.task = "todo"]
      ELSE [g EXCEPT !.remediation = "completed", !.report = IF @ = "pending" THEN "active" ELSE @]
\* What x writes to rows that another session holds waits for that session.
Writes(x, f, vs) ==
  /\ flow' = f /\ versions' = vs
  /\ LockedFor(x) => /\ f.report = flow.report /\ f.task = flow.task
                     /\ CurrentOnes(vs) = CurrentOnes(versions)
Reconciles(x, f, vs, rt, ck, ex) ==
  Writes(x, Reconciled(f, rt, ck, ex), IF MustWait(f, rt, ck, ex) THEN Invalidated(vs) ELSE vs)

-----------------------------------------------------------------------------
(* Generation: start_task of the report task, from the API or the chat.     *)

\* ensure_report_generation_ready
ReportReady ==
  /\ flow.remediation = "completed"
  /\ \A c \in DOMAIN task_status : task_status[c] \notin {"in_progress", "executing"}
  /\ ~ActiveRun(retest)
  /\ \A w \in DocRetests : retest[w].doc # "running"

Generating(g) == gen[g].pc \in {"locked", "drawn"}

CheckReady(g) ==
  /\ gen[g].pc = "idle" /\ ReportReady
  /\ flow.task \in {"todo", "failed"}
  /\ g \in Assistants => flow.report = "active" /\ flow.task = "todo"
  /\ gen' = [gen EXCEPT ![g].pc = "checked"]
  /\ UNCHANGED <<versions, counter, flow, task_status, retest, hit, extra, removed>>

\* start_task: on the task as it was loaded with the request.
StartReport(g) ==
  /\ gen[g].pc = "checked" /\ ~RowLocked
  /\ gen' = [gen EXCEPT ![g].pc = "started"]
  /\ flow' = [flow EXCEPT !.task = "in_progress", !.report = IF @ = "pending" THEN "active" ELSE @]
  /\ UNCHANGED <<versions, counter, task_status, retest, hit, extra, removed>>

Existing == {v \in Versions : versions[v].status # "none"}
NextVersion == Max(Existing \cup {0, counter}) + 1

\* The second readiness check, then the project row locked and a number taken.
TakeVersion(g) ==
  /\ gen[g].pc = "started" /\ ReportReady /\ NextVersion \in Versions
  /\ \A h \in Generators : ~Generating(h)
  /\ gen' = [gen EXCEPT ![g] = [IdleGen EXCEPT !.pc = "locked", !.version = NextVersion]]
  /\ UNCHANGED <<versions, counter, flow, task_status, retest, hit, extra, removed>>

\* generate_json_report
Draw(g) ==
  /\ gen[g].pc = "locked"
  /\ gen' = [gen EXCEPT ![g].pc = "drawn"]
  /\ UNCHANGED <<versions, counter, flow, task_status, retest, hit, extra, removed>>

\* The rest of create_report_artifact, complete_task and the commit.
Published(v, row, vs) == [Invalidated(vs) EXCEPT ![v] = row]
Publish(g) ==
  /\ gen[g].pc = "drawn" /\ ~RowLocked
  /\ versions' = Published(gen[g].version,
                       [status |-> "current", lap |-> gen[g].lap, missed |-> gen[g].missed], versions)
  /\ counter' = gen[g].version
  /\ flow' = [flow EXCEPT !.task = "completed", !.report = "completed"]
  /\ gen' = [gen EXCEPT ![g] = IdleGen]
  /\ removed' = FALSE
  /\ UNCHANGED <<task_status, retest, hit, extra>>

\* Any exception: rolled back, and the task is to do again.
GenerationFails(g) ==
  /\ gen[g].pc \in {"started", "locked", "drawn"}
  /\ flow.task = "in_progress" => ~RowLocked
  /\ gen' = [gen EXCEPT ![g] = IdleGen]
  /\ flow' = [flow EXCEPT !.task = IF @ = "in_progress" THEN "todo" ELSE @]
  /\ UNCHANGED <<versions, counter, task_status, retest, hit, extra, removed>>

\* The API process dies: the task stays in progress until somebody stops it.
GenerationDies(g) ==
  /\ gen[g].pc \in {"started", "locked", "drawn"}
  /\ gen' = [gen EXCEPT ![g] = IdleGen]
  /\ UNCHANGED <<versions, counter, flow, task_status, retest, hit, extra, removed>>
StopReport ==
  /\ flow.task = "in_progress" /\ ~RowLocked
  /\ flow' = [flow EXCEPT !.task = "failed"]
  /\ UNCHANGED <<versions, counter, gen, task_status, retest, hit, extra, removed>>

\* delete_report_versions
DeleteVersions(vs) ==
  /\ vs # {} /\ vs \subseteq Existing /\ ~RowLocked
  /\ versions' = [v \in Versions |-> IF v \in vs THEN NoVersion ELSE versions[v]]
  /\ counter' = Max(vs \cup {counter})
  /\ removed' = (removed \/ vs \cap CurrentOnes(versions) # {})
  /\ UNCHANGED <<flow, gen, task_status, retest, hit, extra>>

-----------------------------------------------------------------------------
(* Technical and document checks.                                           *)

StartCheck(c) ==
  /\ task_status[c] = "failed"
  /\ task_status' = [task_status EXCEPT ![c] = "in_progress"]
  /\ gen' = Begun(c, gen)
  /\ UNCHANGED <<versions, counter, flow, retest, hit, extra, removed>>

\* execute_task up to the first tool: the invalidation is flushed, not committed.
BeginCheck(c) ==
  /\ task_status[c] = "in_progress" /\ (CurrentOnes(versions) # {} => ~RowLocked)
  /\ task_status' = [task_status EXCEPT ![c] = "executing"]
  /\ hit' = [hit EXCEPT ![c] = CurrentOnes(versions)]
  /\ UNCHANGED <<versions, counter, flow, gen, retest, extra, removed>>

Marked(vs, marked) == [v \in Versions |-> IF v \in marked THEN [vs[v] EXCEPT !.status = "stale"] ELSE vs[v]]

\* The results are committed, and the worker reconciles the phases.
EndCheck(c, found) ==
  LET ck == [task_status EXCEPT ![c] = "completed"]
      ex == IF found THEN extra \cup {c} ELSE extra
  IN  /\ task_status[c] = "executing"
      /\ task_status' = ck /\ extra' = ex
      /\ hit' = [hit EXCEPT ![c] = {}]
      /\ gen' = ToldGens(c, gen)
      /\ Reconciles(c, Reopened(flow, hit[c]), ToldRows(c, Marked(versions, hit[c])), retest, ck, ex)
      /\ UNCHANGED <<counter, retest, removed>>

\* create_document_run, after an upload
CreateDocumentRun(c) ==
  /\ task_status[c] = "completed"
  /\ task_status' = [task_status EXCEPT ![c] = "in_progress"]
  /\ Writes(c, Reopened(flow, CurrentOnes(versions)), Invalidated(versions))
  /\ gen' = Begun(c, gen)
  /\ UNCHANGED <<counter, retest, hit, extra, removed>>
EndDocumentRun(c) ==
  /\ task_status[c] = "in_progress"
  /\ task_status' = [task_status EXCEPT ![c] = "analysed"]
  /\ versions' = ToldRows(c, versions) /\ gen' = ToldGens(c, gen)
  /\ UNCHANGED <<counter, flow, retest, hit, extra, removed>>

\* promote_independent_issue
Promote(p) ==
  /\ p \notin extra
  /\ extra' = extra \cup {p}
  /\ gen' = ToldGens(p, Begun(p, gen))
  /\ Reconciles(p, Reopened(flow, CurrentOnes(versions)), ToldRows(p, Invalidated(versions)), retest, task_status, extra')
  /\ UNCHANGED <<counter, task_status, retest, hit, removed>>

-----------------------------------------------------------------------------
(* Retests.                                                                 *)

Put(w, r) == [retest EXCEPT ![w] = r]

\* create_verification_run; for a document also the analysis run behind it.
CreateRun(w) ==
  LET rt == Put(w, [retest[w] EXCEPT !.run = "queued", !.item = "queued",
                                     !.doc = IF w \in DocRetests THEN "running" ELSE "none"])
  IN  /\ retest[w].run = "none"
      /\ retest' = rt
      /\ gen' = Begun(w, gen)
      /\ Reconciles(w, Reopened(flow, CurrentOnes(versions)), Invalidated(versions), rt, task_status, extra)
      /\ UNCHANGED <<counter, task_status, hit, extra, removed>>

\* The worker takes it; a technical one begins to execute.
BeginRun(w) ==
  /\ retest[w].run = "queued"
  /\ retest' = Put(w, [retest[w] EXCEPT !.run = "running"])
  /\ IF w \in DocRetests THEN UNCHANGED hit
     ELSE (CurrentOnes(versions) # {} => ~RowLocked) /\ hit' = [hit EXCEPT ![w] = CurrentOnes(versions)]
  /\ UNCHANGED <<versions, counter, flow, gen, task_status, extra, removed>>

DocumentEnds(w) ==
  /\ retest[w].doc = "running"
  /\ \E d \in {"pass", "fail", "failed", "cancelled"} : retest' = Put(w, [retest[w] EXCEPT !.doc = d])
  /\ UNCHANGED <<versions, counter, flow, gen, task_status, hit, extra, removed>>

\* _process_document_items: the verdict of the analysis.
OutcomesOf(w) ==
  IF w \in TechRetests THEN {"fixed", "still_present", "unable"}
  ELSE CASE retest[w].doc = "pass" -> {"fixed"}
         [] retest[w].doc = "fail" -> {"still_present"}
         [] retest[w].doc = "failed" -> {"unable"}
         [] retest[w].doc = "cancelled" -> {"cancelled"}
         [] OTHER -> {}

\* apply_verification_outcome and finish_verification_run
EndRun(w, o) ==
  LET rt == Put(w, [retest[w] EXCEPT
                      !.run = IF o \in {"unable", "cancelled"} THEN "partial" ELSE "completed",
                      !.item = o, !.finding = IF o = "fixed" THEN "fixed" ELSE "open"])
      marked == IF w \in TechRetests THEN hit[w] ELSE {}
      x == IF w \in DocRetests /\ retest[w].resumed THEN <<w, "resumed">> ELSE w
  IN  /\ retest[w].run = "running" /\ o \in OutcomesOf(w)
      /\ hit' = [y \in DOMAIN hit |-> IF y = w THEN {} ELSE hit[y]]
      /\ retest' = rt
      /\ gen' = ToldGens(x, gen)
      /\ Reconciles(w, Reopened(flow, marked), ToldRows(x, Marked(versions, marked)), rt, task_status, extra)
      /\ UNCHANGED <<counter, task_status, extra, removed>>

\* stop_verification_run, as the worker meets the flag at its next claim.
StopRun(w) ==
  /\ retest[w].run \in {"queued", "running"}
  /\ w \in TechRetests => retest[w].run = "queued"
  /\ retest' = Put(w, [retest[w] EXCEPT !.run = "cancelled", !.item = "cancelled", !.finding = "open"])
  /\ UNCHANGED <<versions, counter, flow, gen, task_status, hit, extra, removed>>

\* resume_verification_run: no report is invalidated, no phase reconciled.
ResumeRun(w) ==
  /\ retest[w].run \in {"cancelled", "partial"} /\ retest[w].item \in {"cancelled", "unable"}
  /\ retest' = Put(w, [retest[w] EXCEPT !.run = "queued", !.item = "queued", !.resumed = TRUE])
  /\ gen' = Begun(w, gen)
  /\ UNCHANGED <<versions, counter, flow, task_status, hit, extra, removed>>

\* reopen_finding_api: its reviewed item stays, and the reconciliation changes nothing else.
ReopenFinding(w) ==
  LET rt == Put(w, [retest[w] EXCEPT !.finding = "open"])
  IN  /\ retest[w].finding = "fixed"
      /\ retest' = rt
      /\ gen' = ToldGens(<<w, "reopened">>, gen)
      /\ Reconciles(<<w>>, flow, ToldRows(<<w, "reopened">>, versions), rt, task_status, extra)
      /\ UNCHANGED <<counter, task_status, hit, extra, removed>>

\* complete_phase of the remediation: report on the present state.
Finalize ==
  LET f == Reconciled(flow, retest, task_status, extra)
  IN  /\ ~ActiveRun(retest)
      /\ Writes({}, [f EXCEPT !.remediation = "completed", !.final = TRUE,
                              !.report = IF @ = "pending" THEN "active" ELSE @],
                IF MustWait(flow, retest, task_status, extra) THEN Invalidated(versions) ELSE versions)
      /\ UNCHANGED <<counter, gen, task_status, retest, hit, extra, removed>>

Requested ==
  \/ \E g \in Generators :
       \/ CheckReady(g) \/ StartReport(g) \/ TakeVersion(g) \/ Draw(g) \/ Publish(g)
       \/ GenerationFails(g) \/ GenerationDies(g)
  \/ StopReport \/ Finalize
  \/ \E vs \in SUBSET Versions : DeleteVersions(vs)
Worked ==
  \/ \E c \in Checks : StartCheck(c) \/ BeginCheck(c) \/ \E found \in BOOLEAN : EndCheck(c, found)
  \/ \E c \in DocChecks : CreateDocumentRun(c) \/ EndDocumentRun(c)
  \/ \E p \in Promotions : Promote(p)
  \/ \E w \in Retests :
       \/ CreateRun(w) \/ BeginRun(w) \/ DocumentEnds(w) \/ StopRun(w) \/ ResumeRun(w) \/ ReopenFinding(w)
       \/ \E o \in {"fixed", "still_present", "unable", "cancelled"} : EndRun(w, o)
RepNext == Requested \/ Worked
RepSpec == RepInit /\ [][RepNext]_repVars

-----------------------------------------------------------------------------
(* Properties.                                                              *)

RepTypeOK ==
  /\ \A v \in Versions : versions[v].status \in {"none", "current", "stale"}
  /\ counter \in 0..MaxVersions /\ removed \in BOOLEAN
  /\ flow.remediation \in {"active", "completed"} /\ flow.final \in BOOLEAN
  /\ flow.report \in {"pending", "active", "completed"}
  /\ flow.task \in {"todo", "in_progress", "completed", "failed"}
  /\ \A g \in Generators : gen[g].pc \in {"idle", "checked", "started", "locked", "drawn"}

\* A version that counts as current (report.py:8) contains the results of all work but that
\* begun while it was being generated: ensure_report_generation_ready refuses while work is
\* under way, and work that begins later invalidates it.  What retests do that are resumed,
\* or findings that are reopened by hand, is exempt: those two
\* requests invalidate nothing (api/verification.py:442 and :478).
CurrentIsComplete ==
  \A v \in CurrentOnes(versions) :
     versions[v].missed \subseteq (DocRetests \X {"resumed"}) \cup (Retests \X {"reopened"})

\* The report task is completed only while a report is current, unless a user deleted it:
\* whatever makes it stale puts the task back to do.
DoneMeansCurrent == flow.task = "completed" => CurrentOnes(versions) # {} \/ removed

\* What a user who sees a completed report, or downloads the current one, may rely on:
\* both of these.
ReportStands == CurrentIsComplete /\ DoneMeansCurrent
=============================================================================
