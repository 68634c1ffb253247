------------------------------ MODULE Projects ------------------------------
(***************************************************************************)
(* A project, its assessments (one for each type), and the summary rows    *)
(* that project lists and dashboards show (api/projects.py,                *)
(* services/flow_engine.py, api/assessments.py, models/assessment_type.py).*)
(* Whoever creates an assessment first updates the templates, which        *)
(* rebuilds every assessment of the installation that looks unused; a      *)
(* request commits after each of these parts, and others work in between.  *)
(***************************************************************************)
EXTENDS Naturals, Sequences

CONSTANTS
  Types,        \* dengbao and miping
  Levels,       \* 2 and 3
  Clients,      \* requests and task completions under way at the same time
  MaxOrders,    \* requests begun in a behaviour (a bound)
  Total         \* tasks of a template (a bound)

ASSUME ProjectAssumption ==
  "dengbao" \in Types /\ 3 \in Levels /\ MaxOrders \in Nat /\ Total \in Nat \ {0}

\* progress: what was last computed; done: what the task rows say; fits: the tasks are
\* those of the current template.
AssessmentRow == [level : Levels, status : {"not_started", "in_progress", "paused", "completed"},
                  progress : 0 .. Total, phase : {"pending", "active"}, working : BOOLEAN,
                  done : 0 .. Total, fits : BOOLEAN]
SummaryRow == [level : Levels, progress : 0 .. Total]
Config == [type : Types, level : Levels]
\* What the demonstration project assesses.
Demo == [type |-> "dengbao", level |-> 3]

\* todo: the configurations still to be ensured; looked: the rows the update of the
\* templates takes for unused; progress, rows: what the session has read for a summary.
OrderRow == [op : {"create", "demo", "update", "enable", "direct", "templates", "finish", "restart"},
             pc : {"idle", "upsert", "adopt", "ensure", "insert", "read", "write", "start"},
             todo : Seq(Config), looked : [Types -> SUBSET AssessmentRow],
             progress : 0 .. Total, rows : Nat]
Nothing == [t \in Types |-> <<>>]
NoLook == [t \in Types |-> {}]
NoOrder == [op |-> "templates", pc |-> "idle", todo |-> <<>>, looked |-> NoLook,
            progress |-> 0, rows |-> 0]

VARIABLES
  proj,       \* "none", "active", "archived" or "deleted"
  assessment, \* [Types -> Seq(AssessmentRow)], assessments in the order of their ids
  summary,    \* [Types -> Seq(SummaryRow)], project_assessments
  order,      \* [Clients -> OrderRow]
  orders,     \* how many were begun
  torn        \* (history) types whose summary was cut short, written by two at once, or whose
              \* assessment was rebuilt on an old look

projVars == <<proj, assessment, summary, order, orders, torn>>

ProjInit ==
  /\ proj = "none" /\ assessment = Nothing /\ summary = Nothing
  /\ order = [c \in Clients |-> NoOrder] /\ orders = 0 /\ torn = {}

Exists(t) == assessment[t] # <<>>
Latest(t) == assessment[t][Len(assessment[t])]
WithLatest(t, row) == [assessment EXCEPT ![t][Len(assessment[t])] = row]
\* A template's instance that nobody has worked on.
Fresh(level) == [level |-> level, status |-> "not_started", progress |-> 0, phase |-> "pending",
                 working |-> FALSE, done |-> 0, fits |-> TRUE]

Does(c, o) == order' = [order EXCEPT ![c] = o]
Then(c, pc) == Does(c, [order[c] EXCEPT !.pc = pc])
At(c, pc) == order[c].pc = pc
TypeOfOrder(c) == Head(order[c].todo).type
LevelOfOrder(c) == Head(order[c].todo).level
\* The next configuration, the start of a demonstration, or the end.
NextConfig(c) ==
  LET o == order[c]
  IN  Does(c, IF o.op = "demo" THEN [o EXCEPT !.pc = "start"]
              ELSE IF Len(o.todo) > 1 THEN [o EXCEPT !.pc = "ensure", !.todo = Tail(@)]
              ELSE NoOrder)

-----------------------------------------------------------------------------
(* Requests.                                                                *)

Begin(c, op, pc, todo) ==
  /\ At(c, "idle") /\ orders < MaxOrders /\ orders' = orders + 1
  /\ Does(c, [NoOrder EXCEPT !.op = op, !.pc = pc, !.todo = todo])
  /\ UNCHANGED <<proj, assessment, summary, torn>>

Configs == {<<a>> : a \in Config} \cup {<<a, b>> : a, b \in Config}
DistinctTypes(todo) == \A i, j \in DOMAIN todo : i # j => todo[i].type # todo[j].type
OneAtATime(op) == \A c \in Clients : At(c, "idle") \/ order[c].op # op

\* create_project looks at its list only after its first commit.
BeginCreate(c, todo) ==
  proj = "none" /\ OneAtATime("create") /\ OneAtATime("demo") /\ Begin(c, "create", "upsert", todo)
BeginDemo(c) ==
  proj = "none" /\ OneAtATime("create") /\ OneAtATime("demo") /\ Begin(c, "demo", "upsert", <<Demo>>)
\* Not on an archived project (get_project_for_user of the projects API).
BeginUpdate(c, todo) == proj = "active" /\ DistinctTypes(todo) /\ Begin(c, "update", "upsert", todo)
BeginEnable(c, config) == proj = "active" /\ Begin(c, "enable", "ensure", <<config>>)
\* The assessments API looks at the permission only.
BeginDirect(c, config) ==
  proj \in {"active", "archived"} /\ Begin(c, "direct", "insert", <<config>>)
\* POST /templates/init, and every start of the API process.
BeginTemplates(c) == Begin(c, "templates", "upsert", <<>>)

\* The templates are written and committed, and with them the new project; then the
\* assessments that look unused are read.
Rows(t) == {assessment[t][i] : i \in DOMAIN assessment[t]}
Unused(row) == row.status = "not_started" /\ row.progress = 0
Upsert(c) ==
  /\ At(c, "upsert")
  /\ proj' = IF order[c].op = "create" THEN "active" ELSE proj
  /\ Does(c, [order[c] EXCEPT !.pc = "adopt",
                !.looked = [t \in Types |-> {row \in Rows(t) : Unused(row)}]])
  /\ UNCHANGED <<assessment, summary, orders, torn>>

\* Those whose tasks are not the template's are rebuilt: their tasks go with what was
\* done on them, the status and the progress of the assessment stay.
Rebuilt(row) == [row EXCEPT !.phase = "pending", !.working = FALSE, !.done = 0, !.fits = TRUE]
Adopted(c, t) == order[c].looked[t] # {} /\ Exists(t) /\ ~Latest(t).fits
Adopt(c) ==
  LET o == order[c]
  IN  /\ At(c, "adopt")
      /\ assessment' = [t \in Types |-> IF Adopted(c, t) THEN WithLatest(t, Rebuilt(Latest(t)))[t]
                                        ELSE assessment[t]]
      /\ Does(c, CASE o.op = "templates" \/ (o.op = "create" /\ ~DistinctTypes(o.todo)) -> NoOrder
                   [] o.op \in {"demo", "enable"} -> [o EXCEPT !.pc = "insert", !.looked = NoLook]
                   [] OTHER -> [o EXCEPT !.pc = "ensure", !.looked = NoLook])
      /\ torn' = torn \cup {t \in Types : Adopted(c, t) /\ Latest(t) \notin o.looked[t]}
      /\ UNCHANGED <<proj, summary, orders>>

\* _ensure_assessment_config: another level is refused, and what was created before
\* stays.
Ensure(c) ==
  LET t == TypeOfOrder(c)
  IN  /\ At(c, "ensure")
      /\ IF ~Exists(t) THEN Then(c, IF order[c].op = "enable" THEN "upsert" ELSE "insert")
         ELSE IF Latest(t).level # LevelOfOrder(c) THEN Does(c, NoOrder)
         ELSE NextConfig(c)
      /\ UNCHANGED <<proj, assessment, summary, orders, torn>>

\* create_assessment, with the row of the project locked: it returns the assessment of
\* the type there is, of whatever level.
MutantInsertAssessment(c) ==
  LET t == TypeOfOrder(c)
  IN  /\ At(c, "insert") /\ proj' = IF order[c].op = "demo" THEN "active" ELSE proj
      /\ assessment' = [assessment EXCEPT ![t] = Append(@, Fresh(LevelOfOrder(c)))]
      /\ Then(c, "read")
      /\ UNCHANGED <<summary, orders, torn>>
InsertAssessment(c) ==
  LET t == TypeOfOrder(c)
  IN  /\ At(c, "insert") /\ proj' = IF order[c].op = "demo" THEN "active" ELSE proj
      /\ IF Exists(t) THEN NextConfig(c) /\ UNCHANGED assessment
         ELSE /\ assessment' = [assessment EXCEPT ![t] = Append(@, Fresh(LevelOfOrder(c)))]
              /\ Then(c, "read")
      /\ UNCHANGED <<summary, orders, torn>>

-----------------------------------------------------------------------------
(* The summary (_sync_project_assessment, _update_assessment_progress).     *)

\* What the session takes for the progress: a completion counts the tasks, a request that
\* has created or reset the assessment holds it at zero.
Shown(c, t) == IF order[c].op = "finish" THEN Latest(t).done ELSE 0
\* Two rows for one type make the read raise, and the request ends.
ReadSummary(c) ==
  LET t == TypeOfOrder(c)
      rows == Len(summary[t])
  IN  /\ At(c, "read") /\ Exists(t)
      /\ IF rows > 1 THEN Does(c, NoOrder) /\ torn' = torn \cup {t}
         ELSE /\ Does(c, [order[c] EXCEPT !.pc = "write", !.rows = rows, !.progress = Shown(c, t)])
              /\ torn' = torn
      /\ UNCHANGED <<proj, assessment, summary, orders>>

\* Someone else has read the same and not yet written, or has written since.
Races(c, t) ==
  \/ Len(summary[t]) # order[c].rows \/ Shown(c, t) # order[c].progress
  \/ order[c].op # "finish" /\ Latest(t).progress # 0
  \/ \E d \in Clients \ {c} : At(d, "write") /\ TypeOfOrder(d) = t
\* Progress and summary in one transaction.  All tasks done complete the assessment, and
\* one that is no longer complete is in progress again.
Progressed(row, n) ==
  [row EXCEPT !.progress = n,
              !.status = IF n = Total THEN "completed" ELSE IF @ = "completed" THEN "in_progress" ELSE @]
WriteSummary(c) ==
  LET t == TypeOfOrder(c)
      o == order[c]
      row == CASE o.op = "finish" -> Progressed(Latest(t), o.progress)
               [] o.op = "restart" -> Rebuilt(Latest(t))
               [] OTHER -> Latest(t)
      new == [level |-> row.level, progress |-> o.progress]
  IN  /\ At(c, "write") /\ Exists(t)
      /\ assessment' = WithLatest(t, row)
      /\ summary' = [summary EXCEPT ![t] = IF o.rows = 0 THEN Append(@, new) ELSE [@ EXCEPT ![1] = new]]
      /\ torn' = IF Races(c, t) THEN torn \cup {t} ELSE torn
      /\ NextConfig(c)
      /\ UNCHANGED <<proj, orders>>

\* A demonstration is started at once.
StartDemo(c) ==
  LET t == TypeOfOrder(c)
  IN  /\ At(c, "start") /\ Exists(t) /\ Does(c, NoOrder)
      /\ assessment' = IF Latest(t).status = "not_started" /\ Latest(t).phase = "pending"
                       THEN WithLatest(t, [Latest(t) EXCEPT !.status = "in_progress", !.phase = "active"])
                       ELSE assessment
      /\ UNCHANGED <<proj, summary, orders, torn>>

\* The process or the connection is lost; what was committed stays.
Cut(c) ==
  /\ ~At(c, "idle") /\ Does(c, NoOrder)
  /\ torn' = IF order[c].pc \in {"read", "write"} THEN torn \cup {TypeOfOrder(c)} ELSE torn
  /\ UNCHANGED <<proj, assessment, summary, orders>>

-----------------------------------------------------------------------------
(* Work on an assessment.  Neither a start nor a pause writes the summary.  *)

Works(t, row) ==
  Exists(t) /\ assessment' = WithLatest(t, row)
  /\ UNCHANGED <<proj, summary, order, orders, torn>>

\* start_assessment activates the first phase, and fails when it is active already.
StartAssessment(t) ==
  /\ Exists(t) /\ Latest(t).status \in {"not_started", "paused"} /\ Latest(t).phase = "pending"
  /\ Works(t, [Latest(t) EXCEPT !.status = "in_progress", !.phase = "active"])
PauseAssessment(t) ==
  Exists(t) /\ Latest(t).status = "in_progress" /\ Works(t, [Latest(t) EXCEPT !.status = "paused"])
\* A resume does not ask for a pause, nor does a restart that keeps the results ask for an end.
ResumeAssessment(t) ==
  /\ Exists(t) /\ Latest(t).status \in {"not_started", "paused"}
  /\ Works(t, [Latest(t) EXCEPT !.status = "in_progress"])
ReopenAssessment(t) ==
  Exists(t) /\ Latest(t).status = "completed" /\ Works(t, [Latest(t) EXCEPT !.status = "in_progress"])
\* start_task activates the phase and leaves the status of the assessment.
StartWork(t) ==
  /\ Exists(t) /\ ~Latest(t).working /\ Latest(t).done < Total
  /\ Works(t, [Latest(t) EXCEPT !.phase = "active", !.working = TRUE])
\* create_task, or a release with other templates.
Diverge(t) == Exists(t) /\ Latest(t).fits /\ Works(t, [Latest(t) EXCEPT !.fits = FALSE])

\* A task completes; its progress is computed afterwards.
FinishWork(c, t) ==
  /\ At(c, "idle") /\ Exists(t) /\ Latest(t).working
  /\ assessment' = WithLatest(t, [Latest(t) EXCEPT !.working = FALSE, !.done = @ + 1])
  /\ Does(c, [NoOrder EXCEPT !.op = "finish", !.pc = "read",
                             !.todo = <<[type |-> t, level |-> Latest(t).level]>>])
  /\ UNCHANGED <<proj, summary, orders, torn>>

\* restart_assessment: the rows are reset and committed, then rebuilt with the summary.
RestartAssessment(c, t) ==
  /\ At(c, "idle") /\ Exists(t) /\ orders < MaxOrders /\ orders' = orders + 1
  /\ assessment' = WithLatest(t, [Fresh(Latest(t).level) EXCEPT !.fits = Latest(t).fits])
  /\ Does(c, [NoOrder EXCEPT !.op = "restart", !.pc = "read",
                             !.todo = <<[type |-> t, level |-> Latest(t).level]>>])
  /\ torn' = torn \cup {t : d \in {e \in Clients : At(e, "write") /\ TypeOfOrder(e) = t}}
  /\ UNCHANGED <<proj, summary>>

Archive == proj = "active" /\ proj' = "archived"
           /\ UNCHANGED <<assessment, summary, order, orders, torn>>
Restore == proj = "archived" /\ proj' = "active"
           /\ UNCHANGED <<assessment, summary, order, orders, torn>>

\* delete_project: not while a task runs; requests under way find nothing to write to.
DeleteProject ==
  /\ proj = "active" /\ \A t \in Types : Exists(t) => ~Latest(t).working
  /\ proj' = "deleted" /\ assessment' = Nothing /\ summary' = Nothing
  /\ order' = [c \in Clients |-> NoOrder]
  /\ UNCHANGED <<orders, torn>>

ProjNext ==
  \/ \E c \in Clients, todo \in Configs : BeginCreate(c, todo) \/ BeginUpdate(c, todo)
  \/ \E c \in Clients, config \in Config : BeginEnable(c, config) \/ BeginDirect(c, config)
  \/ \E c \in Clients :
       \/ BeginDemo(c) \/ BeginTemplates(c) \/ Upsert(c) \/ Adopt(c) \/ Ensure(c) \/ InsertAssessment(c)
       \/ ReadSummary(c) \/ WriteSummary(c) \/ StartDemo(c) \/ Cut(c)
  \/ \E t \in Types :
       \/ StartAssessment(t) \/ PauseAssessment(t) \/ ResumeAssessment(t) \/ ReopenAssessment(t)
       \/ StartWork(t) \/ Diverge(t)
       \/ \E c \in Clients : FinishWork(c, t) \/ RestartAssessment(c, t)
  \/ Archive \/ Restore \/ DeleteProject

ProjSpec == ProjInit /\ [][ProjNext]_projVars

-----------------------------------------------------------------------------

ProjTypeOK ==
  /\ proj \in {"none", "active", "archived", "deleted"}
  /\ assessment \in [Types -> Seq(AssessmentRow)] /\ summary \in [Types -> Seq(SummaryRow)]
  /\ order \in [Clients -> OrderRow]
  /\ orders \in 0 .. MaxOrders /\ torn \subseteq Types

AtRest(t) == \A c \in Clients : order[c].pc \in {"read", "write"} => TypeOfOrder(c) # t

\* A project has one assessment of a type, whoever asks for it and however often, and
\* once the requests are done its summary is one row with its level and its progress,
\* unless a request died between the assessment and the summary, two wrote the summary
\* at the same time, or an update of the templates rebuilt the assessment although it
\* had changed since the update looked at it.
SummaryIsTrue ==
  \A t \in Types :
    /\ Len(assessment[t]) <= 1
    /\ Exists(t) /\ AtRest(t) /\ t \notin torn =>
         /\ Len(summary[t]) = 1
         /\ summary[t][1] = [level |-> Latest(t).level, progress |-> Latest(t).progress]
         /\ Latest(t).progress = Latest(t).done
=============================================================================
