----------------------- MODULE ReportsAndVerdictsProofs -----------------------
(***************************************************************************)
(* Proofs about Reports, for any number of requests, checks, retests and   *)
(* promotions: the current report contains the results of everything that  *)
(* was not begun while it was generated, and the report task is completed  *)
(* only while there is one.  The invariant says of every piece of work     *)
(* under way that a generation past its readiness check knows of it, and   *)
(* that a version which is current either knows of it or will be stale     *)
(* when its results are committed.                                         *)
(*                                                                         *)
(* And proofs about ToolVerdicts, for any tasks, plans and changes of the  *)
(* target: whoever reads the answers of the tools calls a task clean,      *)
(* credits it or takes it out of the score only when its tools looked or   *)
(* were refused.  The invariant says of every answer that is kept what it  *)
(* gives away of the tool and the target.                                  *)
(*                                                                         *)
(* The last part joins both with AssessmentQueueProofs and MaterialsProofs *)
(* for the run of all four (MCRequests).                                   *)
(***************************************************************************)
EXTENDS AssessmentQueueProofs, MaterialsProofs, MCRequests, SequenceTheorems, WellFoundedInduction,
        TLAPS

USE ReportAssumption, VerdictAssumption

-----------------------------------------------------------------------------
(* Reports.                                                                *)

Exempt == (DocRetests \X {"resumed"}) \cup (Retests \X {"reopened"})
ReportWork == Checks \cup DocChecks \cup Retests \cup Promotions
VersionStatuses == {"none", "current", "stale"}
VersionRow == [status : VersionStatuses, lap : SUBSET ReportWork, missed : SUBSET (ReportWork \cup Exempt)]
GenRow == [pc : {"idle", "checked", "started", "locked", "drawn"}, version : Nat,
           lap : SUBSET ReportWork, missed : SUBSET (ReportWork \cup Exempt)]
RetestRow == [run : {"none", "queued", "running", "completed", "partial", "cancelled"},
              item : {"none", "queued", "fixed", "still_present", "unable", "cancelled"},
              finding : {"open", "fixed"},
              doc : {"none", "running", "pass", "fail", "failed", "cancelled"},
              resumed : BOOLEAN]
FlowRow == [remediation : {"active", "completed"}, final : BOOLEAN,
            report : {"pending", "active", "completed"},
            task : {"todo", "in_progress", "completed", "failed"}]
TaskStatuses == {"failed", "in_progress", "executing", "completed", "analysed"}

\* Work whose results are still to come.  A resumed document retest is not counted: nothing
\* tells the reports of it.
IsUnder(x, ts, rt) ==
  \/ x \in Checks \cup DocChecks /\ (ts[x] = "in_progress" \/ ts[x] = "executing")
  \/ x \in TechRetests /\ (rt[x].run = "queued" \/ rt[x].run = "running")
  \/ x \in DocRetests /\ (rt[x].run = "queued" \/ rt[x].run = "running") /\ ~rt[x].resumed
\* Work that has already invalidated the reports there were.
IsDeep(x, ts, rt) ==
  \/ x \in Checks /\ ts[x] = "executing"
  \/ x \in DocChecks /\ (ts[x] = "in_progress" \/ ts[x] = "executing")
  \/ x \in TechRetests /\ rt[x].run = "running"
  \/ x \in DocRetests /\ (rt[x].run = "queued" \/ rt[x].run = "running") /\ ~rt[x].resumed

IsGenerating(r) == r.pc = "locked" \/ r.pc = "drawn"
HitBy(x, v, h) == x \in Checks \cup TechRetests /\ v \in h[x]

Typed(vs, gs, f, ts, rt, h) ==
  /\ vs \in [Versions -> VersionRow] /\ gs \in [Generators -> GenRow] /\ f \in FlowRow
  /\ ts \in [Checks \cup DocChecks -> TaskStatuses] /\ rt \in [Retests -> RetestRow]
  /\ h \in [Checks \cup TechRetests -> SUBSET Versions]
\* A generation contains all that was not begun since its check, and has a number.
GensSound(gs) == \A g \in Generators : IsGenerating(gs[g]) =>
                   gs[g].missed \subseteq Exempt /\ gs[g].version \in Versions
RowsSound(vs) == \A v \in Versions : vs[v].status = "current" => vs[v].missed \subseteq Exempt
GensKnow(gs, ts, rt) == \A g \in Generators, x \in ReportWork :
                          IsGenerating(gs[g]) /\ IsUnder(x, ts, rt) => x \in gs[g].lap
RowsKnow(vs, ts, rt, h) == \A v \in Versions, x \in ReportWork :
                             vs[v].status = "current" /\ IsDeep(x, ts, rt)
                             => x \in vs[v].lap \/ HitBy(x, v, h)
HasCurrent(vs) == \E v \in Versions : vs[v].status = "current"
DoneSound(f, vs, rm) == f.task = "completed" => HasCurrent(vs) \/ rm

Sound(vs, gs, ts, rt, h) ==
  GensSound(gs) /\ RowsSound(vs) /\ GensKnow(gs, ts, rt) /\ RowsKnow(vs, ts, rt, h)
RepInvariant ==
  /\ Typed(versions, gen, flow, task_status, retest, hit)
  /\ Sound(versions, gen, task_status, retest, hit)
  /\ DoneSound(flow, versions, removed) /\ removed \in BOOLEAN

-----------------------------------------------------------------------------
(* What steps do to the versions and to the generations.                    *)

\* No version becomes current, and those that stay so miss nothing new.
RowsKept(vs, new) ==
  \A v \in Versions : new[v].status = "current" =>
    /\ vs[v].status = "current" /\ vs[v].lap \subseteq new[v].lap
    /\ vs[v].missed \subseteq Exempt => new[v].missed \subseteq Exempt
\* No generation begins, and those under way miss nothing new.
GensKept(gs, new) ==
  \A g \in Generators : IsGenerating(new[g]) =>
    /\ IsGenerating(gs[g]) /\ gs[g].lap \subseteq new[g].lap /\ gs[g].version = new[g].version
    /\ gs[g].missed \subseteq Exempt => new[g].missed \subseteq Exempt

\* What is under way was so before, or is known to every generation.
WorkKnown(ts, rt, ts2, rt2, gs) ==
  \A x \in ReportWork : IsUnder(x, ts2, rt2) =>
    \/ IsUnder(x, ts, rt)
    \/ \A g \in Generators : IsGenerating(gs[g]) => x \in gs[g].lap
\* What has invalidated reports had done so before and marks what it marked, or every
\* current version knows of it or is marked by it.
WorkMarked(ts, rt, h, ts2, rt2, h2, vs) ==
  \A x \in ReportWork : IsDeep(x, ts2, rt2) =>
    \/ IsDeep(x, ts, rt) /\ (x \in Checks \cup TechRetests => h[x] \subseteq h2[x])
    \/ \A v \in Versions : vs[v].status = "current" => x \in vs[v].lap \/ HitBy(x, v, h2)

\* Steps of these kinds keep the reports sound (all requests but those that publish).
LEMMA StepKeeps ==
  ASSUME NEW vs, NEW gs, NEW ts, NEW rt, NEW h, NEW vs2, NEW gs2, NEW ts2, NEW rt2, NEW h2,
         Sound(vs, gs, ts, rt, h), RowsKept(vs, vs2), GensKept(gs, gs2),
         WorkKnown(ts, rt, ts2, rt2, gs2), WorkMarked(ts, rt, h, ts2, rt2, h2, vs2)
  PROVE  Sound(vs2, gs2, ts2, rt2, h2)
<1>1. GensSound(gs2)
  BY DEF Sound, GensSound, GensKept
<1>2. RowsSound(vs2)
  BY DEF Sound, RowsSound, RowsKept
<1>3. GensKnow(gs2, ts2, rt2)
  <2> SUFFICES ASSUME NEW g \in Generators, NEW x \in ReportWork, IsGenerating(gs2[g]), IsUnder(x, ts2, rt2)
               PROVE  x \in gs2[g].lap
    BY DEF GensKnow
  <2>1. IsGenerating(gs[g]) /\ gs[g].lap \subseteq gs2[g].lap
    BY DEF GensKept
  <2>2. CASE IsUnder(x, ts, rt)
    BY <2>1, <2>2 DEF Sound, GensKnow
  <2>3. CASE ~IsUnder(x, ts, rt)
    BY <2>3 DEF WorkKnown
  <2> QED BY <2>2, <2>3
<1>4. RowsKnow(vs2, ts2, rt2, h2)
  <2> SUFFICES ASSUME NEW v \in Versions, NEW x \in ReportWork, vs2[v].status = "current", IsDeep(x, ts2, rt2)
               PROVE  x \in vs2[v].lap \/ HitBy(x, v, h2)
    BY DEF RowsKnow
  <2>1. vs[v].status = "current" /\ vs[v].lap \subseteq vs2[v].lap
    BY DEF RowsKept
  <2>2. CASE IsDeep(x, ts, rt) /\ (x \in Checks \cup TechRetests => h[x] \subseteq h2[x])
    <3>1. x \in vs[v].lap \/ HitBy(x, v, h)
      BY <2>1, <2>2 DEF Sound, RowsKnow
    <3> QED BY <2>1, <2>2, <3>1 DEF HitBy
  <2>3. CASE ~(IsDeep(x, ts, rt) /\ (x \in Checks \cup TechRetests => h[x] \subseteq h2[x]))
    BY <2>3 DEF WorkMarked
  <2> QED BY <2>2, <2>3
<1> QED BY <1>1, <1>2, <1>3, <1>4 DEF Sound

\* Rows and generations that do not change are kept.
LEMMA Unmoved ==
  ASSUME NEW vs, NEW gs
  PROVE  RowsKept(vs, vs) /\ GensKept(gs, gs)
BY DEF RowsKept, GensKept

\* Steps that change no work leave what is under way as it is.
LEMMA SameWork ==
  ASSUME NEW ts, NEW rt, NEW h, NEW gs, NEW vs
  PROVE  WorkKnown(ts, rt, ts, rt, gs) /\ WorkMarked(ts, rt, h, ts, rt, h, vs)
BY DEF WorkKnown, WorkMarked

\* Two such changes of the versions, one after the other, are one.
LEMMA RowsThrough ==
  ASSUME NEW a, NEW b, NEW c, RowsKept(a, b), RowsKept(b, c)
  PROVE  RowsKept(a, c)
BY DEF RowsKept

-----------------------------------------------------------------------------
(* The operators of the model.                                              *)

\* CurrentOnes is empty when nothing is current.
LEMMA CurrentRows ==
  ASSUME NEW vs
  PROVE  /\ \A v : v \in CurrentOnes(vs) <=> v \in Versions /\ vs[v].status = "current"
         /\ CurrentOnes(vs) \subseteq Versions
         /\ HasCurrent(vs) <=> CurrentOnes(vs) # {}
BY DEF CurrentOnes, HasCurrent

\* Invalidation leaves no version current.
LEMMA InvalidatedRows ==
  ASSUME NEW vs \in [Versions -> VersionRow]
  PROVE  /\ Invalidated(vs) \in [Versions -> VersionRow]
         /\ \A v \in Versions : Invalidated(vs)[v].status # "current"
         /\ RowsKept(vs, Invalidated(vs))
<1>1. ASSUME NEW v \in Versions
      PROVE  Invalidated(vs)[v] \in VersionRow /\ Invalidated(vs)[v].status # "current"
  <2>1. CASE vs[v].status = "current"
    <3>1. Invalidated(vs)[v] = [vs[v] EXCEPT !.status = "stale"]
      BY <2>1 DEF Invalidated
    <3> QED BY <3>1 DEF VersionRow, VersionStatuses
  <2>2. CASE vs[v].status # "current"
    <3>1. Invalidated(vs)[v] = vs[v]
      BY <2>2 DEF Invalidated
    <3> QED BY <3>1, <2>2
  <2> QED BY <2>1, <2>2
<1>2. Invalidated(vs) \in [Versions -> VersionRow]
  BY <1>1 DEF Invalidated
<1> QED BY <1>1, <1>2 DEF RowsKept

\* What an execution marked is no longer current, the other versions are as they were.
LEMMA MarkedRows ==
  ASSUME NEW vs \in [Versions -> VersionRow], NEW marked
  PROVE  /\ Marked(vs, marked) \in [Versions -> VersionRow]
         /\ \A v \in Versions : Marked(vs, marked)[v].status = "current" => v \notin marked
         /\ \A v \in Versions : v \notin marked => Marked(vs, marked)[v] = vs[v]
         /\ RowsKept(vs, Marked(vs, marked))
<1>1. ASSUME NEW v \in Versions, v \in marked
      PROVE  Marked(vs, marked)[v] \in VersionRow /\ Marked(vs, marked)[v].status # "current"
  <2>1. Marked(vs, marked)[v] = [vs[v] EXCEPT !.status = "stale"]
    BY <1>1 DEF Marked
  <2> QED BY <2>1 DEF VersionRow, VersionStatuses
<1>2. \A v \in Versions : v \notin marked => Marked(vs, marked)[v] = vs[v]
  BY DEF Marked
<1>3. ASSUME NEW v \in Versions
      PROVE  Marked(vs, marked)[v] \in VersionRow
  BY <1>1, <1>2
<1>4. Marked(vs, marked) \in [Versions -> VersionRow]
  BY <1>3 DEF Marked
<1> QED BY <1>1, <1>2, <1>4 DEF RowsKept

\* A version that is told of some work still has its type, status and lap, and misses the
\* work unless it was begun since the check.
LEMMA ToldRow ==
  ASSUME NEW r \in VersionRow \cup GenRow, NEW x \in ReportWork \cup Exempt
  PROVE  /\ r \in VersionRow => Told(x, r) \in VersionRow /\ Told(x, r).status = r.status
         /\ r \in GenRow => /\ Told(x, r) \in GenRow
                            /\ Told(x, r).pc = r.pc /\ Told(x, r).version = r.version
         /\ Told(x, r).lap = r.lap
         /\ x \in r.lap \/ x \in Exempt =>
              (r.missed \subseteq Exempt => Told(x, r).missed \subseteq Exempt)
<1>1. CASE x \in r.lap
  BY <1>1 DEF Told
<1>2. CASE x \notin r.lap /\ r \in VersionRow
  <2>1. Told(x, r) = [r EXCEPT !.missed = r.missed \cup {x}]
    BY <1>2 DEF Told
  <2>2. r.missed \cup {x} \subseteq ReportWork \cup Exempt
    BY <1>2 DEF VersionRow
  <2>3. /\ Told(x, r) \in VersionRow /\ Told(x, r).status = r.status
        /\ Told(x, r).lap = r.lap /\ Told(x, r).missed = r.missed \cup {x}
    BY <1>2, <2>1, <2>2 DEF VersionRow
  <2>4. r \notin GenRow
    BY <1>2 DEF VersionRow, GenRow
  <2> QED BY <1>2, <2>3, <2>4
<1>3. CASE x \notin r.lap /\ r \in GenRow
  <2>1. Told(x, r) = [r EXCEPT !.missed = r.missed \cup {x}]
    BY <1>3 DEF Told
  <2>2. r.missed \cup {x} \subseteq ReportWork \cup Exempt
    BY <1>3 DEF GenRow
  <2>3. /\ Told(x, r) \in GenRow /\ Told(x, r).pc = r.pc /\ Told(x, r).version = r.version
        /\ Told(x, r).lap = r.lap /\ Told(x, r).missed = r.missed \cup {x}
    BY <1>3, <2>1, <2>2 DEF GenRow
  <2>4. r \notin VersionRow
    BY <1>3 DEF VersionRow, GenRow
  <2> QED BY <1>3, <2>3, <2>4
<1> QED BY <1>1, <1>2, <1>3

\* Committed results change no status, and add to what a current version misses only when
\* it neither knows of the work nor the work is exempt.
LEMMA ToldRowsKept ==
  ASSUME NEW vs \in [Versions -> VersionRow], NEW x \in ReportWork \cup Exempt
  PROVE  /\ ToldRows(x, vs) \in [Versions -> VersionRow]
         /\ \A v \in Versions : ToldRows(x, vs)[v].status = vs[v].status
         /\ (\A v \in Versions : vs[v].status = "current" => x \in vs[v].lap \/ x \in Exempt)
            => RowsKept(vs, ToldRows(x, vs))
<1>1. ASSUME NEW v \in Versions
      PROVE  ToldRows(x, vs)[v] = IF vs[v].status = "current" THEN Told(x, vs[v]) ELSE vs[v]
  BY DEF ToldRows
<1>2. ASSUME NEW v \in Versions
      PROVE  /\ ToldRows(x, vs)[v] \in VersionRow /\ ToldRows(x, vs)[v].status = vs[v].status
             /\ ToldRows(x, vs)[v].lap = vs[v].lap
             /\ vs[v].status = "current" /\ (x \in vs[v].lap \/ x \in Exempt) =>
                  (vs[v].missed \subseteq Exempt => ToldRows(x, vs)[v].missed \subseteq Exempt)
  <2>1. vs[v] \in VersionRow
    OBVIOUS
  <2> QED BY <1>1, <2>1, ToldRow
<1>3. ToldRows(x, vs) \in [Versions -> VersionRow]
  BY <1>2 DEF ToldRows
<1> QED BY <1>2, <1>3 DEF RowsKept

\* The same of the generations that have read the data.
LEMMA ToldGensKept ==
  ASSUME NEW gs \in [Generators -> GenRow], NEW x \in ReportWork \cup Exempt
  PROVE  /\ ToldGens(x, gs) \in [Generators -> GenRow]
         /\ (\A g \in Generators : IsGenerating(gs[g]) => x \in gs[g].lap \/ x \in Exempt)
            => GensKept(gs, ToldGens(x, gs))
<1>1. ASSUME NEW g \in Generators
      PROVE  ToldGens(x, gs)[g] = IF gs[g].pc = "drawn" THEN Told(x, gs[g]) ELSE gs[g]
  BY DEF ToldGens
<1>2. ASSUME NEW g \in Generators
      PROVE  /\ ToldGens(x, gs)[g] \in GenRow
             /\ ToldGens(x, gs)[g].pc = gs[g].pc /\ ToldGens(x, gs)[g].version = gs[g].version
             /\ ToldGens(x, gs)[g].lap = gs[g].lap
             /\ x \in gs[g].lap \/ x \in Exempt =>
                  (gs[g].missed \subseteq Exempt => ToldGens(x, gs)[g].missed \subseteq Exempt)
  <2>1. gs[g] \in GenRow
    OBVIOUS
  <2> QED BY <1>1, <2>1, ToldRow
<1>3. ToldGens(x, gs) \in [Generators -> GenRow]
  BY <1>2 DEF ToldGens
<1> QED BY <1>2, <1>3 DEF GensKept, IsGenerating

\* Work that begins is known to every generation past its check.
LEMMA BegunGens ==
  ASSUME NEW gs \in [Generators -> GenRow], NEW x \in ReportWork
  PROVE  /\ Begun(x, gs) \in [Generators -> GenRow]
         /\ GensKept(gs, Begun(x, gs))
         /\ \A g \in Generators : IsGenerating(Begun(x, gs)[g]) => x \in Begun(x, gs)[g].lap
<1>1. ASSUME NEW g \in Generators
      PROVE  /\ Begun(x, gs)[g] \in GenRow
             /\ Begun(x, gs)[g].pc = gs[g].pc /\ Begun(x, gs)[g].version = gs[g].version
             /\ gs[g].lap \subseteq Begun(x, gs)[g].lap /\ Begun(x, gs)[g].missed = gs[g].missed
             /\ IsGenerating(gs[g]) => x \in Begun(x, gs)[g].lap
  <2>1. CASE IsGenerating(gs[g])
    <3>1. Begun(x, gs)[g] = [gs[g] EXCEPT !.lap = gs[g].lap \cup {x}]
      BY <2>1 DEF Begun, IsGenerating
    <3>2. gs[g].lap \cup {x} \subseteq ReportWork
      BY DEF GenRow
    <3> QED BY <3>1, <3>2 DEF GenRow
  <2>2. CASE ~IsGenerating(gs[g])
    <3>1. Begun(x, gs)[g] = gs[g]
      BY <2>2 DEF Begun, IsGenerating
    <3> QED BY <3>1, <2>2
  <2> QED BY <2>1, <2>2
<1>2. Begun(x, gs) \in [Generators -> GenRow]
  BY <1>1 DEF Begun
<1> QED BY <1>1, <1>2 DEF GensKept, IsGenerating

\* Reopening puts the report task back to do when something was marked.
LEMMA ReopenedFlow ==
  ASSUME NEW f \in FlowRow, NEW marked
  PROVE  /\ Reopened(f, marked) \in FlowRow
         /\ Reopened(f, marked).task = "completed" => marked = {} /\ f.task = "completed"
<1>1. CASE marked = {}
  BY <1>1 DEF Reopened
<1>2. CASE marked # {}
  <2>1. Reopened(f, marked) = [f EXCEPT !.report = "active", !.task = "todo"]
    BY <1>2 DEF Reopened
  <2> QED BY <2>1 DEF FlowRow
<1> QED BY <1>1, <1>2

\* Reconciling completes no report task, and one that must wait is put back to do.
LEMMA ReconciledFlow ==
  ASSUME NEW f \in FlowRow, NEW rt, NEW ck, NEW ex
  PROVE  /\ Reconciled(f, rt, ck, ex) \in FlowRow
         /\ Reconciled(f, rt, ck, ex).task = "completed" =>
              f.task = "completed" /\ ~MustWait(f, rt, ck, ex)
<1> DEFINE final == f.final /\ ~ActiveRun(rt)
           g == [f EXCEPT !.final = final]
<1>1. final \in BOOLEAN
  BY DEF FlowRow
<1>2. g \in FlowRow /\ g.task = f.task
  BY <1>1 DEF FlowRow
<1> HIDE DEF final
<1>3. CASE MustWait(f, rt, ck, ex)
  <2>1. Reconciled(f, rt, ck, ex) = [g EXCEPT !.remediation = "active", !.report = "pending", !.task = "todo"]
    BY <1>3 DEF Reconciled, final
  <2> HIDE DEF g
  <2> QED BY <2>1, <1>2 DEF FlowRow
<1>4. CASE ~MustWait(f, rt, ck, ex)
  <2>1. Reconciled(f, rt, ck, ex) = [g EXCEPT !.remediation = "completed",
                                              !.report = IF g.report = "pending" THEN "active" ELSE g.report]
    BY <1>4 DEF Reconciled, final
  <2> HIDE DEF g
  <2> QED BY <2>1, <1>2, <1>4 DEF FlowRow
<1> QED BY <1>3, <1>4

\* Reconciling after a change that left the report task completed only with a report.
LEMMA ReconcilesKeeps ==
  ASSUME NEW x, NEW f \in FlowRow, NEW vs \in [Versions -> VersionRow], NEW rt, NEW ck, NEW ex, NEW rm,
         Reconciles(x, f, vs, rt, ck, ex), DoneSound(f, vs, rm)
  PROVE  /\ flow' \in FlowRow /\ versions' \in [Versions -> VersionRow]
         /\ RowsKept(vs, versions') /\ DoneSound(flow', versions', rm)
<1>1. /\ flow' = Reconciled(f, rt, ck, ex)
      /\ versions' = IF MustWait(f, rt, ck, ex) THEN Invalidated(vs) ELSE vs
  BY DEF Reconciles, Writes
<1>2. flow' \in FlowRow /\ (flow'.task = "completed" => f.task = "completed" /\ ~MustWait(f, rt, ck, ex))
  BY <1>1, ReconciledFlow
<1>3. CASE MustWait(f, rt, ck, ex)
  BY <1>1, <1>2, <1>3, InvalidatedRows DEF DoneSound
<1>4. CASE ~MustWait(f, rt, ck, ex)
  BY <1>1, <1>2, <1>4, Unmoved DEF DoneSound
<1> QED BY <1>3, <1>4

-----------------------------------------------------------------------------
(* Requests.                                                                *)

LEMMA InitInvariant == RepInit => RepInvariant
<1> SUFFICES ASSUME RepInit PROVE RepInvariant
  OBVIOUS
<1>1. /\ NoVersion \in VersionRow /\ NoVersion.status = "none"
      /\ IdleGen \in GenRow /\ ~IsGenerating(IdleGen)
  BY DEF NoVersion, VersionRow, VersionStatuses, IdleGen, GenRow, IsGenerating
<1>2. versions \in [Versions -> VersionRow] /\ \A v \in Versions : versions[v].status = "none"
  BY <1>1 DEF RepInit
<1>3. gen \in [Generators -> GenRow] /\ \A g \in Generators : ~IsGenerating(gen[g])
  BY <1>1 DEF RepInit
<1>4. flow \in FlowRow /\ flow.task = "todo"
  BY DEF RepInit, FlowRow
<1>5. removed \in BOOLEAN
  BY DEF RepInit
<1>6. task_status \in [Checks \cup DocChecks -> TaskStatuses]
  BY DEF RepInit, TaskStatuses
<1>7. retest \in [Retests -> RetestRow]
  BY DEF RepInit, RetestRow
<1>8. hit \in [Checks \cup TechRetests -> SUBSET Versions]
  BY DEF RepInit
<1>9. Typed(versions, gen, flow, task_status, retest, hit)
  BY <1>2, <1>3, <1>4, <1>6, <1>7, <1>8 DEF Typed
<1>10. Sound(versions, gen, task_status, retest, hit)
  BY <1>2, <1>3 DEF Sound, GensSound, RowsSound, GensKnow, RowsKnow
<1> QED BY <1>4, <1>9, <1>10, <1>5 DEF RepInvariant, DoneSound

\* The bookkeeping of one request for a report that neither takes a number nor publishes.
LEMMA GenStep ==
  ASSUME RepInvariant, NEW g \in Generators, NEW r \in GenRow, gen' = [gen EXCEPT ![g] = r],
         IsGenerating(r) => /\ IsGenerating(gen[g]) /\ r.lap = gen[g].lap
                            /\ r.version = gen[g].version /\ r.missed = gen[g].missed,
         flow' \in FlowRow, flow'.task = "completed" => flow.task = "completed",
         UNCHANGED <<versions, task_status, retest, hit, removed>>
  PROVE  RepInvariant'
<1>1. gen \in [Generators -> GenRow]
  BY DEF RepInvariant, Typed
<1>2. gen' \in [Generators -> GenRow] /\ GensKept(gen, gen')
  BY <1>1 DEF GensKept
<1>3. Typed(versions, gen, flow, task_status, retest, hit)'
  BY <1>2 DEF RepInvariant, Typed
<1>4. Sound(versions, gen', task_status, retest, hit)
  BY <1>2, Unmoved, SameWork, StepKeeps DEF RepInvariant
<1> QED BY <1>3, <1>4 DEF RepInvariant, DoneSound

\* An idle request is one, and takes part in no generation.
LEMMA IdleRow == IdleGen \in GenRow /\ ~IsGenerating(IdleGen)
BY DEF IdleGen, GenRow, IsGenerating

LEMMA CheckReadyKeeps ==
  ASSUME RepInvariant, NEW g \in Generators, CheckReady(g)
  PROVE  RepInvariant'
<1>1. gen[g] \in GenRow /\ flow \in FlowRow
  BY DEF RepInvariant, Typed
<1>2. [gen[g] EXCEPT !.pc = "checked"] \in GenRow /\ ~IsGenerating([gen[g] EXCEPT !.pc = "checked"])
  BY <1>1 DEF GenRow, IsGenerating
<1>3. gen' = [gen EXCEPT ![g] = [gen[g] EXCEPT !.pc = "checked"]]
  BY DEF CheckReady
<1> QED BY <1>1, <1>2, <1>3, GenStep DEF CheckReady

LEMMA StartReportKeeps ==
  ASSUME RepInvariant, NEW g \in Generators, StartReport(g)
  PROVE  RepInvariant'
<1>1. gen[g] \in GenRow /\ flow \in FlowRow
  BY DEF RepInvariant, Typed
<1>2. [gen[g] EXCEPT !.pc = "started"] \in GenRow /\ ~IsGenerating([gen[g] EXCEPT !.pc = "started"])
  BY <1>1 DEF GenRow, IsGenerating
<1>3. gen' = [gen EXCEPT ![g] = [gen[g] EXCEPT !.pc = "started"]]
  BY DEF StartReport
<1>4. flow' \in FlowRow /\ flow'.task = "in_progress"
  BY <1>1 DEF StartReport, FlowRow
<1> QED BY <1>2, <1>3, <1>4, GenStep DEF StartReport

LEMMA DrawKeeps ==
  ASSUME RepInvariant, NEW g \in Generators, Draw(g)
  PROVE  RepInvariant'
<1>1. gen[g] \in GenRow /\ flow \in FlowRow
  BY DEF RepInvariant, Typed
<1> DEFINE r == [gen[g] EXCEPT !.pc = "drawn"]
<1>2. r \in GenRow /\ r.lap = gen[g].lap /\ r.version = gen[g].version /\ r.missed = gen[g].missed
  BY <1>1 DEF GenRow
<1>3. gen' = [gen EXCEPT ![g] = r] /\ IsGenerating(gen[g])
  BY DEF Draw, IsGenerating
<1> QED BY <1>1, <1>2, <1>3, GenStep DEF Draw

LEMMA GenerationFailsKeeps ==
  ASSUME RepInvariant, NEW g \in Generators, GenerationFails(g)
  PROVE  RepInvariant'
<1>1. flow \in FlowRow
  BY DEF RepInvariant, Typed
<1>2. flow' \in FlowRow /\ (flow'.task = "completed" => flow.task = "completed")
  BY <1>1 DEF GenerationFails, FlowRow
<1> QED BY <1>2, IdleRow, GenStep DEF GenerationFails

LEMMA GenerationDiesKeeps ==
  ASSUME RepInvariant, NEW g \in Generators, GenerationDies(g)
  PROVE  RepInvariant'
<1>1. flow \in FlowRow
  BY DEF RepInvariant, Typed
<1> QED BY <1>1, IdleRow, GenStep DEF GenerationDies

LEMMA StopReportKeeps ==
  ASSUME RepInvariant, StopReport
  PROVE  RepInvariant'
<1>1. flow \in FlowRow
  BY DEF RepInvariant, Typed
<1>2. flow' \in FlowRow /\ flow'.task = "failed"
  BY <1>1 DEF StopReport, FlowRow
<1> QED BY <1>2 DEF StopReport, RepInvariant, Typed, DoneSound

\* When a report is ready to be generated, no work is under way.
LEMMA ReadyMeansQuiet ==
  ASSUME RepInvariant, ReportReady, NEW x
  PROVE  ~IsUnder(x, task_status, retest)
<1>1. DOMAIN task_status = Checks \cup DocChecks
  BY DEF RepInvariant, Typed
<1>2. ASSUME NEW c \in Checks \cup DocChecks
      PROVE  task_status[c] # "in_progress" /\ task_status[c] # "executing"
  BY <1>1 DEF ReportReady
<1>3. ASSUME NEW w \in Retests
      PROVE  retest[w].run # "queued" /\ retest[w].run # "running"
  BY DEF ReportReady, ActiveRun
<1> QED BY <1>2, <1>3 DEF IsUnder, Retests

\* The row of a request that has a number.
LEMMA LockedRow ==
  ASSUME NEW n, NEW r, r = [IdleGen EXCEPT !.pc = "locked", !.version = n]
  PROVE  r = [pc |-> "locked", version |-> n, lap |-> {}, missed |-> {}]
BY DEF IdleGen

\* A number is taken while nothing is under way that the generation could miss.
LEMMA TakeVersionKeeps ==
  ASSUME RepInvariant, NEW g \in Generators, TakeVersion(g)
  PROVE  RepInvariant'
<1> DEFINE r == [IdleGen EXCEPT !.pc = "locked", !.version = NextVersion]
<1>1. NextVersion \in Versions /\ NextVersion \in Nat
  BY DEF TakeVersion, Versions
<1>2. r = [pc |-> "locked", version |-> NextVersion, lap |-> {}, missed |-> {}]
  BY <1>1, LockedRow
<1>3. r \in GenRow /\ r.missed = {} /\ r.version \in Versions
  BY <1>1, <1>2 DEF GenRow
<1> HIDE DEF r
<1>4. gen' = [gen EXCEPT ![g] = r] /\ gen \in [Generators -> GenRow]
  BY DEF TakeVersion, r, RepInvariant, Typed
<1>5. gen' \in [Generators -> GenRow] /\ gen'[g] = r /\ \A h \in Generators : h # g => gen'[h] = gen[h]
  BY <1>3, <1>4
<1>6. UNCHANGED <<versions, flow, task_status, retest, hit, removed>>
  BY DEF TakeVersion
<1>7. GensSound(gen')
  BY <1>3, <1>5 DEF RepInvariant, Sound, GensSound
<1>8. ReportReady
  BY DEF TakeVersion
<1>9. GensKnow(gen', task_status, retest)
  BY <1>8, ReadyMeansQuiet DEF GensKnow
<1>10. Sound(versions, gen, task_status, retest, hit)'
  BY <1>6, <1>7, <1>9 DEF RepInvariant, Sound
<1> QED BY <1>5, <1>6, <1>10 DEF RepInvariant, Typed, DoneSound

\* What a generation knows is what its version knows once it is current.
LEMMA PublishKeeps ==
  ASSUME RepInvariant, NEW g \in Generators, Publish(g)
  PROVE  RepInvariant'
<1> DEFINE row == [status |-> "current", lap |-> gen[g].lap, missed |-> gen[g].missed]
           n == gen[g].version
<1>1. /\ gen \in [Generators -> GenRow] /\ versions \in [Versions -> VersionRow] /\ flow \in FlowRow
      /\ IsGenerating(gen[g])
  BY DEF RepInvariant, Typed, Publish, IsGenerating
<1>2. gen[g].missed \subseteq Exempt /\ n \in Versions
  BY <1>1 DEF RepInvariant, Sound, GensSound
<1>3. /\ row \in VersionRow /\ row.status = "current"
      /\ row.lap = gen[g].lap /\ row.missed = gen[g].missed
  BY <1>1 DEF GenRow, VersionRow, VersionStatuses
<1>4. versions' = [Invalidated(versions) EXCEPT ![n] = row]
  BY DEF Publish, Published
<1> HIDE DEF row, n
<1>5. /\ versions' \in [Versions -> VersionRow] /\ versions'[n] = row
      /\ \A v \in Versions : v # n => versions'[v].status # "current"
  BY <1>1, <1>2, <1>3, <1>4, InvalidatedRows
<1>6. gen' = [gen EXCEPT ![g] = IdleGen]
  BY DEF Publish
<1>7. gen' \in [Generators -> GenRow] /\ GensKept(gen, gen')
  BY <1>1, <1>6, IdleRow DEF GensKept
<1>8. UNCHANGED <<task_status, retest, hit>> /\ removed' \in BOOLEAN
  BY DEF Publish
<1>9. flow' \in FlowRow
  BY <1>1 DEF Publish, FlowRow
<1>10. GensSound(gen') /\ GensKnow(gen', task_status, retest)
  BY <1>7 DEF RepInvariant, Sound, GensSound, GensKnow, GensKept
<1>11. RowsSound(versions')
  BY <1>2, <1>3, <1>5 DEF RowsSound
<1>12. ASSUME NEW x \in ReportWork, IsDeep(x, task_status, retest)
       PROVE  x \in row.lap
  <2>1. IsUnder(x, task_status, retest)
    BY <1>12 DEF IsUnder, IsDeep
  <2> QED BY <1>1, <1>3, <2>1 DEF RepInvariant, Sound, GensKnow
<1>13. RowsKnow(versions', task_status, retest, hit)
  BY <1>5, <1>12 DEF RowsKnow
<1>14. HasCurrent(versions')
  BY <1>2, <1>3, <1>5 DEF HasCurrent
<1> QED BY <1>5, <1>7, <1>8, <1>9, <1>10, <1>11, <1>13, <1>14 DEF RepInvariant, Typed, Sound, DoneSound

\* Versions that are deleted are no longer current.
LEMMA DeleteVersionsKeeps ==
  ASSUME RepInvariant, NEW vs \in SUBSET Versions, DeleteVersions(vs)
  PROVE  RepInvariant'
<1>1. versions \in [Versions -> VersionRow] /\ NoVersion \in VersionRow /\ NoVersion.status = "none"
  BY DEF RepInvariant, Typed, NoVersion, VersionRow, VersionStatuses
<1>2. versions' = [v \in Versions |-> IF v \in vs THEN NoVersion ELSE versions[v]]
  BY DEF DeleteVersions
<1>3. versions' \in [Versions -> VersionRow] /\ RowsKept(versions, versions')
  BY <1>1, <1>2 DEF RowsKept
<1>4. UNCHANGED <<flow, gen, task_status, retest, hit>> /\ removed' \in BOOLEAN
  BY DEF DeleteVersions
<1>5. Sound(versions', gen, task_status, retest, hit)
  BY <1>3, Unmoved, SameWork, StepKeeps DEF RepInvariant
<1>6. DoneSound(flow, versions', removed')
  <2>1. CASE vs \cap CurrentOnes(versions) # {}
    BY <2>1 DEF DeleteVersions, DoneSound
  <2>2. CASE vs \cap CurrentOnes(versions) = {}
    <3>1. HasCurrent(versions) => HasCurrent(versions')
      BY <2>2, <1>2 DEF HasCurrent, CurrentOnes
    <3>2. removed' = removed
      BY <2>2 DEF DeleteVersions, RepInvariant
    <3> QED BY <3>1, <3>2 DEF RepInvariant, DoneSound
  <2> QED BY <2>1, <2>2
<1> QED BY <1>3, <1>4, <1>5, <1>6 DEF RepInvariant, Typed

-----------------------------------------------------------------------------
(* Checks and promotions.                                                   *)

\* What a step of the work owes: types, and the relations of StepKeeps.
LEMMA WorkStep ==
  ASSUME RepInvariant, Typed(versions', gen', flow', task_status', retest', hit'),
         RowsKept(versions, versions'), GensKept(gen, gen'),
         WorkKnown(task_status, retest, task_status', retest', gen'),
         WorkMarked(task_status, retest, hit, task_status', retest', hit', versions'),
         DoneSound(flow', versions', removed), removed' = removed
  PROVE  RepInvariant'
<1>1. Sound(versions', gen', task_status', retest', hit')
  BY StepKeeps DEF RepInvariant
<1> QED BY <1>1 DEF RepInvariant

\* A task that changes its status leaves all other work as it was.
LEMMA TaskMoves ==
  ASSUME NEW ts \in [Checks \cup DocChecks -> TaskStatuses], NEW rt, NEW c \in Checks \cup DocChecks,
         NEW s \in TaskStatuses, NEW ts2, ts2 = [ts EXCEPT ![c] = s]
  PROVE  /\ ts2 \in [Checks \cup DocChecks -> TaskStatuses]
         /\ \A x : x # c => (IsUnder(x, ts2, rt) <=> IsUnder(x, ts, rt))
         /\ \A x : x # c => (IsDeep(x, ts2, rt) <=> IsDeep(x, ts, rt))
         /\ IsUnder(c, ts2, rt) => s = "in_progress" \/ s = "executing"
         /\ IsDeep(c, ts2, rt) => s = "executing" \/ (s = "in_progress" /\ c \in DocChecks)
BY DEF IsUnder, IsDeep, Retests

\* The results of x are committed, with what its execution marked: when every current
\* version left knows of x, no report misses it, and a completed task has its report.
LEMMA ResultsKeep ==
  ASSUME RepInvariant, NEW marked, NEW x \in ReportWork \cup Exempt,
         \A v \in Versions : versions[v].status = "current" /\ v \notin marked
                             => x \in versions[v].lap \/ x \in Exempt,
         marked \subseteq Versions
  PROVE  /\ Reopened(flow, marked) \in FlowRow
         /\ ToldRows(x, Marked(versions, marked)) \in [Versions -> VersionRow]
         /\ RowsKept(versions, ToldRows(x, Marked(versions, marked)))
         /\ DoneSound(Reopened(flow, marked), ToldRows(x, Marked(versions, marked)), removed)
<1> DEFINE vs == Marked(versions, marked)
<1>1. versions \in [Versions -> VersionRow] /\ flow \in FlowRow
  BY DEF RepInvariant, Typed
<1>2. /\ vs \in [Versions -> VersionRow] /\ RowsKept(versions, vs)
      /\ \A v \in Versions : vs[v].status = "current" => v \notin marked
      /\ \A v \in Versions : v \notin marked => vs[v] = versions[v]
  BY <1>1, MarkedRows
<1> HIDE DEF vs
<1>3. \A v \in Versions : vs[v].status = "current" => x \in vs[v].lap \/ x \in Exempt
  BY <1>2 DEF RowsKept
<1>4. /\ ToldRows(x, vs) \in [Versions -> VersionRow] /\ RowsKept(vs, ToldRows(x, vs))
      /\ \A v \in Versions : ToldRows(x, vs)[v].status = vs[v].status
  BY <1>2, <1>3, ToldRowsKept
<1>5. RowsKept(versions, ToldRows(x, vs))
  BY <1>2, <1>4, RowsThrough
<1>6. Reopened(flow, marked) \in FlowRow
      /\ (Reopened(flow, marked).task = "completed" => marked = {} /\ flow.task = "completed")
  BY <1>1, ReopenedFlow
<1>7. marked = {} => (HasCurrent(versions) => HasCurrent(ToldRows(x, vs)))
  BY <1>2, <1>4 DEF HasCurrent
<1>8. DoneSound(Reopened(flow, marked), ToldRows(x, vs), removed)
  BY <1>6, <1>7 DEF RepInvariant, DoneSound
<1> QED BY <1>4, <1>5, <1>6, <1>8 DEF vs

\* A request that invalidates the reports before its work is done leaves none current.
LEMMA InvalidatedKeep ==
  ASSUME RepInvariant
  PROVE  /\ Reopened(flow, CurrentOnes(versions)) \in FlowRow
         /\ Invalidated(versions) \in [Versions -> VersionRow]
         /\ RowsKept(versions, Invalidated(versions))
         /\ \A v \in Versions : Invalidated(versions)[v].status # "current"
         /\ Reopened(flow, CurrentOnes(versions)).task = "completed" => removed
<1>1. versions \in [Versions -> VersionRow] /\ flow \in FlowRow
  BY DEF RepInvariant, Typed
<1> QED BY <1>1, InvalidatedRows, ReopenedFlow, CurrentRows DEF RepInvariant, DoneSound

LEMMA StartCheckKeeps ==
  ASSUME RepInvariant, NEW c \in Checks, StartCheck(c)
  PROVE  RepInvariant'
<1>1. gen \in [Generators -> GenRow] /\ task_status \in [Checks \cup DocChecks -> TaskStatuses]
  BY DEF RepInvariant, Typed
<1>2. /\ gen' = Begun(c, gen) /\ task_status' = [task_status EXCEPT ![c] = "in_progress"]
      /\ UNCHANGED <<versions, flow, retest, hit, removed>>
  BY DEF StartCheck
<1>3. "in_progress" \in TaskStatuses /\ c \in ReportWork /\ c \in Checks \cup DocChecks /\ c \notin DocChecks
  BY DEF TaskStatuses, ReportWork
<1>4. /\ gen' \in [Generators -> GenRow] /\ GensKept(gen, gen')
      /\ \A g \in Generators : IsGenerating(gen'[g]) => c \in gen'[g].lap
  BY <1>1, <1>2, <1>3, BegunGens
<1>5. ~IsDeep(c, task_status', retest)
  BY <1>1, <1>2, <1>3 DEF IsUnder, IsDeep, Retests
<1>6. /\ task_status' \in [Checks \cup DocChecks -> TaskStatuses]
      /\ \A x : x # c => (IsUnder(x, task_status', retest) <=> IsUnder(x, task_status, retest))
      /\ \A x : x # c => (IsDeep(x, task_status', retest) <=> IsDeep(x, task_status, retest))
  BY <1>1, <1>2, <1>3, TaskMoves
<1>7. WorkKnown(task_status, retest, task_status', retest', gen')
  BY <1>2, <1>4, <1>6, <1>5 DEF WorkKnown
<1>8. WorkMarked(task_status, retest, hit, task_status', retest', hit', versions')
  BY <1>2, <1>6, <1>5 DEF WorkMarked
<1> QED BY <1>2, <1>4, <1>6, <1>7, <1>8, Unmoved, WorkStep DEF RepInvariant, Typed

LEMMA BeginCheckKeeps ==
  ASSUME RepInvariant, NEW c \in Checks, BeginCheck(c)
  PROVE  RepInvariant'
<1>1. task_status \in [Checks \cup DocChecks -> TaskStatuses] /\ hit \in [Checks \cup TechRetests -> SUBSET Versions]
  BY DEF RepInvariant, Typed
<1>2. /\ task_status[c] = "in_progress" /\ task_status' = [task_status EXCEPT ![c] = "executing"]
      /\ hit' = [hit EXCEPT ![c] = CurrentOnes(versions)]
      /\ UNCHANGED <<versions, flow, gen, retest, removed>>
  BY DEF BeginCheck
<1>3. "executing" \in TaskStatuses /\ c \in Checks \cup DocChecks
  BY DEF TaskStatuses
<1>4. /\ task_status' \in [Checks \cup DocChecks -> TaskStatuses]
      /\ \A x : x # c => (IsUnder(x, task_status', retest) <=> IsUnder(x, task_status, retest))
      /\ \A x : x # c => (IsDeep(x, task_status', retest) <=> IsDeep(x, task_status, retest))
  BY <1>1, <1>2, <1>3, TaskMoves
<1>5. /\ hit' \in [Checks \cup TechRetests -> SUBSET Versions] /\ hit'[c] = CurrentOnes(versions)
      /\ \A x \in Checks \cup TechRetests : x # c => hit'[x] = hit[x]
  BY <1>1, <1>2, CurrentRows
<1>6. IsUnder(c, task_status, retest)
  BY <1>2 DEF IsUnder
<1>7. WorkKnown(task_status, retest, task_status', retest', gen')
  BY <1>2, <1>4, <1>6 DEF WorkKnown
<1>8. \A v \in Versions : versions'[v].status = "current" => HitBy(c, v, hit')
  BY <1>2, <1>5, CurrentRows DEF HitBy
<1>9. WorkMarked(task_status, retest, hit, task_status', retest', hit', versions')
  BY <1>2, <1>4, <1>5, <1>8 DEF WorkMarked
<1> QED BY <1>2, <1>4, <1>5, <1>7, <1>9, Unmoved, WorkStep DEF RepInvariant, Typed

LEMMA EndCheckKeeps ==
  ASSUME RepInvariant, NEW c \in Checks, NEW found \in BOOLEAN, EndCheck(c, found)
  PROVE  RepInvariant'
<1> DEFINE vs == ToldRows(c, Marked(versions, hit[c]))
           f == Reopened(flow, hit[c])
           ex == IF found THEN extra \cup {c} ELSE extra
<1>1. /\ task_status \in [Checks \cup DocChecks -> TaskStatuses] /\ gen \in [Generators -> GenRow]
      /\ hit \in [Checks \cup TechRetests -> SUBSET Versions]
  BY DEF RepInvariant, Typed
<1>2. /\ task_status[c] = "executing" /\ task_status' = [task_status EXCEPT ![c] = "completed"]
      /\ hit' = [hit EXCEPT ![c] = {}] /\ gen' = ToldGens(c, gen)
      /\ Reconciles(c, f, vs, retest, task_status', ex)
      /\ UNCHANGED <<retest, removed>>
  BY DEF EndCheck
<1>3. "completed" \in TaskStatuses /\ c \in ReportWork /\ c \in Checks \cup DocChecks /\ hit[c] \subseteq Versions
  BY <1>1 DEF TaskStatuses, ReportWork
<1>4. /\ task_status' \in [Checks \cup DocChecks -> TaskStatuses]
      /\ \A x : x # c => (IsUnder(x, task_status', retest) <=> IsUnder(x, task_status, retest))
      /\ \A x : x # c => (IsDeep(x, task_status', retest) <=> IsDeep(x, task_status, retest))
  BY <1>1, <1>2, <1>3, TaskMoves
<1>5. ~IsUnder(c, task_status', retest) /\ ~IsDeep(c, task_status', retest)
  BY <1>1, <1>2, <1>3 DEF IsUnder, IsDeep, Retests
<1>6. IsUnder(c, task_status, retest) /\ IsDeep(c, task_status, retest)
  BY <1>2 DEF IsUnder, IsDeep
<1>7. \A v \in Versions : versions[v].status = "current" /\ v \notin hit[c] => c \in versions[v].lap
  BY <1>3, <1>6 DEF RepInvariant, Sound, RowsKnow, HitBy
<1>8. \A g \in Generators : IsGenerating(gen[g]) => c \in gen[g].lap
  BY <1>3, <1>6 DEF RepInvariant, Sound, GensKnow
<1>9. gen' \in [Generators -> GenRow] /\ GensKept(gen, gen')
  BY <1>1, <1>2, <1>3, <1>8, ToldGensKept
<1>10. /\ f \in FlowRow /\ vs \in [Versions -> VersionRow]
      /\ RowsKept(versions, vs) /\ DoneSound(f, vs, removed)
  BY <1>3, <1>7, ResultsKeep
<1> HIDE DEF vs, f, ex
<1>11. /\ flow' \in FlowRow /\ versions' \in [Versions -> VersionRow]
       /\ RowsKept(vs, versions') /\ DoneSound(flow', versions', removed)
  BY <1>2, <1>10, ReconcilesKeeps
<1>12. RowsKept(versions, versions')
  BY <1>10, <1>11, RowsThrough
<1>13. /\ hit' \in [Checks \cup TechRetests -> SUBSET Versions]
       /\ \A x \in Checks \cup TechRetests : x # c => hit'[x] = hit[x]
  BY <1>1, <1>2
<1>14. WorkKnown(task_status, retest, task_status', retest', gen')
  BY <1>2, <1>4, <1>5 DEF WorkKnown
<1>15. WorkMarked(task_status, retest, hit, task_status', retest', hit', versions')
  BY <1>2, <1>4, <1>13, <1>5 DEF WorkMarked
<1>16. Typed(versions', gen', flow', task_status', retest', hit')
  BY <1>2, <1>4, <1>9, <1>11, <1>13 DEF RepInvariant, Typed
<1> QED BY <1>2, <1>9, <1>11, <1>12, <1>14, <1>15, <1>16, WorkStep

LEMMA CreateDocumentRunKeeps ==
  ASSUME RepInvariant, NEW c \in DocChecks, CreateDocumentRun(c)
  PROVE  RepInvariant'
<1>1. task_status \in [Checks \cup DocChecks -> TaskStatuses] /\ gen \in [Generators -> GenRow]
  BY DEF RepInvariant, Typed
<1>2. /\ task_status' = [task_status EXCEPT ![c] = "in_progress"] /\ gen' = Begun(c, gen)
      /\ flow' = Reopened(flow, CurrentOnes(versions)) /\ versions' = Invalidated(versions)
      /\ UNCHANGED <<retest, hit, removed>>
  BY DEF CreateDocumentRun, Writes
<1>3. "in_progress" \in TaskStatuses /\ c \in ReportWork /\ c \in Checks \cup DocChecks
  BY DEF TaskStatuses, ReportWork
<1>4. /\ gen' \in [Generators -> GenRow] /\ GensKept(gen, gen')
      /\ \A g \in Generators : IsGenerating(gen'[g]) => c \in gen'[g].lap
  BY <1>1, <1>2, <1>3, BegunGens
<1>5. /\ task_status' \in [Checks \cup DocChecks -> TaskStatuses]
      /\ \A x : x # c => (IsUnder(x, task_status', retest) <=> IsUnder(x, task_status, retest))
  BY <1>1, <1>2, <1>3, TaskMoves
<1>6. /\ flow' \in FlowRow /\ versions' \in [Versions -> VersionRow] /\ RowsKept(versions, versions')
      /\ \A v \in Versions : versions'[v].status # "current"
      /\ DoneSound(flow', versions', removed)
  BY <1>2, InvalidatedKeep DEF DoneSound
<1>7. WorkKnown(task_status, retest, task_status', retest', gen')
  BY <1>2, <1>4, <1>5 DEF WorkKnown
<1>8. WorkMarked(task_status, retest, hit, task_status', retest', hit', versions')
  BY <1>6 DEF WorkMarked
<1> QED BY <1>2, <1>4, <1>5, <1>6, <1>7, <1>8, WorkStep DEF RepInvariant, Typed

LEMMA EndDocumentRunKeeps ==
  ASSUME RepInvariant, NEW c \in DocChecks, EndDocumentRun(c)
  PROVE  RepInvariant'
<1>1. /\ task_status \in [Checks \cup DocChecks -> TaskStatuses] /\ gen \in [Generators -> GenRow]
      /\ versions \in [Versions -> VersionRow]
  BY DEF RepInvariant, Typed
<1>2. /\ task_status[c] = "in_progress" /\ task_status' = [task_status EXCEPT ![c] = "analysed"]
      /\ gen' = ToldGens(c, gen) /\ versions' = ToldRows(c, versions)
      /\ UNCHANGED <<flow, retest, hit, removed>>
  BY DEF EndDocumentRun
<1>3. "analysed" \in TaskStatuses /\ c \in ReportWork /\ c \in Checks \cup DocChecks /\ c \notin Checks \cup TechRetests
  BY DEF TaskStatuses, ReportWork, Retests
<1>4. /\ task_status' \in [Checks \cup DocChecks -> TaskStatuses]
      /\ \A x : x # c => (IsUnder(x, task_status', retest) <=> IsUnder(x, task_status, retest))
      /\ \A x : x # c => (IsDeep(x, task_status', retest) <=> IsDeep(x, task_status, retest))
  BY <1>1, <1>2, <1>3, TaskMoves
<1>5. ~IsUnder(c, task_status', retest) /\ ~IsDeep(c, task_status', retest)
  BY <1>1, <1>2, <1>3 DEF IsUnder, IsDeep, Retests
<1>6. IsUnder(c, task_status, retest) /\ IsDeep(c, task_status, retest)
  BY <1>2 DEF IsUnder, IsDeep
<1>7. \A v \in Versions : versions[v].status = "current" => c \in versions[v].lap
  BY <1>3, <1>6 DEF RepInvariant, Sound, RowsKnow, HitBy
<1>8. \A g \in Generators : IsGenerating(gen[g]) => c \in gen[g].lap
  BY <1>3, <1>6 DEF RepInvariant, Sound, GensKnow
<1>9. gen' \in [Generators -> GenRow] /\ GensKept(gen, gen')
  BY <1>1, <1>2, <1>3, <1>8, ToldGensKept
<1>10. /\ versions' \in [Versions -> VersionRow] /\ RowsKept(versions, versions')
      /\ \A v \in Versions : versions'[v].status = versions[v].status
  BY <1>1, <1>2, <1>3, <1>7, ToldRowsKept
<1>11. DoneSound(flow', versions', removed)
  BY <1>2, <1>10 DEF RepInvariant, DoneSound, HasCurrent
<1>12. WorkKnown(task_status, retest, task_status', retest', gen')
  BY <1>2, <1>4, <1>5 DEF WorkKnown
<1>13. WorkMarked(task_status, retest, hit, task_status', retest', hit', versions')
  BY <1>2, <1>4, <1>5 DEF WorkMarked
<1> QED BY <1>2, <1>4, <1>9, <1>10, <1>11, <1>12, <1>13, WorkStep DEF RepInvariant, Typed

LEMMA PromoteKeeps ==
  ASSUME RepInvariant, NEW p \in Promotions, Promote(p)
  PROVE  RepInvariant'
<1> DEFINE none == Invalidated(versions)
           vs == ToldRows(p, none)
           f == Reopened(flow, CurrentOnes(versions))
<1>1. gen \in [Generators -> GenRow] /\ versions \in [Versions -> VersionRow] /\ p \in ReportWork
  BY DEF RepInvariant, Typed, ReportWork
<1>2. /\ gen' = ToldGens(p, Begun(p, gen)) /\ Reconciles(p, f, vs, retest, task_status, extra')
      /\ UNCHANGED <<task_status, retest, hit, removed>>
  BY DEF Promote
<1>3. /\ Begun(p, gen) \in [Generators -> GenRow] /\ GensKept(gen, Begun(p, gen))
      /\ \A g \in Generators : IsGenerating(Begun(p, gen)[g]) => p \in Begun(p, gen)[g].lap
  BY <1>1, BegunGens
<1>4. gen' \in [Generators -> GenRow] /\ GensKept(Begun(p, gen), gen')
  BY <1>1, <1>2, <1>3, ToldGensKept
<1>5. GensKept(gen, gen')
  BY <1>3, <1>4 DEF GensKept
<1>6. /\ f \in FlowRow /\ none \in [Versions -> VersionRow] /\ RowsKept(versions, none)
      /\ \A v \in Versions : none[v].status # "current"
      /\ f.task = "completed" => removed
  BY InvalidatedKeep
<1> HIDE DEF none, f
<1>7. vs \in [Versions -> VersionRow] /\ RowsKept(none, vs)
  BY <1>1, <1>6, ToldRowsKept
<1> HIDE DEF vs
<1>8. /\ flow' \in FlowRow /\ versions' \in [Versions -> VersionRow]
      /\ RowsKept(vs, versions') /\ DoneSound(flow', versions', removed)
  BY <1>2, <1>6, <1>7, ReconcilesKeeps DEF DoneSound
<1>9. RowsKept(versions, versions')
  BY <1>6, <1>7, <1>8, RowsThrough
<1> QED BY <1>2, <1>4, <1>5, <1>8, <1>9, SameWork, WorkStep DEF RepInvariant, Typed

-----------------------------------------------------------------------------
(* Retests.                                                                 *)

\* A retest whose row becomes r, with the types that hold before.
LEMMA PutMoves ==
  ASSUME RepInvariant, NEW w \in Retests, NEW r \in RetestRow, retest' = Put(w, r)
  PROVE  /\ retest' \in [Retests -> RetestRow] /\ retest'[w] = r /\ retest[w] \in RetestRow
         /\ \A x : x # w => (IsUnder(x, task_status, retest') <=> IsUnder(x, task_status, retest))
         /\ \A x : x # w => (IsDeep(x, task_status, retest') <=> IsDeep(x, task_status, retest))
         /\ w \in ReportWork
<1>1. retest \in [Retests -> RetestRow]
  BY DEF RepInvariant, Typed
<1>2. retest' = [retest EXCEPT ![w] = r]
  BY DEF Put
<1>3. w \in ReportWork
  BY DEF ReportWork
<1>4. retest' \in [Retests -> RetestRow] /\ retest'[w] = r /\ retest[w] \in RetestRow
  BY <1>1, <1>2
<1>5. \A x : x # w => (IsUnder(x, task_status, retest') <=> IsUnder(x, task_status, retest))
  BY <1>1, <1>2 DEF IsUnder, Retests
<1>6. \A x : x # w => (IsDeep(x, task_status, retest') <=> IsDeep(x, task_status, retest))
  BY <1>1, <1>2 DEF IsDeep, Retests
<1> QED BY <1>3, <1>4, <1>5, <1>6

\* Whether a retest is under way is read from its own row.
LEMMA UnderRow ==
  ASSUME NEW w \in Retests, NEW rt, NEW ts
  PROVE  /\ IsUnder(w, ts, rt) <=> /\ rt[w].run = "queued" \/ rt[w].run = "running"
                                   /\ w \in DocRetests => ~rt[w].resumed
         /\ IsDeep(w, ts, rt) <=> \/ w \in TechRetests /\ rt[w].run = "running"
                                  \/ /\ w \in DocRetests /\ ~rt[w].resumed
                                     /\ rt[w].run = "queued" \/ rt[w].run = "running"
BY DEF IsUnder, IsDeep, Retests

LEMMA CreateRunKeeps ==
  ASSUME RepInvariant, NEW w \in Retests, CreateRun(w)
  PROVE  RepInvariant'
<1> DEFINE r == [retest[w] EXCEPT !.run = "queued", !.item = "queued",
                                  !.doc = IF w \in DocRetests THEN "running" ELSE "none"]
           none == Invalidated(versions)
           f == Reopened(flow, CurrentOnes(versions))
<1>1. retest[w] \in RetestRow /\ gen \in [Generators -> GenRow]
  BY DEF RepInvariant, Typed
<1>2. r \in RetestRow
  BY <1>1 DEF RetestRow
<1>3. /\ retest' = Put(w, r) /\ gen' = Begun(w, gen)
      /\ Reconciles(w, f, none, retest', task_status, extra)
      /\ UNCHANGED <<task_status, hit, removed>>
  BY DEF CreateRun
<1> HIDE DEF r
<1>4. /\ retest' \in [Retests -> RetestRow] /\ w \in ReportWork
      /\ \A x : x # w => (IsUnder(x, task_status, retest') <=> IsUnder(x, task_status, retest))
  BY <1>2, <1>3, PutMoves
<1>5. /\ gen' \in [Generators -> GenRow] /\ GensKept(gen, gen')
      /\ \A g \in Generators : IsGenerating(gen'[g]) => w \in gen'[g].lap
  BY <1>1, <1>3, <1>4, BegunGens
<1>6. /\ f \in FlowRow /\ none \in [Versions -> VersionRow] /\ RowsKept(versions, none)
      /\ \A v \in Versions : none[v].status # "current"
      /\ f.task = "completed" => removed
  BY InvalidatedKeep
<1> HIDE DEF none, f
<1>7. /\ flow' \in FlowRow /\ versions' \in [Versions -> VersionRow]
      /\ RowsKept(none, versions') /\ DoneSound(flow', versions', removed)
  BY <1>3, <1>6, ReconcilesKeeps DEF DoneSound
<1>8. RowsKept(versions, versions') /\ \A v \in Versions : versions'[v].status # "current"
  BY <1>6, <1>7, RowsThrough DEF RowsKept
<1>9. WorkKnown(task_status, retest, task_status', retest', gen')
  BY <1>3, <1>4, <1>5 DEF WorkKnown
<1>10. WorkMarked(task_status, retest, hit, task_status', retest', hit', versions')
  BY <1>8 DEF WorkMarked
<1> QED BY <1>3, <1>4, <1>5, <1>7, <1>8, <1>9, <1>10, WorkStep DEF RepInvariant, Typed

\* A technical retest marks the versions there are; a document one invalidated them when it
\* was created.
LEMMA BeginRunKeeps ==
  ASSUME RepInvariant, NEW w \in Retests, BeginRun(w)
  PROVE  RepInvariant'
<1> DEFINE r == [retest[w] EXCEPT !.run = "running"]
<1>1. retest[w] \in RetestRow /\ hit \in [Checks \cup TechRetests -> SUBSET Versions]
  BY DEF RepInvariant, Typed
<1>2. r \in RetestRow /\ r.resumed = retest[w].resumed
  BY <1>1 DEF RetestRow
<1>3. /\ retest[w].run = "queued" /\ retest' = Put(w, r)
      /\ UNCHANGED <<versions, flow, gen, task_status, removed>>
      /\ IF w \in DocRetests THEN UNCHANGED hit ELSE hit' = [hit EXCEPT ![w] = CurrentOnes(versions)]
  BY DEF BeginRun
<1> HIDE DEF r
<1>4. /\ retest' \in [Retests -> RetestRow] /\ retest'[w] = r /\ w \in ReportWork
      /\ \A x : x # w => (IsUnder(x, task_status, retest') <=> IsUnder(x, task_status, retest))
      /\ \A x : x # w => (IsDeep(x, task_status, retest') <=> IsDeep(x, task_status, retest))
  BY <1>2, <1>3, PutMoves
<1>5. IsUnder(w, task_status, retest') => IsUnder(w, task_status, retest)
  BY <1>2, <1>3, <1>4, UnderRow
<1>6. WorkKnown(task_status, retest, task_status', retest', gen')
  BY <1>3, <1>4, <1>5 DEF WorkKnown
<1>7. /\ hit' \in [Checks \cup TechRetests -> SUBSET Versions]
      /\ WorkMarked(task_status, retest, hit, task_status', retest', hit', versions')
  <2>1. CASE w \in DocRetests
    <3>1. IsDeep(w, task_status, retest') => IsDeep(w, task_status, retest)
      BY <1>2, <1>3, <1>4, <2>1, UnderRow
    <3> QED BY <1>1, <1>3, <1>4, <2>1, <3>1 DEF WorkMarked
  <2>2. CASE w \notin DocRetests
    <3>1. w \in Checks \cup TechRetests /\ hit' = [hit EXCEPT ![w] = CurrentOnes(versions)]
      BY <1>3, <2>2 DEF Retests
    <3>2. /\ hit' \in [Checks \cup TechRetests -> SUBSET Versions] /\ hit'[w] = CurrentOnes(versions)
          /\ \A x \in Checks \cup TechRetests : x # w => hit'[x] = hit[x]
      BY <1>1, <3>1, CurrentRows
    <3>3. \A v \in Versions : versions'[v].status = "current" => HitBy(w, v, hit')
      BY <1>3, <3>1, <3>2, CurrentRows DEF HitBy
    <3> QED BY <1>3, <1>4, <3>2, <3>3 DEF WorkMarked
  <2> QED BY <2>1, <2>2
<1> QED BY <1>3, <1>4, <1>6, <1>7, Unmoved, WorkStep DEF RepInvariant, Typed

\* Retest steps that touch neither reports nor requests, and put no work under way.
LEMMA QuietRetest ==
  ASSUME RepInvariant, NEW w \in Retests, NEW r \in RetestRow, retest' = Put(w, r),
         \/ r.run = retest[w].run /\ r.resumed = retest[w].resumed
         \/ r.run = "cancelled",
         UNCHANGED <<versions, flow, gen, task_status, hit, removed>>
  PROVE  RepInvariant'
<1>1. /\ retest' \in [Retests -> RetestRow] /\ retest'[w] = r
      /\ \A x : x # w => (IsUnder(x, task_status, retest') <=> IsUnder(x, task_status, retest))
      /\ \A x : x # w => (IsDeep(x, task_status, retest') <=> IsDeep(x, task_status, retest))
  BY PutMoves
<1>2. IsUnder(w, task_status, retest') => IsUnder(w, task_status, retest)
  BY <1>1, UnderRow
<1>3. IsDeep(w, task_status, retest') => IsDeep(w, task_status, retest)
  BY <1>1, UnderRow
<1>4. WorkKnown(task_status, retest, task_status', retest', gen')
  BY <1>1, <1>2 DEF WorkKnown
<1>5. WorkMarked(task_status, retest, hit, task_status', retest', hit', versions')
  BY <1>1, <1>3 DEF WorkMarked
<1> QED BY <1>1, <1>4, <1>5, Unmoved, WorkStep DEF RepInvariant, Typed

LEMMA DocumentEndsKeeps ==
  ASSUME RepInvariant, NEW w \in Retests, DocumentEnds(w)
  PROVE  RepInvariant'
<1>1. PICK d \in {"pass", "fail", "failed", "cancelled"} : retest' = Put(w, [retest[w] EXCEPT !.doc = d])
  BY DEF DocumentEnds
<1> DEFINE r == [retest[w] EXCEPT !.doc = d]
<1>2. retest[w] \in RetestRow
  BY DEF RepInvariant, Typed
<1>3. r \in RetestRow /\ r.run = retest[w].run /\ r.resumed = retest[w].resumed
  BY <1>2 DEF RetestRow
<1>4. UNCHANGED <<versions, flow, gen, task_status, hit, removed>>
  BY DEF DocumentEnds
<1> QED BY <1>1, <1>3, <1>4, QuietRetest

LEMMA StopRunKeeps ==
  ASSUME RepInvariant, NEW w \in Retests, StopRun(w)
  PROVE  RepInvariant'
<1> DEFINE r == [retest[w] EXCEPT !.run = "cancelled", !.item = "cancelled", !.finding = "open"]
<1>1. retest[w] \in RetestRow
  BY DEF RepInvariant, Typed
<1>2. r \in RetestRow /\ r.run = "cancelled"
  BY <1>1 DEF RetestRow
<1>3. retest' = Put(w, r) /\ UNCHANGED <<versions, flow, gen, task_status, hit, removed>>
  BY DEF StopRun
<1> QED BY <1>2, <1>3, QuietRetest

\* A resumed document retest is none that a report would wait for; a technical one marks
\* the versions when it begins again.
LEMMA ResumeRunKeeps ==
  ASSUME RepInvariant, NEW w \in Retests, ResumeRun(w)
  PROVE  RepInvariant'
<1> DEFINE r == [retest[w] EXCEPT !.run = "queued", !.item = "queued", !.resumed = TRUE]
<1>1. retest[w] \in RetestRow /\ gen \in [Generators -> GenRow]
  BY DEF RepInvariant, Typed
<1>2. r \in RetestRow /\ r.run = "queued" /\ r.resumed
  BY <1>1 DEF RetestRow
<1>3. /\ retest' = Put(w, r) /\ gen' = Begun(w, gen)
      /\ UNCHANGED <<versions, flow, task_status, hit, removed>>
  BY DEF ResumeRun
<1> HIDE DEF r
<1>4. /\ retest' \in [Retests -> RetestRow] /\ retest'[w] = r /\ w \in ReportWork
      /\ \A x : x # w => (IsUnder(x, task_status, retest') <=> IsUnder(x, task_status, retest))
      /\ \A x : x # w => (IsDeep(x, task_status, retest') <=> IsDeep(x, task_status, retest))
  BY <1>2, <1>3, PutMoves
<1>5. ~IsDeep(w, task_status, retest')
  BY <1>2, <1>4, UnderRow
<1>6. /\ gen' \in [Generators -> GenRow] /\ GensKept(gen, gen')
      /\ \A g \in Generators : IsGenerating(gen'[g]) => w \in gen'[g].lap
  BY <1>1, <1>3, <1>4, BegunGens
<1>7. WorkKnown(task_status, retest, task_status', retest', gen')
  BY <1>3, <1>4, <1>6 DEF WorkKnown
<1>8. WorkMarked(task_status, retest, hit, task_status', retest', hit', versions')
  BY <1>3, <1>4, <1>5 DEF WorkMarked
<1> QED BY <1>3, <1>4, <1>6, <1>7, <1>8, Unmoved, WorkStep DEF RepInvariant, Typed

\* The verdict of a retest: what current reports there are know of it, or it was resumed.
LEMMA EndRunKeeps ==
  ASSUME RepInvariant, NEW w \in Retests,
         NEW o \in {"fixed", "still_present", "unable", "cancelled"}, EndRun(w, o)
  PROVE  RepInvariant'
<1> DEFINE r == [retest[w] EXCEPT !.run = IF o \in {"unable", "cancelled"} THEN "partial" ELSE "completed",
                                  !.item = o, !.finding = IF o = "fixed" THEN "fixed" ELSE "open"]
           marked == IF w \in TechRetests THEN hit[w] ELSE {}
           x == IF w \in DocRetests /\ retest[w].resumed THEN <<w, "resumed">> ELSE w
           f == Reopened(flow, marked)
           vs == ToldRows(x, Marked(versions, marked))
<1>1. /\ retest[w] \in RetestRow /\ gen \in [Generators -> GenRow]
      /\ hit \in [Checks \cup TechRetests -> SUBSET Versions]
  BY DEF RepInvariant, Typed
<1>2. r \in RetestRow /\ (r.run = "partial" \/ r.run = "completed")
  BY <1>1 DEF RetestRow
<1>3. retest[w].run = "running" /\ retest' = Put(w, r)
  BY DEF EndRun
<1>4. /\ gen' = ToldGens(x, gen)
      /\ hit' = [y \in DOMAIN hit |-> IF y = w THEN {} ELSE hit[y]]
      /\ Reconciles(w, f, vs, retest', task_status, extra)
      /\ UNCHANGED <<task_status, removed>>
  BY DEF EndRun
<1> HIDE DEF r
<1>5. /\ retest' \in [Retests -> RetestRow] /\ retest'[w] = r /\ w \in ReportWork
      /\ \A y : y # w => (IsUnder(y, task_status, retest') <=> IsUnder(y, task_status, retest))
      /\ \A y : y # w => (IsDeep(y, task_status, retest') <=> IsDeep(y, task_status, retest))
  BY <1>2, <1>3, PutMoves
<1>6. ~IsUnder(w, task_status, retest') /\ ~IsDeep(w, task_status, retest')
  BY <1>2, <1>5, UnderRow
<1>7. marked \subseteq Versions
  BY <1>1
<1>8. /\ x \in ReportWork \cup Exempt
      /\ \A g \in Generators : IsGenerating(gen[g]) => x \in gen[g].lap \/ x \in Exempt
      /\ \A v \in Versions : versions[v].status = "current" /\ v \notin marked
                             => x \in versions[v].lap \/ x \in Exempt
  <2>1. CASE w \in DocRetests /\ retest[w].resumed
    BY <2>1 DEF Exempt
  <2>2. CASE ~(w \in DocRetests /\ retest[w].resumed)
    <3>1. x = w /\ IsUnder(w, task_status, retest) /\ IsDeep(w, task_status, retest)
      <4>1. w \in TechRetests \/ w \in DocRetests
        BY DEF Retests
      <4> QED BY <1>3, <2>2, <4>1, UnderRow
    <3>2. \A g \in Generators : IsGenerating(gen[g]) => w \in gen[g].lap
      BY <1>5, <3>1 DEF RepInvariant, Sound, GensKnow
    <3>3. \A v \in Versions : versions[v].status = "current" => w \in versions[v].lap \/ HitBy(w, v, hit)
      BY <1>5, <3>1 DEF RepInvariant, Sound, RowsKnow
    <3>4. \A v \in Versions : HitBy(w, v, hit) => v \in marked
      BY DEF HitBy, Retests
    <3> HIDE DEF marked
    <3> QED BY <1>5, <3>1, <3>2, <3>3, <3>4
  <2> QED BY <2>1, <2>2
<1> HIDE DEF x, marked
<1>9. gen' \in [Generators -> GenRow] /\ GensKept(gen, gen')
  BY <1>1, <1>4, <1>8, ToldGensKept
<1>10. /\ f \in FlowRow /\ vs \in [Versions -> VersionRow]
       /\ RowsKept(versions, vs) /\ DoneSound(f, vs, removed)
  BY <1>7, <1>8, ResultsKeep
<1> HIDE DEF f, vs
<1>11. /\ flow' \in FlowRow /\ versions' \in [Versions -> VersionRow]
       /\ RowsKept(vs, versions') /\ DoneSound(flow', versions', removed)
  BY <1>4, <1>10, ReconcilesKeeps
<1>12. RowsKept(versions, versions')
  BY <1>10, <1>11, RowsThrough
<1>13. /\ hit' \in [Checks \cup TechRetests -> SUBSET Versions]
       /\ \A y \in Checks \cup TechRetests : y # w => hit'[y] = hit[y]
  BY <1>1, <1>4
<1>14. WorkKnown(task_status, retest, task_status', retest', gen')
  BY <1>4, <1>5, <1>6 DEF WorkKnown
<1>15. WorkMarked(task_status, retest, hit, task_status', retest', hit', versions')
  BY <1>4, <1>5, <1>6, <1>13 DEF WorkMarked
<1> QED BY <1>4, <1>5, <1>9, <1>11, <1>12, <1>13, <1>14, <1>15, WorkStep DEF RepInvariant, Typed

LEMMA ReopenFindingKeeps ==
  ASSUME RepInvariant, NEW w \in Retests, ReopenFinding(w)
  PROVE  RepInvariant'
<1> DEFINE r == [retest[w] EXCEPT !.finding = "open"]
           x == <<w, "reopened">>
           vs == ToldRows(x, versions)
<1>1. /\ retest[w] \in RetestRow /\ gen \in [Generators -> GenRow]
      /\ versions \in [Versions -> VersionRow] /\ flow \in FlowRow
  BY DEF RepInvariant, Typed
<1>2. r \in RetestRow /\ r.run = retest[w].run /\ r.resumed = retest[w].resumed
  BY <1>1 DEF RetestRow
<1>3. /\ retest' = Put(w, r) /\ gen' = ToldGens(x, gen)
      /\ Reconciles(<<w>>, flow, vs, retest', task_status, extra)
      /\ UNCHANGED <<task_status, hit, removed>>
  BY DEF ReopenFinding
<1> HIDE DEF r
<1>4. /\ retest' \in [Retests -> RetestRow] /\ retest'[w] = r
      /\ \A y : y # w => (IsUnder(y, task_status, retest') <=> IsUnder(y, task_status, retest))
      /\ \A y : y # w => (IsDeep(y, task_status, retest') <=> IsDeep(y, task_status, retest))
  BY <1>2, <1>3, PutMoves
<1>5. IsUnder(w, task_status, retest') => IsUnder(w, task_status, retest)
  BY <1>2, <1>4, UnderRow
<1>6. IsDeep(w, task_status, retest') => IsDeep(w, task_status, retest)
  BY <1>2, <1>4, UnderRow
<1>7. x \in Exempt
  BY DEF Exempt
<1> HIDE DEF x
<1>8. gen' \in [Generators -> GenRow] /\ GensKept(gen, gen')
  BY <1>1, <1>3, <1>7, ToldGensKept
<1>9. /\ vs \in [Versions -> VersionRow] /\ RowsKept(versions, vs)
      /\ \A v \in Versions : vs[v].status = versions[v].status
  BY <1>1, <1>7, ToldRowsKept
<1> HIDE DEF vs
<1>10. DoneSound(flow, vs, removed)
  BY <1>9 DEF RepInvariant, DoneSound, HasCurrent
<1>11. /\ flow' \in FlowRow /\ versions' \in [Versions -> VersionRow]
       /\ RowsKept(vs, versions') /\ DoneSound(flow', versions', removed)
  BY <1>1, <1>3, <1>9, <1>10, ReconcilesKeeps
<1>12. RowsKept(versions, versions')
  BY <1>9, <1>11, RowsThrough
<1>13. WorkKnown(task_status, retest, task_status', retest', gen')
  BY <1>3, <1>4, <1>5 DEF WorkKnown
<1>14. WorkMarked(task_status, retest, hit, task_status', retest', hit', versions')
  BY <1>3, <1>4, <1>6 DEF WorkMarked
<1> QED BY <1>3, <1>4, <1>8, <1>11, <1>12, <1>13, <1>14, WorkStep DEF RepInvariant, Typed

\* complete_phase of the remediation changes no work.
LEMMA FinalizeKeeps ==
  ASSUME RepInvariant, Finalize
  PROVE  RepInvariant'
<1> DEFINE f == Reconciled(flow, retest, task_status, extra)
<1>1. flow \in FlowRow /\ versions \in [Versions -> VersionRow]
  BY DEF RepInvariant, Typed
<1>2. /\ flow' = [f EXCEPT !.remediation = "completed", !.final = TRUE,
                           !.report = IF f.report = "pending" THEN "active" ELSE f.report]
      /\ versions' = IF MustWait(flow, retest, task_status, extra) THEN Invalidated(versions) ELSE versions
      /\ UNCHANGED <<gen, task_status, retest, hit, removed>>
  BY DEF Finalize, Writes
<1>3. /\ f \in FlowRow
      /\ f.task = "completed" => flow.task = "completed" /\ ~MustWait(flow, retest, task_status, extra)
  BY <1>1, ReconciledFlow
<1> HIDE DEF f
<1>4. flow' \in FlowRow /\ flow'.task = f.task
  BY <1>2, <1>3 DEF FlowRow
<1>5. versions' \in [Versions -> VersionRow] /\ RowsKept(versions, versions')
  BY <1>1, <1>2, InvalidatedRows, Unmoved
<1>6. DoneSound(flow', versions', removed)
  BY <1>2, <1>3, <1>4 DEF RepInvariant, DoneSound
<1> QED BY <1>2, <1>4, <1>5, <1>6, Unmoved, SameWork, WorkStep DEF RepInvariant, Typed

-----------------------------------------------------------------------------

\* The invariant is kept by every step.
LEMMA NextKeeps == RepInvariant /\ [RepNext]_repVars => RepInvariant'
<1> SUFFICES ASSUME RepInvariant, [RepNext]_repVars PROVE RepInvariant'
  OBVIOUS
<1>1. CASE Requested
  BY <1>1, CheckReadyKeeps, StartReportKeeps, TakeVersionKeeps, DrawKeeps, PublishKeeps,
     GenerationFailsKeeps, GenerationDiesKeeps, StopReportKeeps, FinalizeKeeps, DeleteVersionsKeeps
  DEF Requested
<1>2. CASE Worked
  BY <1>2, StartCheckKeeps, BeginCheckKeeps, EndCheckKeeps, CreateDocumentRunKeeps, EndDocumentRunKeeps,
     PromoteKeeps, CreateRunKeeps, BeginRunKeeps, DocumentEndsKeeps, StopRunKeeps, ResumeRunKeeps,
     ReopenFindingKeeps, EndRunKeeps
  DEF Worked
<1>3. CASE UNCHANGED repVars
  BY <1>3 DEF repVars, RepInvariant
<1> QED BY <1>1, <1>2, <1>3 DEF RepNext

\* The invariant says what a user of the reports may rely on.
LEMMA InvariantStands == RepInvariant => ReportStands
BY CurrentRows DEF RepInvariant, Sound, RowsSound, DoneSound, ReportStands, CurrentIsComplete,
   DoneMeansCurrent, Exempt

\* Every reachable state has its rows in their types, and whatever generates is told of all
\* the work that begins after its readiness check (ensure_report_generation_ready).
THEOREM GenerationsKnow ==
  RepSpec => [](/\ Typed(versions, gen, flow, task_status, retest, hit)
                /\ GensKnow(gen, task_status, retest))
<1>1. RepInvariant => /\ Typed(versions, gen, flow, task_status, retest, hit)
                      /\ GensKnow(gen, task_status, retest)
  BY DEF RepInvariant, Sound
<1> QED BY <1>1, InitInvariant, NextKeeps, PTL DEF RepSpec

\* A current report contains the results of all work but that begun while it was generated,
\* and the report task is completed only while there is one (report.py:8,
\* report_service.py): for any number of requests, checks, retests, promotions and versions.
THEOREM ReportsStand == RepSpec => []ReportStands
BY InitInvariant, NextKeeps, InvariantStands, PTL DEF RepSpec

-----------------------------------------------------------------------------
(* Verdicts of tools.                                                      *)

(* What tools answer.                                                      *)

\* What a payload gives away of its tool, which saw the target or not, and of the target,
\* which refused it or not: a payload that is no failure was earned by a look, one that is
\* shown as skipped by a refusal, and only a baseline is left out.
Fair(t, p, saw, denied) ==
  /\ p \in Payload
  /\ t \notin Gullible /\ p.status # "raised" /\ (~p.error \/ p.done # "no") => saw
  /\ t \notin UnheardOf /\ _tool_display_status(p) = "skipped" => denied
  /\ p.status = "warning" => p.done = "no"
  /\ p.skip => t = "baseline_check"

\* A payload that leaves nothing out.
Honest(t, p, saw, denied) == Fair(t, p, saw, denied) /\ ~p.skip /\ ~p.inapplicable
Severity == {"success", "warning", "skipped", "failed", "raised"}

\* The answer of a tool that has nothing to say.
LEMMA PlainFields ==
  /\ Plain \in Payload /\ Plain.status = "success" /\ Plain.done = "unsaid" /\ Plain.error = FALSE
  /\ Plain.marked = FALSE /\ Plain.risk = FALSE /\ Plain.sure = FALSE
  /\ Plain.skip = FALSE /\ Plain.inapplicable = FALSE
<1>1. Plain \in Payload
  BY DEF Plain, Payload
<1>2. /\ Plain.status = "success" /\ Plain.done = "unsaid" /\ Plain.error = FALSE
      /\ Plain.marked = FALSE /\ Plain.risk = FALSE /\ Plain.sure = FALSE
      /\ Plain.skip = FALSE /\ Plain.inapplicable = FALSE
  BY DEF Plain
<1> QED BY <1>1, <1>2

\* An answer that was raised is a failure, whoever reads it.
LEMMA RaisedTold == \A t, saw, denied : Honest(t, Raised, saw, denied)
<1> DEFINE p == Plain
           q == Raised
<1>1. /\ p \in Payload /\ p.skip = FALSE /\ p.inapplicable = FALSE
      /\ q = [p EXCEPT !.status = "raised"]
  BY PlainFields DEF Raised
<1> HIDE DEF p, q
<1>2. q \in Payload /\ q.status = "raised" /\ q.skip = FALSE /\ q.inapplicable = FALSE
  BY <1>1 DEF Payload
<1>3. \A t, saw, denied : Honest(t, q, saw, denied)
  BY <1>2 DEF Honest, Fair, _tool_display_status
<1> QED BY <1>3 DEF q

\* So is one that names an error and does not say that the tool ended or was refused.
LEMMA MuteTold ==
  ASSUME NEW p \in Payload, p.error, p.done = "no", ~p.marked, ~p.skip, ~p.inapplicable
  PROVE  \A t, saw, denied : Honest(t, p, saw, denied)
BY DEF Honest, Fair, _tool_display_status

\* The answer that a time-out leaves, with whatever severity.
LEMMA TimedOutFields ==
  /\ TimedOut \in Payload /\ TimedOut.status = "success" /\ TimedOut.done = "no" /\ TimedOut.error = TRUE
  /\ TimedOut.marked = FALSE /\ TimedOut.risk = FALSE /\ TimedOut.sure = FALSE
  /\ TimedOut.skip = FALSE /\ TimedOut.inapplicable = FALSE
<1> DEFINE p == Plain
           q == TimedOut
<1>1. p \in Payload /\ q = [p EXCEPT !.done = "no", !.error = TRUE]
  BY PlainFields DEF TimedOut
<1>2. /\ p.status = "success" /\ p.marked = FALSE /\ p.risk = FALSE /\ p.sure = FALSE
      /\ p.skip = FALSE /\ p.inapplicable = FALSE
  BY PlainFields
<1> HIDE DEF p, q
<1>3. q \in Payload /\ q.done = "no" /\ q.error = TRUE
  BY <1>1 DEF Payload
<1>4. /\ q.status = p.status /\ q.marked = p.marked /\ q.risk = p.risk /\ q.sure = p.sure
      /\ q.skip = p.skip /\ q.inapplicable = p.inapplicable
  BY <1>1 DEF Payload
<1> QED BY <1>2, <1>3, <1>4 DEF q

\* So are all that differ from it in severity.
LEMMA TimedOutTold ==
  /\ \A t, saw, denied : Honest(t, TimedOut, saw, denied)
  /\ \A st \in Severity : \A t, saw, denied : Honest(t, [TimedOut EXCEPT !.status = st], saw, denied)
<1>1. \A t, saw, denied : Honest(t, TimedOut, saw, denied)
  BY TimedOutFields, MuteTold
<1>2. ASSUME NEW st \in Severity
      PROVE  \A t, saw, denied : Honest(t, [TimedOut EXCEPT !.status = st], saw, denied)
  <2> DEFINE p == TimedOut
             q == [p EXCEPT !.status = st]
  <2>1. p \in Payload /\ p.error /\ p.done = "no" /\ ~p.marked /\ ~p.skip /\ ~p.inapplicable
    BY TimedOutFields
  <2> HIDE DEF p
  <2>2. q \in Payload /\ q.error /\ q.done = "no" /\ ~q.marked /\ ~q.skip /\ ~q.inapplicable
    BY <2>1 DEF Payload, Severity
  <2> HIDE DEF q
  <2>3. \A t, saw, denied : Honest(t, q, saw, denied)
    BY <2>2, MuteTold
  <2> QED BY <2>3 DEF p, q
<1> QED BY <1>1, <1>2

\* The answer of a tool that knows whether it ended.
LEMMA DoneFields ==
  ASSUME NEW ok \in BOOLEAN, NEW weak \in BOOLEAN, NEW q, q = Done(ok, weak)
  PROVE  /\ q \in Payload /\ q.status = "success" /\ q.done = (IF ok THEN "yes" ELSE "no")
         /\ q.error = ~ok /\ q.marked = (~ok /\ target = "closed") /\ q.risk = weak
         /\ q.sure = FALSE /\ q.skip = FALSE /\ q.inapplicable = FALSE
<1> DEFINE p == Plain
           dn == IF ok THEN "yes" ELSE "no"
           mk == ~ok /\ target = "closed"
<1>1. q = [p EXCEPT !.done = dn, !.error = ~ok, !.marked = mk, !.risk = weak]
  BY DEF Done
<1>2. dn \in {"yes", "no"} /\ mk \in BOOLEAN
  OBVIOUS
<1>3. /\ p \in Payload /\ p.status = "success" /\ p.sure = FALSE
      /\ p.skip = FALSE /\ p.inapplicable = FALSE
  BY PlainFields
<1> HIDE DEF p, dn, mk
<1>4. q \in Payload /\ q.done = dn /\ q.error = ~ok /\ q.marked = mk /\ q.risk = weak
  BY <1>1, <1>2, <1>3 DEF Payload
<1>5. q.status = "success" /\ q.sure = FALSE /\ q.skip = FALSE /\ q.inapplicable = FALSE
  BY <1>1, <1>3 DEF Payload
<1> QED BY <1>4, <1>5 DEF dn, mk

\* It is fair if the tool saw the target whenever it says that it ended.
LEMMA DoneTold ==
  ASSUME NEW ok \in BOOLEAN, NEW weak \in BOOLEAN, NEW t, NEW saw, ok /\ t \notin Gullible => saw
  PROVE  Honest(t, Done(ok, weak), saw, target = "closed")
<1> DEFINE q == Done(ok, weak)
<1> HIDE DEF q
<1>1. /\ q \in Payload /\ q.status = "success" /\ q.done = (IF ok THEN "yes" ELSE "no")
      /\ q.error = ~ok /\ q.marked = (~ok /\ target = "closed")
      /\ q.skip = FALSE /\ q.inapplicable = FALSE
  BY DoneFields DEF q
<1>2. Honest(t, q, saw, target = "closed")
  BY <1>1 DEF Honest, Fair, _tool_display_status
<1> QED BY <1>2 DEF q

\* A failed answer becomes an exception; limits that a firewall sets leave no verdict.
LEMMA GatewayFair ==
  ASSUME NEW t, NEW p, NEW saw, NEW denied, NEW allowed, Fair(t, p, saw, denied)
  PROVE  Fair(t, _gateway_payload(p, allowed), saw, denied)
BY RaisedTold DEF Honest, _gateway_payload

\* An answer from which a firewall kept the tool has no verdict.
LEMMA LimitedTold ==
  ASSUME NEW p \in Payload, ~p.inapplicable, ~p.skip
  PROVE  \A t, saw, denied : Honest(t, _protection_limited_payload(p), saw, denied)
<1> DEFINE q == _protection_limited_payload(p)
<1>1. q = [p EXCEPT !.status = "warning", !.done = "no", !.error = TRUE]
  BY DEF _protection_limited_payload
<1> HIDE DEF q
<1>2. /\ q \in Payload /\ q.status = "warning" /\ q.done = "no" /\ q.error = TRUE
      /\ q.skip = p.skip /\ q.inapplicable = p.inapplicable
  BY <1>1 DEF Payload
<1>3. \A t, saw, denied : Honest(t, q, saw, denied)
  BY <1>2 DEF Honest, Fair, _tool_display_status
<1> QED BY <1>3 DEF q

\* What the end of a process tells.
LEMMA ProcessFacts ==
  ASSUME NEW t, NEW r \in ProcessRuns(t)
  PROVE  /\ r.looked \in BOOLEAN /\ r.weak \in BOOLEAN /\ (r.weak => r.looked)
         /\ (r.end = "zero" /\ t \notin Gullible => r.looked)
         /\ (r.end = "odd" => t \in Gullible)
BY DEF ProcessRuns, Process, Gullible

\* A web tool has completed once it found something, whatever its exit code.
LEMMA WebTold ==
  ASSUME NEW t, NEW r \in ProcessRuns(t)
  PROVE  Honest(t, WebTool(r), r.looked, target = "closed")
<1> DEFINE ok == r.end = "zero" \/ r.weak
           bad == r.end # "zero"
           p == Done(ok, r.weak)
           q == [p EXCEPT !.error = bad]
<1>1. ok \in BOOLEAN /\ bad \in BOOLEAN /\ (~bad => ok) /\ (ok /\ t \notin Gullible => r.looked)
  <2>1. ok \in BOOLEAN /\ bad \in BOOLEAN
    OBVIOUS
  <2>2. ~bad => ok
    OBVIOUS
  <2>3. ok /\ t \notin Gullible => r.looked
    BY ProcessFacts
  <2> QED BY <2>1, <2>2, <2>3
<1>2. r.end \notin {"raised", "timeout"} => WebTool(r) = q
  BY DEF WebTool, completed_or_error
<1>3. r.weak \in BOOLEAN /\ p = Done(ok, r.weak)
  BY ProcessFacts
<1> HIDE DEF ok, bad, p
<1>4. /\ p \in Payload /\ p.status = "success" /\ p.done = (IF ok THEN "yes" ELSE "no")
      /\ p.marked = (~ok /\ target = "closed") /\ p.skip = FALSE /\ p.inapplicable = FALSE
  <2>1. ok \in BOOLEAN /\ r.weak \in BOOLEAN /\ p = Done(ok, r.weak)
    BY <1>1, <1>3
  <2>2. p \in Payload /\ p.status = "success" /\ p.done = (IF ok THEN "yes" ELSE "no")
    BY ONLY <2>1, DoneFields
  <2>3. p.marked = (~ok /\ target = "closed") /\ p.skip = FALSE /\ p.inapplicable = FALSE
    BY ONLY <2>1, DoneFields
  <2> QED BY <2>2, <2>3
<1>5. q \in Payload /\ q.error = bad
  BY <1>1, <1>4 DEF Payload
<1>6. /\ q.status = "success" /\ q.done = (IF ok THEN "yes" ELSE "no")
      /\ q.marked = (~ok /\ target = "closed") /\ q.skip = FALSE /\ q.inapplicable = FALSE
  BY <1>4 DEF Payload
<1> HIDE DEF q
<1>7. Honest(t, q, r.looked, target = "closed")
  BY <1>1, <1>5, <1>6 DEF Honest, Fair, _tool_display_status
<1>8. CASE r.end = "raised"
  BY <1>8, RaisedTold DEF WebTool
<1>9. CASE r.end = "timeout"
  BY <1>9, TimedOutTold DEF WebTool, Severity
<1> QED BY <1>2, <1>7, <1>8, <1>9

\* Whether a weakness or a host was found does not make an answer unfair.
LEMMA RiskTold ==
  ASSUME NEW t, NEW p, NEW saw, NEW denied, Honest(t, p, saw, denied)
  PROVE  Honest(t, [p EXCEPT !.risk = FALSE], saw, denied)
<1> DEFINE q == [p EXCEPT !.risk = FALSE]
<1>1. p \in Payload
  BY DEF Honest, Fair
<1>2. /\ q \in Payload /\ q.status = p.status /\ q.done = p.done /\ q.error = p.error
      /\ q.marked = p.marked /\ q.skip = p.skip /\ q.inapplicable = p.inapplicable
  BY <1>1 DEF Payload
<1> HIDE DEF q
<1>3. Honest(t, q, saw, denied)
  BY <1>2 DEF Honest, Fair, _tool_display_status
<1> QED BY <1>3 DEF q

\* Nor does the absence of a text that says that the connection was refused.
LEMMA UnmarkedTold ==
  ASSUME NEW t, NEW p, NEW saw, NEW denied, Honest(t, p, saw, denied)
  PROVE  Honest(t, [p EXCEPT !.marked = FALSE], saw, denied)
<1> DEFINE q == [p EXCEPT !.marked = FALSE]
<1>1. p \in Payload
  BY DEF Honest, Fair
<1>2. /\ q \in Payload /\ q.status = p.status /\ q.done = p.done /\ q.error = p.error
      /\ q.marked = FALSE /\ q.skip = p.skip /\ q.inapplicable = p.inapplicable
  BY <1>1 DEF Payload
<1> HIDE DEF q
<1>3. Honest(t, q, saw, denied)
  BY <1>2 DEF Honest, Fair, _tool_display_status
<1> QED BY <1>3 DEF q

\* A database server that is not reached says so, or is said to have refused the connection.
LEMMA NoResponseTold ==
  ASSUME NEW t, NEW saw, NEW denied, NEW text \in BOOLEAN, text => t \in UnheardOf
  PROVE  Honest(t, no_response_result(text), saw, denied)
<1> DEFINE p == TimedOut
           q == [p EXCEPT !.marked = text]
<1>1. /\ p \in Payload /\ p.status = "success" /\ p.done = "no" /\ p.error = TRUE
      /\ p.skip = FALSE /\ p.inapplicable = FALSE
  BY TimedOutFields
<1> HIDE DEF p
<1>2. q \in Payload /\ q.marked = text /\ q.error = TRUE /\ q.skip = FALSE /\ q.inapplicable = FALSE
  BY <1>1 DEF Payload
<1>3. q.status = "success" /\ q.done = "no"
  BY <1>1 DEF Payload
<1> HIDE DEF q
<1>4. Honest(t, q, saw, denied)
  BY <1>2, <1>3 DEF Honest, Fair, _tool_display_status
<1> QED BY <1>4 DEF p, q, no_response_result

\* A database that is asked answers, or says that it does not.
LEMMA DatabaseTold ==
  ASSUME NEW t, NEW r \in ProcessRuns(t)
  PROVE  Honest(t, DatabaseTool(r), r.looked, target = "closed")
<1>1. CASE r.end = "raised"
  BY <1>1, RaisedTold DEF DatabaseTool
<1>2. CASE r.end = "timeout"
  BY <1>2, NoResponseTold DEF DatabaseTool
<1>3. CASE r.end \notin {"raised", "timeout"}
  <2>1. DatabaseTool(r) = Done(r.end = "zero", r.weak)
    BY <1>3 DEF DatabaseTool
  <2> DEFINE ok == r.end = "zero"
  <2>2. ok \in BOOLEAN /\ r.weak \in BOOLEAN /\ (ok /\ t \notin Gullible => r.looked)
    BY ProcessFacts
  <2> HIDE DEF ok
  <2>3. Honest(t, Done(ok, r.weak), r.looked, target = "closed")
    BY <2>2, DoneTold
  <2> QED BY <2>1, <2>3 DEF ok
<1> QED BY <1>1, <1>2, <1>3

\* The two servers that call any missing connection a refusal.
LEMMA UnreachedTold ==
  ASSUME NEW t \in UnheardOf, NEW r \in ProcessRuns(t)
  PROVE  Honest(t, IF target # "open" THEN no_response_result(TRUE) ELSE DatabaseTool(r),
              r.looked, target = "closed")
BY NoResponseTold, DatabaseTold

\* The commands of Windows, and those of SNMP.
LEMMA WindowsTold ==
  ASSUME NEW t, NEW r \in ProcessRuns(t)
  PROVE  Honest(t, WindowsTool(r), r.looked, target = "closed")
<1>1. CASE r.end \in {"timeout", "raised"}
  BY <1>1, RaisedTold DEF WindowsTool
<1>2. CASE r.end \notin {"timeout", "raised"}
  <2> DEFINE ok == r.weak \/ r.end = "zero"
  <2>1. WindowsTool(r) = Done(ok, FALSE)
    BY <1>2 DEF WindowsTool, command_state
  <2>2. ok \in BOOLEAN /\ (ok /\ t \notin Gullible => r.looked)
    BY ProcessFacts
  <2> HIDE DEF ok
  <2>3. Honest(t, Done(ok, FALSE), r.looked, target = "closed")
    BY <2>2, DoneTold
  <2> QED BY <2>1, <2>3
<1> QED BY <1>1, <1>2

\* SNMP: a device that answers was seen.
LEMMA SnmpTold ==
  ASSUME NEW t, NEW r \in ProcessRuns(t)
  PROVE  /\ Honest(t, snmp_walk(r), r.looked, target = "closed")
         /\ Honest(t, snmp_get(r), r.looked, target = "closed")
         /\ Honest(t, snmp_bruteforce(r), r.looked, target = "closed")
<1>1. Honest(t, Raised, r.looked, target = "closed")
  BY RaisedTold
<1>2. Honest(t, [TimedOut EXCEPT !.status = "failed"], r.looked, target = "closed")
  BY TimedOutTold DEF Severity
<1>3. r.looked => \A weak \in BOOLEAN : Honest(t, Done(TRUE, weak), r.looked, target = "closed")
  BY DoneTold
<1>4. r.weak => r.looked
  BY ProcessFacts
<1>5. Honest(t, snmp_walk(r), r.looked, target = "closed")
  BY <1>1, <1>2, <1>3 DEF snmp_walk
<1>6. Honest(t, snmp_bruteforce(r), r.looked, target = "closed")
  BY <1>1, <1>2, <1>3, <1>4 DEF snmp_bruteforce
<1> QED BY <1>5, <1>6 DEF snmp_get

\* The other tools, one by one.
LEMMA FpingTold ==
  ASSUME NEW t, NEW r \in ProcessRuns(t)
  PROVE  Honest(t, fping_scan(r), r.looked, target = "closed")
<1> DEFINE ok == r.end = "zero"
<1>1. ok \in BOOLEAN /\ (ok /\ t \notin Gullible => r.looked)
  BY ProcessFacts
<1>2. fping_scan(r) = Raised \/ fping_scan(r) = Done(ok, FALSE)
  BY DEF fping_scan
<1> HIDE DEF ok
<1>3. Honest(t, Done(ok, FALSE), r.looked, target = "closed")
  BY <1>1, DoneTold
<1>4. Honest(t, Raised, r.looked, target = "closed")
  BY RaisedTold
<1> QED BY <1>2, <1>3, <1>4

\* testssl says whether it looked.
LEMMA TestsslTold ==
  ASSUME NEW t, NEW r \in ProcessRuns(t)
  PROVE  Honest(t, testssl_scan(r), r.looked, target = "closed")
<1>1. Honest(t, Done(r.looked, r.weak), r.looked, target = "closed")
  BY ProcessFacts, DoneTold
<1>2. Honest(t, [Done(r.looked, r.weak) EXCEPT !.marked = FALSE], r.looked, target = "closed")
  BY <1>1, UnmarkedTold
<1> QED BY <1>2, RaisedTold, TimedOutTold DEF testssl_scan

\* The transport scan drops what an incomplete handshake found.
LEMMA CryptoTold ==
  ASSUME NEW t, NEW r \in ProcessRuns(t)
  PROVE  Honest(t, crypto_transport_scan(r), r.looked, target = "closed")
<1>1. Honest(t, [TimedOut EXCEPT !.status = "warning"], r.looked, target = "closed")
  BY TimedOutTold DEF Severity
<1> QED BY <1>1, TestsslTold DEF crypto_transport_scan

\* nuclei warns when it did not end well.
LEMMA NucleiTold ==
  ASSUME NEW t, NEW r \in ProcessRuns(t)
  PROVE  Honest(t, nuclei_scan(r), r.looked, target = "closed")
<1>1. \A st \in Severity : Honest(t, [TimedOut EXCEPT !.status = st], r.looked, target = "closed")
  BY TimedOutTold
<1>2. CASE target # "open" \/ r.end \in {"raised", "timeout"}
  BY <1>1, <1>2, RaisedTold DEF nuclei_scan, Severity
<1>3. CASE target = "open" /\ r.end \notin {"raised", "timeout"}
  <2> DEFINE ok == r.end = "zero"
             st == IF ok THEN "success" ELSE "warning"
             p == Done(ok, r.weak)
             q == [p EXCEPT !.status = st]
  <2>1. nuclei_scan(r) = q
    BY <1>3 DEF nuclei_scan
  <2>2. ok \in BOOLEAN /\ r.weak \in BOOLEAN /\ (ok /\ t \notin Gullible => r.looked)
    BY ProcessFacts
  <2>3. st \in {"success", "warning"} /\ (~ok => st = "warning") /\ (ok => st = "success")
    OBVIOUS
  <2> HIDE DEF ok, st
  <2>4. Done(ok, r.weak) \in Payload
    BY <2>2, DoneFields
  <2>5. Done(ok, r.weak).done = (IF ok THEN "yes" ELSE "no") /\ Done(ok, r.weak).error = ~ok
    BY <2>2, DoneFields
  <2>6. Done(ok, r.weak).skip = FALSE /\ Done(ok, r.weak).inapplicable = FALSE
    BY <2>2, DoneFields
  <2>7. /\ p \in Payload /\ p.done = (IF ok THEN "yes" ELSE "no") /\ p.error = ~ok
        /\ p.skip = FALSE /\ p.inapplicable = FALSE
    BY <2>4, <2>5, <2>6
  <2> HIDE DEF p
  <2>8. /\ q \in Payload /\ q.status = st /\ q.done = p.done /\ q.error = p.error
        /\ q.skip = p.skip /\ q.inapplicable = p.inapplicable
    BY <2>3, <2>7 DEF Payload
  <2> HIDE DEF q
  <2>9. Honest(t, q, r.looked, target = "closed")
    BY <2>2, <2>3, <2>7, <2>8 DEF Honest, Fair, _tool_display_status
  <2> QED BY <2>1, <2>9
<1> QED BY <1>2, <1>3

\* hydra may take its end for a success.
LEMMA HydraTold ==
  ASSUME NEW t \in Gullible, NEW r \in ProcessRuns(t)
  PROVE  Honest(t, hydra_bruteforce(r), r.looked, target = "closed")
<1> DEFINE ok == r.end \in {"zero", "odd"}
<1>1. ok \in BOOLEAN /\ r.weak \in BOOLEAN
  BY ProcessFacts
<1>2. hydra_bruteforce(r) = Raised \/ hydra_bruteforce(r) = Done(ok, r.weak)
  BY DEF hydra_bruteforce
<1> HIDE DEF ok
<1>3. Honest(t, Done(ok, r.weak), r.looked, target = "closed")
  BY <1>1, DoneTold
<1>4. Honest(t, Raised, r.looked, target = "closed")
  BY RaisedTold
<1> QED BY <1>2, <1>3, <1>4

\* The port scanners may take silence for an answer.
LEMMA PortsTold ==
  ASSUME NEW t \in Gullible, NEW r \in ProcessRuns(t)
  PROVE  /\ Honest(t, nmap_scan(r), r.looked, target = "closed")
         /\ Honest(t, masscan_scan(r), r.looked, target = "closed")
<1>1. Honest(t, nmap_scan(r), r.looked, target = "closed")
  <2> DEFINE p == Plain
             sure == r.looked \/ target = "open"
             q == [p EXCEPT !.risk = r.weak, !.sure = sure]
  <2>1. nmap_scan(r) = Raised \/ nmap_scan(r) = q
    BY DEF nmap_scan
  <2>2. sure \in BOOLEAN /\ r.weak \in BOOLEAN
    BY ProcessFacts
  <2>3. /\ p \in Payload /\ p.status = "success" /\ p.done = "unsaid"
        /\ p.skip = FALSE /\ p.inapplicable = FALSE
    BY PlainFields
  <2> HIDE DEF p, sure
  <2>4. /\ q \in Payload /\ q.status = p.status /\ q.done = p.done
        /\ q.skip = p.skip /\ q.inapplicable = p.inapplicable
    BY <2>2, <2>3 DEF Payload
  <2> HIDE DEF q
  <2>5. Honest(t, q, r.looked, target = "closed")
    BY <2>3, <2>4 DEF Honest, Fair, _tool_display_status
  <2> QED BY <2>1, <2>5, RaisedTold
<1>2. Honest(t, masscan_scan(r), r.looked, target = "closed")
  <2> DEFINE ok == r.end = "zero"
             p == Done(ok, r.weak)
             sure == r.looked /\ target = "open"
             q == [p EXCEPT !.marked = FALSE, !.sure = sure]
  <2>1. masscan_scan(r) \in {Raised, TimedOut, q}
    BY DEF masscan_scan
  <2>2. ok \in BOOLEAN /\ sure \in BOOLEAN /\ r.weak \in BOOLEAN
    BY ProcessFacts
  <2> HIDE DEF ok, sure
  <2>3. Done(ok, r.weak) \in Payload /\ Done(ok, r.weak).skip = FALSE /\ Done(ok, r.weak).inapplicable = FALSE
    BY <2>2, DoneFields
  <2>4. Done(ok, r.weak).status = "success"
    BY <2>2, DoneFields
  <2>5. /\ p \in Payload /\ p.status = "success" /\ p.skip = FALSE /\ p.inapplicable = FALSE
    BY <2>3, <2>4
  <2> HIDE DEF p
  <2>6. /\ q \in Payload /\ q.status = p.status /\ q.marked = FALSE
        /\ q.skip = p.skip /\ q.inapplicable = p.inapplicable
    BY <2>2, <2>5 DEF Payload
  <2> HIDE DEF q
  <2>7. Honest(t, q, r.looked, target = "closed")
    BY <2>5, <2>6 DEF Honest, Fair, _tool_display_status
  <2> QED BY <2>1, <2>7, RaisedTold, TimedOutTold
<1> QED BY <1>1, <1>2

\* A baseline may leave a host out, which nobody takes for a look.
LEMMA BaselineFair ==
  ASSUME NEW r \in ProcessRuns("baseline_check"), NEW b \in BOOLEAN
  PROVE  Fair("baseline_check", _call_ssh_checker(linux_baseline(r, b)), r.looked, target = "closed")
<1> DEFINE p == Plain
<1>1. p \in Payload /\ r.weak \in BOOLEAN
  BY PlainFields, ProcessFacts
<1> HIDE DEF p
<1>2. /\ [p EXCEPT !.risk = r.weak] \in Payload /\ [p EXCEPT !.skip = TRUE] \in Payload
      /\ [p EXCEPT !.status = "skipped", !.error = TRUE, !.skip = TRUE] \in Payload
  BY <1>1 DEF Payload
<1>3. Plain \in Payload /\ [Plain EXCEPT !.risk = r.weak] \in Payload /\ [Plain EXCEPT !.skip = TRUE] \in Payload
      /\ _ssh_unavailable_payload \in Payload
  BY <1>1, <1>2 DEF p, _ssh_unavailable_payload
<1>4. Raised \in Payload /\ (Raised.status = "warning" => Raised.done = "no")
  BY RaisedTold DEF Honest, Fair
<1>5. linux_baseline(r, b) \in Payload
  BY <1>3, <1>4 DEF linux_baseline
<1>6. _call_ssh_checker(linux_baseline(r, b)) \in Payload
  BY <1>3, <1>5 DEF _call_ssh_checker
<1>7. /\ [p EXCEPT !.risk = r.weak].status = p.status /\ [p EXCEPT !.skip = TRUE].status = p.status
      /\ [p EXCEPT !.status = "skipped", !.error = TRUE, !.skip = TRUE].status = "skipped"
  BY <1>1 DEF Payload
<1>8. p.status = "success"
  BY PlainFields DEF p
<1>9. /\ [Plain EXCEPT !.risk = r.weak].status = "success" /\ [Plain EXCEPT !.skip = TRUE].status = "success"
      /\ _ssh_unavailable_payload.status = "skipped"
  BY <1>7, <1>8 DEF p, _ssh_unavailable_payload
<1>10. linux_baseline(r, b).status = "warning" => linux_baseline(r, b).done = "no"
  BY <1>4, <1>9 DEF linux_baseline
<1>11. LET q == _call_ssh_checker(linux_baseline(r, b)) IN q.status = "warning" => q.done = "no"
  BY <1>9, <1>10 DEF _call_ssh_checker
<1> QED BY <1>6, <1>11 DEF Fair, Gullible, UnheardOf

\* What the engine answers for a tool: a port that does not answer, or no login.
LEMMA UnavailableFair ==
  ASSUME NEW t, NEW saw
  PROVE  Fair(t, _web_unavailable_payload(target), saw, target = "closed")
<1> DEFINE p == TimedOut
           st == IF target = "closed" THEN "skipped" ELSE "warning"
           ia == target = "closed"
           q == [p EXCEPT !.status = st, !.inapplicable = ia]
<1>1. p \in Payload /\ p.done = "no" /\ p.error = TRUE /\ p.skip = FALSE /\ p.marked = FALSE
  BY TimedOutFields
<1>2. st \in {"skipped", "warning"} /\ ia \in BOOLEAN
  OBVIOUS
<1> HIDE DEF p, st, ia
<1>3. /\ q \in Payload /\ q.status = st /\ q.inapplicable = ia /\ q.done = p.done /\ q.error = p.error
      /\ q.skip = p.skip /\ q.marked = p.marked
  BY <1>1, <1>2 DEF Payload
<1> HIDE DEF q
<1>4. Fair(t, q, saw, ia)
  BY <1>1, <1>2, <1>3 DEF Fair, _tool_display_status
<1> QED BY <1>4 DEF p, q, st, ia, _web_unavailable_payload

\* A tool of a combination that has no login is left out.
LEMMA SubtoolFair ==
  ASSUME NEW t \in {"baseline_check", "scan_weak_passwords"}, NEW saw, NEW denied
  PROVE  Fair(t, [Plain EXCEPT !.inapplicable = TRUE], saw, denied)
<1> DEFINE p == Plain
           q == [p EXCEPT !.inapplicable = TRUE]
<1>1. p \in Payload /\ p.skip = FALSE /\ p.status = "success"
  BY PlainFields
<1> HIDE DEF p
<1>2. q \in Payload /\ q.skip = p.skip /\ q.status = p.status
  BY <1>1 DEF Payload
<1> HIDE DEF q
<1>3. Fair(t, q, saw, denied)
  BY <1>1, <1>2 DEF Fair, Gullible, UnheardOf
<1> QED BY <1>3 DEF p, q

\* The tools are those of combinations, and some others.
LEMMA ToolsAre ==
  \A t : t \in Tools <=> \/ \E c \in DOMAIN Combinations : t \in Combinations[c]
                        \/ t \in TechAssessment
                        \/ t \in {"masscan_scan", "fping_scan", "sqlmap_scan", "snmp_get"}
BY DEF Tools

\* The tools, by name.
LEMMA ToolNames ==
  Tools \subseteq {"scan_ports", "masscan_scan", "fping_scan", "nikto_scan", "sqlmap_scan", "gobuster_scan",
                   "ffuf_scan", "snmp_walk", "snmp_bruteforce", "snmp_get", "enum4linux_scan",
                   "crackmapexec_scan", "smb_enum", "redis_check", "oracle_check", "mongodb_check",
                   "memcached_check", "mysql_check", "scan_ssl", "crypto_transport_scan",
                   "scan_vulnerabilities", "scan_weak_passwords", "baseline_check"}
<1> DEFINE Names == {"scan_ports", "masscan_scan", "fping_scan", "nikto_scan", "sqlmap_scan", "gobuster_scan",
                     "ffuf_scan", "snmp_walk", "snmp_bruteforce", "snmp_get", "enum4linux_scan",
                     "crackmapexec_scan", "smb_enum", "redis_check", "oracle_check", "mongodb_check",
                     "memcached_check", "mysql_check", "scan_ssl", "crypto_transport_scan",
                     "scan_vulnerabilities", "scan_weak_passwords", "baseline_check"}
<1>1. TechAssessment \cup {"masscan_scan", "fping_scan", "sqlmap_scan", "snmp_get"} \subseteq Names
  BY DEF TechAssessment
<1>2. \A c \in DOMAIN Combinations : Combinations[c] \subseteq Names
  <2>1. DatabaseSecurity \subseteq Names /\ WebDiscovery \subseteq Names
    BY DEF DatabaseSecurity, WebDiscovery
  <2>2. NetworkDevice \subseteq Names /\ WindowsSecurity \subseteq Names
    BY DEF NetworkDevice, WindowsSecurity
  <2>3. FullCompliance \subseteq Names /\ CryptoOnsite \subseteq Names
    BY DEF FullCompliance, CryptoOnsite
  <2>4. TechTools \subseteq Names
    BY <1>1
  <2>5. \A c \in DOMAIN Combinations :
          Combinations[c] \in {DatabaseSecurity, WebDiscovery, NetworkDevice, WindowsSecurity, FullCompliance,
                              CryptoOnsite, TechTools}
    BY DEF Combinations
  <2> HIDE DEF Names
  <2> QED BY <2>1, <2>2, <2>3, <2>4, <2>5
<1> HIDE DEF Names
<1>3. ASSUME NEW t \in Tools PROVE t \in Names
  <2>1. CASE \E c \in DOMAIN Combinations : t \in Combinations[c]
    BY <1>2, <2>1
  <2>2. CASE ~\E c \in DOMAIN Combinations : t \in Combinations[c]
    BY <1>1, <2>2, ToolsAre
  <2> QED BY <2>1, <2>2
<1> QED BY <1>3 DEF Names

\* Whatever a tool answers is fair to those who read it.
LEMMA AnswersFair ==
  ASSUME NEW t \in Tools, NEW r \in ProcessRuns(t), NEW p \in Answers(t, r)
  PROVE  Fair(t, p, r.looked, target = "closed")
<1>1. CASE t \in {"scan_ports", "masscan_scan", "scan_weak_passwords"}
  <2>1. p \in {nmap_scan(r), masscan_scan(r), hydra_bruteforce(r)}
    BY <1>1 DEF Answers
  <2>2. t \in Gullible
    BY <1>1 DEF Gullible, PortScanners
  <2> QED BY <2>1, <2>2, PortsTold, HydraTold DEF Honest
<1>2. CASE t \in {"fping_scan", "scan_ssl", "crypto_transport_scan"}
  <2>1. p \in {fping_scan(r), testssl_scan(r), crypto_transport_scan(r)}
    BY <1>2 DEF Answers
  <2> QED BY <2>1, FpingTold, TestsslTold, CryptoTold DEF Honest
<1>3. CASE t \in {"nikto_scan", "sqlmap_scan", "gobuster_scan", "ffuf_scan"}
  <2> DEFINE w == WebTool(r)
             q == [w EXCEPT !.risk = FALSE]
  <2>1. p \in {w, q, _protection_limited_payload(q)}
    BY <1>3 DEF Answers, nikto_scan, sqlmap_scan, gobuster_scan, ffuf_scan
  <2>2. Honest(t, w, r.looked, target = "closed")
    BY WebTold
  <2> HIDE DEF w
  <2>3. Honest(t, q, r.looked, target = "closed")
    BY <2>2, RiskTold
  <2> HIDE DEF q
  <2>4. Honest(t, _protection_limited_payload(q), r.looked, target = "closed")
    BY <2>3, LimitedTold DEF Honest, Fair
  <2> QED BY <2>1, <2>2, <2>3, <2>4 DEF Honest
<1>4. CASE t \in {"snmp_walk", "snmp_bruteforce", "snmp_get"}
  <2>1. p \in {snmp_walk(r), snmp_bruteforce(r), snmp_get(r)}
    BY <1>4 DEF Answers
  <2> QED BY <2>1, SnmpTold DEF Honest
<1>5. CASE t \in {"enum4linux_scan", "crackmapexec_scan", "smb_enum"}
  <2>1. p = WindowsTool(r)
    BY <1>5 DEF Answers, enum4linux_scan, crackmapexec_scan, smb_enum
  <2> QED BY <2>1, WindowsTold DEF Honest
<1>6. CASE t \in {"redis_check", "oracle_check", "mysql_check"}
  <2>1. p \in {DatabaseTool(r), [DatabaseTool(r) EXCEPT !.risk = FALSE]}
    BY <1>6 DEF Answers, redis_check, oracle_check, mysql_check
  <2>2. Honest(t, DatabaseTool(r), r.looked, target = "closed")
    BY DatabaseTold
  <2>3. Honest(t, [DatabaseTool(r) EXCEPT !.risk = FALSE], r.looked, target = "closed")
    BY <2>2, RiskTold
  <2> QED BY <2>1, <2>2, <2>3 DEF Honest
<1>7. CASE t \in {"mongodb_check", "memcached_check"}
  <2>1. p = IF target # "open" THEN no_response_result(TRUE) ELSE DatabaseTool(r)
    BY <1>7 DEF Answers, mongodb_check, memcached_check
  <2>2. t \in UnheardOf
    BY <1>7 DEF UnheardOf
  <2> QED BY <2>1, <2>2, UnreachedTold DEF Honest
<1>8. CASE t = "scan_vulnerabilities"
  <2> DEFINE w == nuclei_scan(r)
  <2>1. p \in {w, _protection_limited_payload(w)}
    BY <1>8 DEF Answers
  <2>2. Honest(t, w, r.looked, target = "closed")
    BY NucleiTold
  <2> HIDE DEF w
  <2>3. Honest(t, _protection_limited_payload(w), r.looked, target = "closed")
    BY <2>2, LimitedTold DEF Honest, Fair
  <2> QED BY <2>1, <2>2, <2>3 DEF Honest
<1>9. CASE t = "baseline_check"
  <2>1. PICK b \in BOOLEAN : p = _call_ssh_checker(linux_baseline(r, b))
    BY <1>9 DEF Answers
  <2> QED BY <1>9, <2>1, BaselineFair
<1> QED BY ToolNames, <1>1, <1>2, <1>3, <1>4, <1>5, <1>6, <1>7, <1>8, <1>9

-----------------------------------------------------------------------------
(* The invariant.                                                          *)

Caps == Tools \cup DOMAIN Combinations
Payloads == UNION {[T -> Payload] : T \in SUBSET Tools}
CapResult == [cap : Caps, of : Payloads]
Answer == [says : Verdicts, credited : BOOLEAN, inapplicable : BOOLEAN, report : Reports,
           quiet : SUBSET Tools]

CheckTyped ==
  /\ check \in [path : {"assessment", "interactive"}, caps : Seq(Caps)]
  /\ target \in TargetStates /\ changes \in 0 .. MaxChanges
  /\ passed \subseteq Preflighted /\ (check.caps = <<>> => passed = {})
  /\ payload \in Payloads
  /\ check.caps # <<>> => DOMAIN payload \subseteq ToolsOf(Capability)
  /\ looked \subseteq Tools /\ refused \subseteq Tools
  /\ verdict \in Answer
ResultsTyped ==
  /\ results \in Seq(CapResult)
  /\ \A i \in DOMAIN results : DOMAIN results[i].of = ToolsOf(results[i].cap)

\* What was answered, and is now or will be read, was earned.
Earned(t, p) == Fair(t, p, t \in looked, t \in refused)
AnswersEarned ==
  /\ \A t \in DOMAIN payload : Earned(t, payload[t])
  /\ \A i \in DOMAIN results : \A t \in DOMAIN results[i].of : Earned(t, results[i].of[t])

\* A combination with one of the tools that call silence a refusal stands alone in its
\* task, so that the task is not applicable when the combination is skipped.
Doubtful == {"database_security_scan", "tech_assessment"}
DoubtfulAlone ==
  check.path = "assessment" =>
    /\ \A i \in DOMAIN check.caps : check.caps[i] \in Doubtful => Len(check.caps) = 1 /\ results = <<>>
    /\ \A i \in DOMAIN results : results[i].cap \in Doubtful => Len(results) = 1 /\ check.caps = <<>>

\* All verdicts but "clean" on a plan of the user, which depends on the last of its steps.
Judgeable == check.path = "assessment" \/ verdict.says # "clean"
VerdictInvariant ==
  /\ CheckTyped /\ ResultsTyped /\ AnswersEarned /\ DoubtfulAlone
  /\ ~Running => check.caps = <<>>
  /\ Judgeable => VerdictsAreEarned

\* What was earned stays so.
LEMMA FairGrows ==
  ASSUME NEW t, NEW p, NEW saw, NEW denied, NEW saw2, NEW denied2,
         Fair(t, p, saw, denied), saw => saw2, denied => denied2
  PROVE  Fair(t, p, saw2, denied2)
BY DEF Fair

\* What a tool earned stays earned as more tools look and are refused.
LEMMA EarnedStays ==
  ASSUME looked \subseteq looked', refused \subseteq refused'
  PROVE  \A t, p : Earned(t, p) => Fair(t, p, t \in looked', t \in refused')
BY DEF Earned, Fair

\* Nobody has read anything yet.
LEMMA UnreadEarned == Running => VerdictsAreEarned /\ verdict \in Answer
<1> SUFFICES ASSUME Running PROVE VerdictsAreEarned /\ verdict \in Answer
  OBVIOUS
<1>1. /\ verdict.says = "none" /\ verdict.credited = FALSE /\ verdict.inapplicable = FALSE
      /\ verdict.report = "none" /\ verdict.quiet = {}
  BY DEF Running, Unread
<1>2. verdict \in Answer
  BY DEF Running, Unread, Answer, Verdicts, Reports
<1>3. VerdictsAreEarned
  BY <1>1 DEF VerdictsAreEarned, CleanIsCovered, NotApplicableWasRefused
<1> QED BY <1>2, <1>3

\* The tasks ask for known capabilities, a doubtful one alone.
LEMMA KnownCaps ==
  /\ DOMAIN Combinations \subseteq Caps /\ Tools \subseteq Caps
  /\ {"masscan_scan", "fping_scan", "scan_ports", "scan_vulnerabilities", "baseline_check",
      "scan_weak_passwords", "scan_ssl", "nikto_scan", "sqlmap_scan"} \subseteq Caps
  /\ {"crypto_onsite_assessment", "web_discovery_scan", "database_security_scan", "network_device_scan",
      "windows_security_scan"} \subseteq Caps
<1>1. DOMAIN Combinations \subseteq Caps /\ Tools \subseteq Caps
  BY DEF Caps
<1>2. {"crypto_onsite_assessment", "web_discovery_scan", "database_security_scan", "network_device_scan",
       "windows_security_scan"} \subseteq DOMAIN Combinations
  BY DEF Combinations
<1>3. TechAssessment \cup {"masscan_scan", "fping_scan", "sqlmap_scan", "snmp_get"} \subseteq Tools
  BY ToolsAre
<1>4. {"masscan_scan", "fping_scan", "scan_ports", "scan_vulnerabilities", "baseline_check",
       "scan_weak_passwords", "scan_ssl", "nikto_scan", "sqlmap_scan"} \subseteq Tools
  BY <1>3 DEF TechAssessment
<1> QED BY <1>1, <1>2, <1>4

\* The tasks are sequences of known capabilities, a doubtful one alone.
LEMMA TasksKnown ==
  \A k \in DOMAIN AssessmentTasks :
    /\ AssessmentTasks[k] \in Seq(Caps)
    /\ \A i \in DOMAIN AssessmentTasks[k] :
         AssessmentTasks[k][i] \in Doubtful => Len(AssessmentTasks[k]) = 1
<1> DEFINE Ok(s) == s \in Seq(Caps) /\ \A i \in DOMAIN s : s[i] \in Doubtful => Len(s) = 1
<1>1. \A a \in Caps : Ok(<<a>>)
  OBVIOUS
<1>2. \A a, b \in Caps \ Doubtful : Ok(<<a, b>>)
  OBVIOUS
<1>3. \A a, b, c \in Caps \ Doubtful : Ok(<<a, b, c>>)
  OBVIOUS
<1>4. \A a, b, c, d \in Caps \ Doubtful : Ok(<<a, b, c, d>>)
  OBVIOUS
<1> HIDE DEF Ok
<1>5. {"masscan_scan", "fping_scan", "scan_ports", "scan_vulnerabilities", "baseline_check",
       "scan_weak_passwords", "scan_ssl", "nikto_scan", "sqlmap_scan", "web_discovery_scan"}
        \subseteq Caps \ Doubtful
  BY KnownCaps DEF Doubtful
<1>6. {"crypto_onsite_assessment", "database_security_scan", "network_device_scan",
       "windows_security_scan"} \subseteq Caps
  BY KnownCaps
<1>7. ASSUME NEW k \in DOMAIN AssessmentTasks PROVE Ok(AssessmentTasks[k])
  <2>1. AssessmentTasks[k] \in
          {<<"masscan_scan", "fping_scan", "scan_ports">>, <<"scan_ports">>, <<"scan_vulnerabilities">>,
           <<"baseline_check">>, <<"scan_weak_passwords">>, <<"scan_ssl">>, <<"crypto_onsite_assessment">>,
           <<"scan_vulnerabilities", "nikto_scan">>, <<"nikto_scan", "sqlmap_scan", "web_discovery_scan">>,
           <<"database_security_scan">>, <<"network_device_scan">>, <<"windows_security_scan">>,
           <<"scan_ports", "scan_ssl", "scan_vulnerabilities", "scan_weak_passwords">>}
    BY DEF AssessmentTasks
  <2>2. \A s \in {<<"scan_ports">>, <<"scan_vulnerabilities">>, <<"baseline_check">>, <<"scan_weak_passwords">>,
                  <<"scan_ssl">>} : Ok(s)
    BY <1>1, <1>5
  <2>3. \A s \in {<<"crypto_onsite_assessment">>, <<"database_security_scan">>, <<"network_device_scan">>,
                  <<"windows_security_scan">>} : Ok(s)
    BY <1>1, <1>6
  <2>4. Ok(<<"masscan_scan", "fping_scan", "scan_ports">>)
    BY <1>3, <1>5
  <2>5. Ok(<<"scan_vulnerabilities", "nikto_scan">>)
    BY <1>2, <1>5
  <2>6. Ok(<<"nikto_scan", "sqlmap_scan", "web_discovery_scan">>)
    BY <1>3, <1>5
  <2>7. Ok(<<"scan_ports", "scan_ssl", "scan_vulnerabilities", "scan_weak_passwords">>)
    BY <1>4, <1>5
  <2> QED BY <2>1, <2>2, <2>3, <2>4, <2>5, <2>6, <2>7
<1> QED BY <1>7 DEF Ok

\* A check begins with nothing answered.
LEMMA VerdictInvariantInit == VerdictInit => VerdictInvariant
<1> SUFFICES ASSUME VerdictInit PROVE VerdictInvariant
  OBVIOUS
<1>1. Running /\ passed = {} /\ payload = <<>> /\ results = <<>> /\ looked = {} /\ refused = {} /\ changes = 0
  BY DEF VerdictInit, Running
<1>2. /\ check.path \in {"assessment", "interactive"} /\ check.caps \in Seq(Caps)
      /\ check \in [path : {"assessment", "interactive"}, caps : Seq(Caps)]
      /\ check.path = "assessment" =>
           \A i \in DOMAIN check.caps : check.caps[i] \in Doubtful => Len(check.caps) = 1
  <2>1. CASE check \in [path : {"assessment"}, caps : {AssessmentTasks[t] : t \in TaskTypes}]
    <3>1. PICK t \in TaskTypes : check.path = "assessment" /\ check.caps = AssessmentTasks[t]
      BY <2>1
    <3>2. AssessmentTasks[t] \in Seq(Caps) /\ \A i \in DOMAIN AssessmentTasks[t] :
            AssessmentTasks[t][i] \in Doubtful => Len(AssessmentTasks[t]) = 1
      BY <3>1, TasksKnown
    <3> QED BY <2>1, <3>1, <3>2
  <2>2. CASE check \in [path : {"interactive"}, caps : Plans]
    <3>1. Plans \subseteq Seq(Caps)
      BY DEF Caps
    <3> QED BY <2>2, <3>1
  <2> QED BY <2>1, <2>2 DEF VerdictInit
<1>3. DOMAIN payload = {} /\ payload \in Payloads
  <2>1. payload \in [{} -> Payload] /\ DOMAIN payload = {}
    BY <1>1
  <2> QED BY <2>1 DEF Payloads
<1>4. results \in Seq(CapResult) /\ DOMAIN results = {}
  BY <1>1
<1>5. CheckTyped
  BY <1>1, <1>2, <1>3, UnreadEarned DEF CheckTyped, VerdictInit
<1>6. ResultsTyped /\ AnswersEarned /\ DoubtfulAlone
  BY <1>1, <1>2, <1>3, <1>4 DEF ResultsTyped, AnswersEarned, DoubtfulAlone
<1> QED BY <1>1, <1>5, <1>6, UnreadEarned DEF VerdictInvariant

\* A tool of the current capability answers, or its port is seen to be open.
LEMMA CheckGoesOn ==
  ASSUME VerdictInvariant, NEW t \in Untried, t \in Tools,
         UNCHANGED <<check, target, changes, results, verdict>>,
         passed' \subseteq Preflighted,
         looked \subseteq looked', looked' \subseteq Tools,
         refused \subseteq refused', refused' \subseteq Tools,
         \/ UNCHANGED payload
         \/ \E p : Returns(t, p) /\ Fair(t, p, t \in looked', t \in refused')
  PROVE  VerdictInvariant'
<1>1. check.caps # <<>> /\ t \in ToolsOf(Capability) /\ t \notin DOMAIN payload
  BY DEF Untried
<1>2. Running /\ verdict' = verdict
  BY <1>1 DEF VerdictInvariant
<1>3. Running' /\ VerdictsAreEarned'
  <2>1. Running'
    BY <1>2 DEF Running
  <2>2. Running' => VerdictsAreEarned'
    BY UnreadEarned, PTL
  <2> QED BY <2>1, <2>2
<1>4. PICK T \in SUBSET Tools : payload \in [T -> Payload]
  BY DEF VerdictInvariant, CheckTyped, Payloads
<1>5. /\ payload' \in Payloads
      /\ DOMAIN payload' \subseteq ToolsOf(Capability)
      /\ \A u \in DOMAIN payload' : Fair(u, payload'[u], u \in looked', u \in refused')
  <2>1. \A u \in DOMAIN payload : Fair(u, payload[u], u \in looked', u \in refused')
    BY EarnedStays DEF VerdictInvariant, AnswersEarned
  <2>2. CASE UNCHANGED payload
    BY <1>1, <2>1, <2>2 DEF VerdictInvariant, CheckTyped
  <2>3. CASE \E p : Returns(t, p) /\ Fair(t, p, t \in looked', t \in refused')
    <3>1. PICK p : Returns(t, p) /\ Fair(t, p, t \in looked', t \in refused')
      BY <2>3
    <3>2. p \in Payload
      BY <3>1 DEF Fair
    <3>3. DOMAIN payload = T
      BY <1>4
    <3>4. payload' = [u \in T \cup {t} |-> IF u = t THEN p ELSE payload[u]]
      BY <3>1, <3>3 DEF Returns
    <3>5. payload' \in [T \cup {t} -> Payload] /\ T \cup {t} \in SUBSET Tools /\ DOMAIN payload' = T \cup {t}
      BY <1>4, <3>2, <3>4
    <3>6. payload' \in Payloads
      BY <3>5 DEF Payloads
    <3>7. payload'[t] = p /\ \A u \in T \ {t} : payload'[u] = payload[u]
      BY <3>4
    <3>8. \A u \in DOMAIN payload' : Fair(u, payload'[u], u \in looked', u \in refused')
      BY <2>1, <3>1, <3>3, <3>5, <3>7
    <3>9. DOMAIN payload' \subseteq ToolsOf(Capability)
      BY <1>1, <3>3, <3>5 DEF VerdictInvariant, CheckTyped
    <3> QED BY <3>6, <3>8, <3>9
  <2> QED BY <2>2, <2>3
<1>6. CheckTyped'
  BY <1>1, <1>5 DEF VerdictInvariant, CheckTyped, Capability
<1>7. ResultsTyped' /\ DoubtfulAlone'
  BY DEF VerdictInvariant, ResultsTyped, DoubtfulAlone
<1>8. AnswersEarned'
  <2>1. \A i \in DOMAIN results : \A u \in DOMAIN results[i].of :
          Fair(u, results[i].of[u], u \in looked', u \in refused')
    BY EarnedStays DEF VerdictInvariant, AnswersEarned
  <2> QED BY <1>5, <2>1 DEF AnswersEarned, Earned
<1> QED BY <1>3, <1>6, <1>7, <1>8 DEF VerdictInvariant

\* The target changes.
LEMMA TargetChangesKeeps == VerdictInvariant /\ TargetChanges => VerdictInvariant'
<1> SUFFICES ASSUME VerdictInvariant, TargetChanges PROVE VerdictInvariant'
  OBVIOUS
<1>1. /\ UNCHANGED <<check, passed, payload, results, looked, refused, verdict>>
      /\ target' \in TargetStates
  BY DEF TargetChanges
<1>2. changes' \in 0 .. MaxChanges
  BY DEF TargetChanges, VerdictInvariant, CheckTyped
<1>3. CheckTyped' /\ ResultsTyped' /\ DoubtfulAlone'
  BY <1>1, <1>2 DEF VerdictInvariant, CheckTyped, ResultsTyped, DoubtfulAlone, Capability
<1>4. AnswersEarned' /\ (~Running' => check'.caps = <<>>)
  BY <1>1 DEF VerdictInvariant, AnswersEarned, Earned, Running
<1>5. Judgeable' => VerdictsAreEarned'
  <2>1. Judgeable' = Judgeable
    BY <1>1 DEF Judgeable
  <2>2. VerdictsAreEarned' = VerdictsAreEarned
    BY <1>1 DEF VerdictsAreEarned, CleanIsCovered, NotApplicableWasRefused, Asked, Returned, RaisedStep, Only
  <2> QED BY <2>1, <2>2 DEF VerdictInvariant
<1> QED BY <1>3, <1>4, <1>5 DEF VerdictInvariant

\* A tool that is tried is refused if the port is closed.
LEMMA TriedFacts ==
  ASSUME NEW t \in Tools, Tried(t), VerdictInvariant
  PROVE  /\ refused \subseteq refused' /\ refused' \subseteq Tools
         /\ target = "closed" => t \in refused'
BY DEF Tried, VerdictInvariant, CheckTyped

\* The engine looks at the port before a tool does.
LEMMA PreflightKeeps ==
  ASSUME VerdictInvariant, NEW t \in Tools, Preflight(t)
  PROVE  VerdictInvariant'
<1>1. /\ t \in Untried /\ t \in Preflighted /\ UNCHANGED <<check, target, changes, results, looked, verdict>>
      /\ Tried(t)
  BY DEF Preflight
<1>2. passed' \subseteq Preflighted
  BY <1>1 DEF Preflight, VerdictInvariant, CheckTyped
<1>3. \/ UNCHANGED payload
      \/ \E p : Returns(t, p) /\ Fair(t, p, t \in looked', target = "closed")
  <2>1. Fair(t, _web_unavailable_payload(target), t \in looked', target = "closed")
    BY UnavailableFair
  <2>2. Fair(t, _protection_limited_payload(Plain), t \in looked', target = "closed")
    BY PlainFields, LimitedTold DEF Honest
  <2> QED BY <2>1, <2>2 DEF Preflight
<1>4. \/ UNCHANGED payload
      \/ \E p : Returns(t, p) /\ Fair(t, p, t \in looked', t \in refused')
  BY <1>1, <1>3, TriedFacts, FairGrows
<1>5. /\ refused \subseteq refused' /\ refused' \subseteq Tools
      /\ looked \subseteq looked' /\ looked' \subseteq Tools
  BY <1>1, TriedFacts DEF VerdictInvariant, CheckTyped
<1> QED BY <1>1, <1>2, <1>4, <1>5, CheckGoesOn

\* A tool runs and answers.
LEMMA ExecuteKeeps ==
  ASSUME VerdictInvariant, NEW t \in Tools, _execute_capability(t)
  PROVE  VerdictInvariant'
<1>1. t \in Untried /\ UNCHANGED <<check, target, changes, passed, results, verdict>> /\ Tried(t)
  BY DEF _execute_capability
<1>2. PICK r \in ProcessRuns(t) :
        /\ \E p \in Answers(t, r) : Returns(t, _gateway_payload(p, t \in AllowFailed))
        /\ looked' = IF r.looked THEN looked \cup {t} ELSE looked
  BY DEF _execute_capability
<1>3. PICK p \in Answers(t, r) : Returns(t, _gateway_payload(p, t \in AllowFailed))
  BY <1>2
<1>4. Fair(t, _gateway_payload(p, t \in AllowFailed), r.looked, target = "closed")
  BY AnswersFair, GatewayFair
<1>5. (r.looked => t \in looked') /\ looked \subseteq looked' /\ looked' \subseteq Tools
  BY <1>2 DEF VerdictInvariant, CheckTyped
<1>6. /\ refused \subseteq refused' /\ refused' \subseteq Tools
      /\ target = "closed" => t \in refused'
  BY <1>1, TriedFacts
<1>7. Fair(t, _gateway_payload(p, t \in AllowFailed), t \in looked', t \in refused')
  BY <1>4, <1>5, <1>6 DEF Fair
<1>8. passed' \subseteq Preflighted
  BY <1>1 DEF VerdictInvariant, CheckTyped
<1> QED BY <1>1, <1>3, <1>5, <1>6, <1>7, <1>8, CheckGoesOn

\* A tool is left out.
LEMMA SubtoolKeeps ==
  ASSUME VerdictInvariant, NEW t \in Tools, _skipped_subtool(t)
  PROVE  VerdictInvariant'
<1>1. /\ t \in Untried /\ t \in {"baseline_check", "scan_weak_passwords"}
      /\ Returns(t, [Plain EXCEPT !.inapplicable = TRUE])
      /\ UNCHANGED <<check, target, changes, passed, results, looked, refused, verdict>>
  BY DEF _skipped_subtool
<1>2. Fair(t, [Plain EXCEPT !.inapplicable = TRUE], t \in looked', t \in refused')
  BY <1>1, SubtoolFair
<1>3. /\ passed' \subseteq Preflighted /\ looked' = looked /\ refused' = refused
      /\ looked \subseteq Tools /\ refused \subseteq Tools
  BY <1>1 DEF VerdictInvariant, CheckTyped
<1> QED BY <1>1, <1>2, <1>3, CheckGoesOn

\* The answers for a capability are kept, and the next is begun.
LEMMA NextCapabilityKeeps == VerdictInvariant /\ NextCapability => VerdictInvariant'
<1> SUFFICES ASSUME VerdictInvariant, NextCapability PROVE VerdictInvariant'
  OBVIOUS
<1> DEFINE done == [cap |-> Capability, of |-> payload]
           caps == check.caps
<1>1. /\ caps # <<>> /\ Untried = {} /\ results' = Append(results, done)
      /\ check' = [check EXCEPT !.caps = Tail(caps)] /\ passed' = {} /\ payload' = <<>>
      /\ UNCHANGED <<target, changes, looked, refused, verdict>>
  BY DEF NextCapability
<1>2. check \in [path : {"assessment", "interactive"}, caps : Seq(Caps)] /\ caps \in Seq(Caps)
  BY DEF VerdictInvariant, CheckTyped
<1>3. /\ Capability \in Caps /\ Capability = caps[1] /\ Tail(caps) \in Seq(Caps)
      /\ Len(caps) \in Nat /\ Len(caps) > 0 /\ Len(Tail(caps)) = Len(caps) - 1
      /\ \A i \in 1 .. Len(Tail(caps)) : Tail(caps)[i] = caps[i + 1]
  BY <1>1, <1>2, HeadTailProperties, LenProperties, EmptySeq DEF Capability
<1>4. check'.path = check.path /\ check'.caps = Tail(caps)
      /\ check' \in [path : {"assessment", "interactive"}, caps : Seq(Caps)]
  BY <1>1, <1>2, <1>3
<1>5. DOMAIN payload = ToolsOf(Capability) /\ payload \in Payloads
  BY <1>1 DEF Untried, VerdictInvariant, CheckTyped
<1>6. done \in CapResult /\ done.cap = Capability /\ done.of = payload
  BY <1>3, <1>5 DEF CapResult
<1>7. results \in Seq(CapResult)
  BY DEF VerdictInvariant, ResultsTyped
<1> HIDE DEF done, caps
<1>8. /\ results' \in Seq(CapResult) /\ Len(results') = Len(results) + 1
      /\ \A i \in 1 .. Len(results) : results'[i] = results[i]
      /\ results'[Len(results) + 1] = done
      /\ Len(results) \in Nat
  BY <1>1, <1>6, <1>7, AppendProperties, LenProperties
<1>9. /\ DOMAIN results = 1 .. Len(results)
      /\ \A i \in DOMAIN results' : i \in DOMAIN results \/ i = Len(results) + 1
  BY <1>7, <1>8
<1>10. ResultsTyped'
  BY <1>5, <1>6, <1>8, <1>9 DEF VerdictInvariant, ResultsTyped, ToolsOf, Combined
<1>11. Running /\ Running' /\ VerdictsAreEarned'
  <2>1. Running
    BY <1>1 DEF VerdictInvariant, caps
  <2>2. Running'
    BY <1>1, <2>1 DEF Running
  <2>3. Running' => VerdictsAreEarned'
    BY UnreadEarned, PTL
  <2> QED BY <2>1, <2>2, <2>3
<1>12. payload' \in [{} -> Payload] /\ DOMAIN payload' = {} /\ payload' \in Payloads
  <2>1. payload' \in [{} -> Payload] /\ DOMAIN payload' = {}
    BY <1>1
  <2> QED BY <2>1 DEF Payloads
<1>13. CheckTyped'
  BY <1>1, <1>4, <1>12 DEF VerdictInvariant, CheckTyped
<1>14. AnswersEarned'
  <2>1. \A t \in DOMAIN done.of : Earned(t, done.of[t])
    BY <1>6 DEF VerdictInvariant, AnswersEarned
  <2>2. \A i \in DOMAIN results' : \A t \in DOMAIN results'[i].of : Earned(t, results'[i].of[t])
    BY <1>8, <1>9, <2>1 DEF VerdictInvariant, AnswersEarned
  <2>3. \A t, p : Earned(t, p) => Fair(t, p, t \in looked', t \in refused')
    BY <1>1, EarnedStays
  <2> QED BY <1>12, <2>2, <2>3 DEF AnswersEarned, Earned
<1>15. DoubtfulAlone'
  <2> SUFFICES ASSUME check.path = "assessment"
               PROVE  /\ \A i \in DOMAIN check'.caps : check'.caps[i] \in Doubtful =>
                           Len(check'.caps) = 1 /\ results' = <<>>
                      /\ \A i \in DOMAIN results' : results'[i].cap \in Doubtful =>
                           Len(results') = 1 /\ check'.caps = <<>>
    BY <1>4 DEF DoubtfulAlone
  <2>1. /\ \A i \in DOMAIN caps : caps[i] \in Doubtful => Len(caps) = 1 /\ results = <<>>
        /\ \A i \in DOMAIN results : results[i].cap \in Doubtful => caps = <<>>
    BY DEF VerdictInvariant, DoubtfulAlone, caps
  <2>2. \A i \in 1 .. Len(Tail(caps)) : Tail(caps)[i] \notin Doubtful
    <3> SUFFICES ASSUME NEW i \in 1 .. Len(Tail(caps)), Tail(caps)[i] \in Doubtful PROVE FALSE
      OBVIOUS
    <3>1. i + 1 \in 1 .. Len(caps) /\ caps[i + 1] \in Doubtful /\ Len(caps) > 1
      BY <1>3
    <3>2. i + 1 \in DOMAIN caps
      BY <1>2, <3>1 DEF caps
    <3> QED BY <1>3, <2>1, <3>1, <3>2
  <2>3. DOMAIN Tail(caps) = 1 .. Len(Tail(caps))
    BY <1>3
  <2>4. ASSUME NEW i \in DOMAIN results', results'[i].cap \in Doubtful
        PROVE  Len(results') = 1 /\ Tail(caps) = <<>>
    <3>1. i \notin DOMAIN results
      BY <1>1, <1>8, <1>9, <2>1, <2>4
    <3>2. results'[i] = done /\ caps[1] \in Doubtful
      BY <1>3, <1>6, <1>8, <1>9, <2>4, <3>1
    <3>3. 1 \in DOMAIN caps
      BY <1>2, <1>3 DEF caps
    <3>4. Len(caps) = 1 /\ results = <<>>
      BY <2>1, <3>2, <3>3
    <3>5. Len(results) = 0 /\ Len(Tail(caps)) = 0
      BY <1>3, <1>7, <3>4, EmptySeq
    <3>6. Tail(caps) = <<>>
      BY <1>3, <3>5, EmptySeq
    <3>7. Len(results') = 1
      BY <1>8, <3>5
    <3> QED BY <3>6, <3>7
  <2> QED BY <1>4, <2>2, <2>3, <2>4
<1> QED BY <1>10, <1>11, <1>13, <1>14, <1>15 DEF VerdictInvariant

-----------------------------------------------------------------------------
(* What the readers make of it.                                            *)

\* The combinations that nobody doubts have no tool that calls silence a refusal.
LEMMA FewDoubtful ==
  \A c \in DOMAIN Combinations \ Doubtful : Combinations[c] \cap UnheardOf \subseteq Gullible
<1>1. \A c \in DOMAIN Combinations \ Doubtful :
        Combinations[c] \in {WebDiscovery, NetworkDevice, WindowsSecurity, FullCompliance, CryptoOnsite}
  BY DEF Combinations, Doubtful
<1>2. \A S \in {WebDiscovery, NetworkDevice, WindowsSecurity, FullCompliance, CryptoOnsite} :
        "mongodb_check" \notin S /\ "memcached_check" \notin S
  BY DEF WebDiscovery, NetworkDevice, WindowsSecurity, FullCompliance, CryptoOnsite
<1>3. UnheardOf \ Gullible \subseteq {"mongodb_check", "memcached_check"}
  BY DEF UnheardOf, Gullible
<1> QED BY <1>1, <1>2, <1>3

\* A capability about which nothing has to be reported was looked at, or refused, by each
\* of its tools.
LEMMA QuietIsCovered ==
  ASSUME VerdictInvariant, NEW i \in DOMAIN results, ~_risk_items(results[i]),
         results[i].cap \in Doubtful => ~AllSkipped(results[i]),
         NEW t \in ToolsOf(results[i].cap), t \notin Gullible
  PROVE  t \in looked \cup refused
<1> DEFINE s == results[i]
           p == s.of[t]
<1>1. t \in DOMAIN s.of /\ Earned(t, p)
  BY DEF VerdictInvariant, AnswersEarned, ResultsTyped
<1>2. /\ p.status # "raised" /\ (~p.error \/ p.done # "no") => t \in looked
      /\ t \notin UnheardOf /\ _tool_display_status(p) = "skipped" => t \in refused
  BY <1>1 DEF Earned, Fair
<1>3. ~RaisedStep(s) /\ ~_tool_issue(s)
  BY DEF _risk_items
<1>4. CASE ~Combined(s.cap)
  <2>1. t = s.cap /\ p = Only(s)
    BY <1>4 DEF ToolsOf, Only
  <2> QED BY <1>2, <1>3, <1>4, <2>1 DEF RaisedStep, _tool_issue
<1>5. CASE Combined(s.cap)
  <2>1. _tool_display_status(p) \in Statuses(s)
    BY <1>1 DEF Statuses
  <2>2. CASE AllSkipped(s)
    <3>1. _tool_display_status(p) = "skipped"
      BY <2>1, <2>2 DEF AllSkipped
    <3>2. s.cap \in DOMAIN Combinations \ Doubtful /\ t \in Combinations[s.cap]
      BY <1>5, <2>2 DEF Combined, ToolsOf
    <3> QED BY <1>2, <3>1, <3>2, FewDoubtful
  <2>3. CASE ~AllSkipped(s)
    <3>1. _tool_display_status(p) \notin {"failed", "warning", "skipped"}
      BY <1>3, <1>5, <2>1, <2>3 DEF _tool_issue
    <3>2. p.status # "raised" /\ p.done # "no"
      BY <3>1 DEF _tool_display_status
    <3> QED BY <1>2, <3>2
  <2> QED BY <2>2, <2>3
<1> QED BY <1>4, <1>5

\* A capability that is left out was refused, as far as its tools know refusals.
LEMMA SkippedIsRefused ==
  ASSUME VerdictInvariant, NEW i \in DOMAIN results, SkippedStep(results[i]),
         NEW t \in ToolsOf(results[i].cap), t \notin UnheardOf
  PROVE  t \in refused
<1> DEFINE s == results[i]
           p == s.of[t]
<1>1. t \in DOMAIN s.of /\ Earned(t, p)
  BY DEF VerdictInvariant, AnswersEarned, ResultsTyped
<1>2. /\ _tool_display_status(p) = "skipped" => t \in refused
      /\ ~p.skip
  BY <1>1 DEF Earned, Fair, UnheardOf
<1>3. CASE ~Combined(s.cap)
  <2>1. p = Only(s)
    BY <1>3 DEF ToolsOf, Only
  <2> QED BY <1>2, <1>3, <2>1 DEF SkippedStep
<1>4. CASE Combined(s.cap)
  <2>1. _tool_display_status(p) \in Statuses(s)
    BY <1>1 DEF Statuses
  <2> QED BY <1>2, <1>4, <2>1 DEF SkippedStep, AllSkipped
<1> QED BY <1>3, <1>4

\* What the answer to the user calls nothing was looked at.
LEMMA QuietLooked ==
  ASSUME VerdictInvariant
  PROVE  QuietTools \subseteq Tools /\ QuietTools \ Gullible \subseteq looked
<1> SUFFICES ASSUME NEW t \in QuietTools PROVE t \in Tools /\ (t \notin Gullible => t \in looked)
  OBVIOUS
<1>1. PICK i \in DOMAIN results : /\ t \in DOMAIN results[i].of
                                 /\ _describe_result_line(results[i].of[t]) = "nothing"
  BY DEF QuietTools
<1> DEFINE p == results[i].of[t]
<1>2. Earned(t, p)
  BY <1>1 DEF VerdictInvariant, AnswersEarned
<1>3. p.status # "raised" /\ p.done # "no"
  BY <1>1 DEF _describe_result_line, Finished, _tool_display_status
<1>4. t \notin Gullible => t \in looked
  BY <1>2, <1>3 DEF Earned, Fair
<1>5. results[i] \in CapResult
  BY ElementOfSeq DEF VerdictInvariant, ResultsTyped
<1>6. t \in Tools
  BY <1>1, <1>5 DEF CapResult, Payloads
<1> QED BY <1>4, <1>6

\* A task that has nothing to report and is not left out was looked at.
NotApplicable == Returned # {} /\ \A i \in Returned : SkippedStep(results[i])

\* Such a task was looked at, or refused, throughout.
LEMMA TaskIsCovered ==
  ASSUME VerdictInvariant, check.path = "assessment", ~SomeUnable, ~NotApplicable
  PROVE  Asked \ Gullible \subseteq looked \cup refused
<1> SUFFICES ASSUME NEW i \in DOMAIN results, NEW t \in ToolsOf(results[i].cap), t \notin Gullible
             PROVE  t \in looked \cup refused
  BY DEF Asked
<1>1. ~_risk_items(results[i])
  BY DEF SomeUnable
<1>2. results[i].cap \in Doubtful => ~AllSkipped(results[i])
  <2> SUFFICES ASSUME results[i].cap \in Doubtful, AllSkipped(results[i]) PROVE FALSE
    OBVIOUS
  <2>1. Len(results) = 1 /\ DOMAIN results = 1 .. Len(results)
    BY DEF VerdictInvariant, DoubtfulAlone, ResultsTyped
  <2>2. DOMAIN results = {i}
    BY <2>1
  <2>3. Combined(results[i].cap)
    BY DEF AllSkipped
  <2>4. i \in Returned /\ Returned = {i}
    BY <2>2, <2>3 DEF Returned, RaisedStep
  <2>5. SkippedStep(results[i])
    BY <2>3 DEF SkippedStep
  <2> QED BY <2>4, <2>5 DEF NotApplicable
<1> QED BY <1>1, <1>2, QuietIsCovered

\* What a verdict v may say.
Merits(v) ==
  /\ v \in Answer
  /\ check.path = "assessment" \/ v.says # "clean" =>
       /\ \/ v.says = "clean" \/ v.credited
          \/ v.report = "clean" /\ ~v.inapplicable
          => Asked \ Gullible \subseteq looked \cup refused
       /\ v.quiet \ Gullible \subseteq looked
       /\ v.inapplicable => \A i \in Returned : ToolsOf(results[i].cap) \ UnheardOf \subseteq refused

\* A reader gives the verdict.
LEMMA ConcludeKeeps == VerdictInvariant /\ Conclude => VerdictInvariant'
<1> SUFFICES ASSUME VerdictInvariant, Conclude PROVE VerdictInvariant'
  OBVIOUS
<1>1. /\ check.caps = <<>>
      /\ verdict' = IF check.path = "assessment" THEN ExecuteTask ELSE ScanDescriptor
      /\ UNCHANGED <<check, target, changes, passed, payload, results, looked, refused>>
  BY DEF Conclude
<1>2. ASSUME check.path = "assessment" PROVE Merits(verdict')
  <2>1. verdict' = ExecuteTask
    BY <1>1, <1>2
  <2>2. /\ verdict'.says \in {"failed", "issues", "incomplete", "clean"}
        /\ verdict'.report = ReportOutcome /\ verdict'.quiet = {}
        /\ verdict'.credited = (~Failed /\ ~SomeRisk /\ ~SomeUnable /\ ~NotApplicable)
        /\ verdict'.inapplicable = (NotApplicable /\ ~Failed)
        /\ verdict'.says = "clean" => ~NotApplicable /\ ~SomeUnable
    BY <2>1 DEF ExecuteTask, NotApplicable
  <2>3. ReportOutcome \in Reports /\ (ReportOutcome = "clean" => ~SomeUnable /\ ~Failed)
    BY DEF ReportOutcome, Reports
  <2>4. verdict' \in Answer
    BY <2>1, <2>3 DEF ExecuteTask, Answer, Verdicts
  <2>5. \/ verdict'.says = "clean" \/ verdict'.credited
        \/ verdict'.report = "clean" /\ ~verdict'.inapplicable
        => Asked \ Gullible \subseteq looked \cup refused
    BY <1>2, <2>2, <2>3, TaskIsCovered
  <2>6. verdict'.inapplicable => \A i \in Returned : ToolsOf(results[i].cap) \ UnheardOf \subseteq refused
    <3> SUFFICES ASSUME NotApplicable, NEW i \in Returned, NEW t \in ToolsOf(results[i].cap), t \notin UnheardOf
                 PROVE  t \in refused
      BY <2>2
    <3>1. i \in DOMAIN results /\ SkippedStep(results[i])
      BY DEF NotApplicable, Returned
    <3> QED BY <3>1, SkippedIsRefused
  <2> QED BY <2>2, <2>4, <2>5, <2>6 DEF Merits
<1>3. ASSUME check.path = "interactive" PROVE Merits(verdict')
  <2>1. verdict' = ScanDescriptor
    BY <1>1, <1>3
  <2>2. /\ verdict'.credited = FALSE /\ verdict'.inapplicable = FALSE /\ verdict'.quiet = QuietTools
        /\ verdict'.says \in {"issues", "clean", "incomplete"} /\ verdict'.report \in {"risk", "inconclusive"}
    BY <2>1 DEF ScanDescriptor
  <2>3. verdict' \in Answer
    BY <2>1, QuietLooked DEF ScanDescriptor, Answer, Verdicts, Reports
  <2> QED BY <1>3, <2>2, <2>3, QuietLooked DEF Merits
<1>4. Merits(verdict')
  <2>1. check.path \in {"assessment", "interactive"}
    BY DEF VerdictInvariant, CheckTyped
  <2> QED BY <1>2, <1>3, <2>1
<1>5. /\ Asked' = Asked /\ Returned' = Returned
      /\ \A i \in Returned : ToolsOf(results'[i].cap) = ToolsOf(results[i].cap)
  BY <1>1 DEF Asked, Returned, RaisedStep, Only
<1>6. Judgeable' => VerdictsAreEarned'
  BY <1>1, <1>4, <1>5
     DEF Judgeable, Merits, VerdictsAreEarned, CleanIsCovered, NotApplicableWasRefused
<1>7. CheckTyped'
  BY <1>1, <1>4 DEF Merits, VerdictInvariant, CheckTyped, Capability
<1>8. ResultsTyped' /\ AnswersEarned' /\ DoubtfulAlone'
  BY <1>1 DEF VerdictInvariant, ResultsTyped, AnswersEarned, Earned, DoubtfulAlone
<1> QED BY <1>1, <1>6, <1>7, <1>8 DEF VerdictInvariant

\* Every step keeps the invariant.
LEMMA VerdictInvariantNext == VerdictInvariant /\ [VerdictNext]_verdictVars => VerdictInvariant'
<1> SUFFICES ASSUME VerdictInvariant, [VerdictNext]_verdictVars PROVE VerdictInvariant'
  OBVIOUS
<1>1. CASE \E t \in Tools : Preflight(t) \/ _execute_capability(t) \/ _skipped_subtool(t)
  BY <1>1, PreflightKeeps, ExecuteKeeps, SubtoolKeeps
<1>2. CASE UNCHANGED verdictVars
  <2>1. /\ UNCHANGED <<check, target, changes, passed, payload, results, looked, refused, verdict>>
    BY <1>2 DEF verdictVars
  <2>2. CheckTyped' /\ ResultsTyped' /\ AnswersEarned' /\ DoubtfulAlone' /\ (~Running' => check'.caps = <<>>)
    BY <2>1 DEF VerdictInvariant, CheckTyped, ResultsTyped, AnswersEarned, Earned, DoubtfulAlone,
                Capability, Running
  <2>3. Judgeable' = Judgeable /\ VerdictsAreEarned' = VerdictsAreEarned
    BY <2>1 DEF Judgeable, VerdictsAreEarned, CleanIsCovered, NotApplicableWasRefused, Asked, Returned,
                RaisedStep, Only
  <2> QED BY <2>2, <2>3 DEF VerdictInvariant
<1>3. CASE Judged
  BY <1>2, <1>3 DEF Judged
<1> QED BY <1>1, <1>2, <1>3, TargetChangesKeeps, NextCapabilityKeeps, ConcludeKeeps DEF VerdictNext

\* Every reachable state has its types, and whatever a tool answered was earned by a look or
\* a refusal, unless it fails (the servers of src/mcp-servers, execution_engine.py).
THEOREM VerdictsSound == VerdictSpec => [](VerdictTypeOK /\ AnswersEarned)
<1>1. VerdictInvariant => VerdictTypeOK /\ AnswersEarned
  <2> SUFFICES ASSUME VerdictInvariant PROVE VerdictTypeOK /\ AnswersEarned
    OBVIOUS
  <2>1. \A t \in DOMAIN payload : payload[t] \in Payload
    BY DEF VerdictInvariant, AnswersEarned, Earned, Fair
  <2> QED BY <2>1 DEF VerdictInvariant, CheckTyped, ResultsTyped, VerdictTypeOK, Answer
<1> QED BY <1>1, VerdictInvariantInit, VerdictInvariantNext, PTL DEF VerdictSpec

\* Of an assessment task, clean, credited and not-applicable verdicts are earned, for any
\* tasks, changes of the target and ends of the tools; of a plan of the user, all verdicts
\* but "clean", which the last step that ran well may give alone (ScanDescriptor).
THEOREM VerdictsEarned ==
  VerdictSpec => [](check.path = "assessment" \/ verdict.says # "clean" => VerdictsAreEarned)
<1>1. VerdictInvariant => (check.path = "assessment" \/ verdict.says # "clean" => VerdictsAreEarned)
  BY DEF VerdictInvariant, Judgeable
<1> QED BY <1>1, VerdictInvariantInit, VerdictInvariantNext, PTL DEF VerdictSpec

\* A row whose status and result are taken from the only step there is stays as it was.
LEMMA RowIsStep ==
  ASSUME NEW k, NEW c, NEW r, NEW b, b = [cap |-> k, status |-> c, of |-> r]
  PROVE  [b EXCEPT !.status = IF c = "skipped" THEN @ ELSE c,
                   !.of = IF c = "failed" THEN @ ELSE r] = b
<1> DEFINE status == IF c = "skipped" THEN b.status ELSE c
           of == IF c = "failed" THEN b.of ELSE r
<1>1. status = b.status /\ of = b.of
  OBVIOUS
<1> HIDE DEF status, of
<1>2. [b EXCEPT !.status = status, !.of = of] = b
  BY <1>1
<1> QED BY <1>2 DEF status, of

\* What remains of a scan of one step is that step (_extract_scan_results_from_execution).
LEMMA OneStepRow ==
  ASSUME DOMAIN results = {1}
  PROVE  _extract_scan_results_from_execution =
           [cap |-> results[1].cap, status |-> StepStatus(results[1]), of |-> results[1]]
<1> DEFINE base == [cap |-> results[1].cap, status |-> StepStatus(results[1]), of |-> results[1]]
           With(row, s) == [row EXCEPT !.status = IF StepStatus(s) = "skipped" THEN @ ELSE StepStatus(s),
                                       !.of = IF StepStatus(s) = "failed" THEN @ ELSE s]
           IsFold(f) == f = [s \in SUBSET DOMAIN results |->
                               IF s = {} THEN base ELSE With(f[s \ {Max(s)}], results[Max(s)])]
           fold == CHOOSE f : IsFold(f)
           whole == [s \in SUBSET {1} |-> IF s = {} THEN base ELSE With(base, results[1])]
<1>1. Max({1}) = 1
  BY DEF Max
<1>2. _extract_scan_results_from_execution = fold[DOMAIN results]
  BY DEF _extract_scan_results_from_execution, FoldLeft, MapThenFoldSet
<1>3. With(base, results[1]) = base
  <2> DEFINE k == results[1].cap
             c == StepStatus(results[1])
             r == results[1]
  <2>1. base = [cap |-> k, status |-> c, of |-> r]
    OBVIOUS
  <2>2. With(base, r) = [base EXCEPT !.status = IF c = "skipped" THEN @ ELSE c,
                                     !.of = IF c = "failed" THEN @ ELSE r]
    OBVIOUS
  <2> HIDE DEF base, With, k, c
  <2> QED BY <2>1, <2>2, RowIsStep
<1> HIDE DEF With, base
<1>4. IsFold(whole)
  <2>1. \A s \in SUBSET {1} : s # {} => s = {1}
    OBVIOUS
  <2>2. whole[{}] = base
    OBVIOUS
  <2>3. ASSUME NEW s \in SUBSET {1}, s # {}
        PROVE  whole[s \ {Max(s)}] = base /\ results[Max(s)] = results[1]
    <3>1. s = {1}
      BY <2>1, <2>3
    <3>2. s \ {Max(s)} = {}
      BY <1>1, <3>1
    <3> QED BY <1>1, <2>2, <3>1, <3>2
  <2> HIDE DEF whole
  <2>4. whole = [s \in SUBSET {1} |-> IF s = {} THEN base ELSE With(base, results[1])]
    BY DEF whole
  <2> QED BY <2>3, <2>4
<1> HIDE DEF whole
<1>5. IsFold(fold)
  BY <1>4
<1> HIDE DEF fold
<1>6. fold[{1}] = With(fold[{}], results[1]) /\ fold[{}] = base
  <2>1. {1} \ {Max({1})} = {}
    BY <1>1
  <2>2. {} \in SUBSET {1} /\ {1} \in SUBSET {1} /\ {1} # {}
    OBVIOUS
  <2> QED BY <1>1, <1>5, <2>1, <2>2
<1> QED BY <1>2, <1>3, <1>6 DEF base

\* A plan of one step has it still to run, or has run it.
OneStep == check.path = "interactive" => Len(results) + Len(check.caps) <= 1

\* A scan of one step that is complete was looked at by every tool it asked for.
LEMMA CompleteIsCovered ==
  ASSUME VerdictInvariant, OneStep, check.path = "interactive", check.caps = <<>>,
         _scan_asset_result_state(_extract_scan_results_from_execution) = "complete"
  PROVE  Asked \ Gullible \subseteq looked
<1> SUFFICES ASSUME NEW i \in DOMAIN results, NEW t \in ToolsOf(results[i].cap), t \notin Gullible
             PROVE  t \in looked
  BY DEF Asked
<1>1. /\ results \in Seq(CapResult) /\ DOMAIN results[i].of = ToolsOf(results[i].cap)
      /\ Earned(t, results[i].of[t])
  BY DEF VerdictInvariant, ResultsTyped, AnswersEarned
<1>2. DOMAIN results = {1} /\ i = 1
  <2>1. Len(results) \in Nat /\ DOMAIN results = 1 .. Len(results) /\ Len(results) <= 1
    BY <1>1 DEF OneStep
  <2> QED BY <2>1
<1> DEFINE s == results[1]
           row == [cap |-> s.cap, status |-> StepStatus(s), of |-> s]
           p == s.of[t]
<1>3. _scan_asset_result_state(row) = "complete"
  BY <1>2, OneStepRow
<1>4. row.status = StepStatus(s) /\ row.of = s
  OBVIOUS
<1>5. /\ Combined(s.cap) => Statuses(s) = {"success"}
      /\ ~Combined(s.cap) => Only(s).done # "no" /\ StepStatus(s) # "failed"
  <2> HIDE DEF row
  <2> QED BY <1>3, <1>4 DEF _scan_asset_result_state
<1>6. p.status # "raised" /\ p.done # "no"
  <2>1. CASE Combined(s.cap)
    <3>1. _tool_display_status(p) \in Statuses(s)
      BY <1>1, <1>2 DEF Statuses
    <3> QED BY <1>5, <2>1, <3>1 DEF _tool_display_status
  <2>2. CASE ~Combined(s.cap)
    <3>1. p = Only(s)
      BY <1>2, <2>2 DEF ToolsOf, Only
    <3> QED BY <1>5, <2>2, <3>1 DEF StepStatus, _tool_display_status
  <2> QED BY <2>1, <2>2
<1> QED BY <1>1, <1>2, <1>6 DEF Earned, Fair

\* A plan has one step more to run, or is one result further on.
LEMMA OneStepNext == VerdictInvariant /\ OneStep /\ [VerdictNext]_verdictVars => OneStep'
<1> SUFFICES ASSUME VerdictInvariant, OneStep, [VerdictNext]_verdictVars PROVE OneStep'
  OBVIOUS
<1>1. CASE UNCHANGED <<check, results>>
  BY <1>1 DEF OneStep
<1>2. CASE NextCapability
  <2>1. /\ check.caps # <<>> /\ check' = [check EXCEPT !.caps = Tail(check.caps)]
        /\ results' = Append(results, [cap |-> Capability, of |-> payload])
    BY <1>2 DEF NextCapability
  <2>2. check.caps \in Seq(Caps) /\ check \in [path : {"assessment", "interactive"}, caps : Seq(Caps)]
        /\ results \in Seq(CapResult)
    BY DEF VerdictInvariant, CheckTyped, ResultsTyped
  <2>3. check'.path = check.path /\ check'.caps = Tail(check.caps)
    BY <2>1, <2>2
  <2>4. Len(check'.caps) = Len(check.caps) - 1 /\ Len(check.caps) \in Nat
    BY <2>1, <2>2, <2>3
  <2>5. Len(results') = Len(results) + 1 /\ Len(results) \in Nat
    BY <2>1, <2>2
  <2>6. Len(results') + Len(check'.caps) = Len(results) + Len(check.caps)
    <3> DEFINE a == Len(results)
               b == Len(check.caps)
               c == Len(results')
               d == Len(check'.caps)
    <3>1. a \in Nat /\ b \in Nat /\ c = a + 1 /\ d = b - 1
      BY <2>4, <2>5
    <3> HIDE DEF a, b, c, d
    <3>2. c + d = a + b
      BY <3>1
    <3> QED BY <3>2 DEF a, b, c, d
  <2> QED BY <2>3, <2>6 DEF OneStep
<1> QED BY <1>1, <1>2 DEF VerdictNext, verdictVars, TargetChanges, Preflight, _execute_capability,
                          _skipped_subtool, Conclude, Judged

\* Once a verdict is given nothing changes any more; until then none is given.
LEMMA OnlyConcludes ==
  ASSUME VerdictInvariant, [VerdictNext]_verdictVars, ~Conclude
  PROVE  UNCHANGED verdictVars \/ (Running /\ Running')
<1>1. CASE ~Running
  <2>1. check.caps = <<>>
    BY <1>1 DEF VerdictInvariant
  <2> QED BY <1>1, <2>1 DEF VerdictNext, TargetChanges, Preflight, _execute_capability, _skipped_subtool,
                            Untried, NextCapability, Judged
<1>2. CASE Running
  <2>1. verdict' = verdict
    BY <1>2 DEF VerdictNext, TargetChanges, Preflight, _execute_capability, _skipped_subtool,
                NextCapability, Judged, verdictVars
  <2> QED BY <1>2, <2>1 DEF Running
<1> QED BY <1>1, <1>2

\* With one step there is no other verdict that "clean" could come from.
LEMMA OneStepEarned ==
  VerdictInvariant /\ OneStep /\ VerdictsAreEarned /\ [VerdictNext]_verdictVars => VerdictsAreEarned'
<1> SUFFICES ASSUME VerdictInvariant, OneStep, VerdictsAreEarned, [VerdictNext]_verdictVars
             PROVE  VerdictsAreEarned'
  OBVIOUS
<1>1. CASE Conclude /\ check.path = "interactive"
  <2>1. /\ check.caps = <<>> /\ verdict' = ScanDescriptor
        /\ UNCHANGED <<check, target, changes, passed, payload, results, looked, refused>>
    BY <1>1 DEF Conclude
  <2>2. /\ verdict'.credited = FALSE /\ verdict'.inapplicable = FALSE /\ verdict'.quiet = QuietTools
        /\ verdict'.report \in {"risk", "inconclusive"}
        /\ verdict'.says = "clean" =>
             _scan_asset_result_state(_extract_scan_results_from_execution) = "complete"
    BY <2>1 DEF ScanDescriptor
  <2>3. verdict'.says = "clean" => Asked \ Gullible \subseteq looked
    BY <1>1, <2>1, <2>2, CompleteIsCovered
  <2>4. Asked' = Asked /\ looked' = looked
    BY <2>1 DEF Asked
  <2> QED BY <2>2, <2>3, <2>4, QuietLooked DEF VerdictsAreEarned, CleanIsCovered, NotApplicableWasRefused
<1>2. CASE Conclude /\ check.path # "interactive"
  <2>1. VerdictInvariant' /\ check' = check
    BY <1>2, VerdictInvariantNext DEF Conclude
  <2>2. check.path = "assessment"
    BY <1>2 DEF VerdictInvariant, CheckTyped
  <2> QED BY <2>1, <2>2 DEF VerdictInvariant, Judgeable
<1>3. CASE ~Conclude
  <2>1. CASE UNCHANGED verdictVars
    <3>1. UNCHANGED <<results, looked, refused, verdict>>
      BY <2>1 DEF verdictVars
    <3> QED BY <3>1 DEF VerdictsAreEarned, CleanIsCovered, NotApplicableWasRefused, Asked, Returned,
                        RaisedStep, Only
  <2>2. CASE Running'
    <3>1. Running' => VerdictsAreEarned'
      BY UnreadEarned, PTL
    <3> QED BY <2>2, <3>1
  <2> QED BY <1>3, <2>1, <2>2, OnlyConcludes
<1> QED BY <1>1, <1>2, <1>3

\* A check is mistaken for a clean one only in a report: of an assessment task that nobody
\* else calls clean, no step of which failed or warned, and whose mistake is therefore a
\* combination that was skipped altogether.
OnlyInReports ==
  NotMistakenForClean
  \/ /\ check.path = "assessment" /\ verdict.says # "clean" /\ verdict.report = "clean"
     /\ \A i \in DOMAIN results : StepStatus(results[i]) \notin {"failed", "warning"}

\* A capability that returned and has no issue did not warn.
LEMMA NoIssueNoWarning ==
  ASSUME VerdictInvariant, NEW i \in DOMAIN results, ~RaisedStep(results[i]), ~_tool_issue(results[i])
  PROVE  StepStatus(results[i]) \notin {"failed", "warning"}
<1> DEFINE s == results[i]
           p == Only(s)
<1>1. CASE Combined(s.cap)
  BY <1>1 DEF StepStatus
<1>2. CASE ~Combined(s.cap)
  <2>1. s.cap \in DOMAIN s.of
    BY <1>2 DEF VerdictInvariant, ResultsTyped, ToolsOf
  <2>2. Earned(s.cap, p)
    BY <2>1 DEF VerdictInvariant, AnswersEarned, Only
  <2>3. p.status = "warning" => p.done = "no"
    BY <2>2 DEF Earned, Fair
  <2>4. p.status # "raised" /\ p.done # "no"
    BY <1>2 DEF RaisedStep, _tool_issue
  <2> QED BY <1>2, <2>3, <2>4 DEF StepStatus, _tool_display_status
<1> QED BY <1>1, <1>2

\* What execute_task concludes.
LEMMA TaskMistakes ==
  ASSUME VerdictInvariant, NEW i \in DOMAIN results
  PROVE  /\ ExecuteTask.says = "clean" =>
              /\ StepStatus(results[i]) \notin {"failed", "warning"}
              /\ Combined(results[i].cap) => ~AllSkipped(results[i])
         /\ ExecuteTask.report = "clean" => StepStatus(results[i]) \notin {"failed", "warning"}
<1>1. ExecuteTask.says = "clean" =>
        /\ ~RaisedStep(results[i]) /\ ~_tool_issue(results[i])
        /\ Combined(results[i].cap) => Statuses(results[i]) = {"success"}
  <2> SUFFICES ASSUME ExecuteTask.says = "clean"
               PROVE  /\ ~RaisedStep(results[i]) /\ ~_tool_issue(results[i])
                      /\ Combined(results[i].cap) => Statuses(results[i]) = {"success"}
    OBVIOUS
  <2>1. /\ ~SomeUnable
        /\ ~ \E k \in Returned : Combined(results[k].cap) /\ Statuses(results[k]) # {"success"}
    BY DEF ExecuteTask
  <2>2. ~_risk_items(results[i])
    BY <2>1 DEF SomeUnable
  <2>3. ~RaisedStep(results[i]) /\ ~_tool_issue(results[i])
    BY <2>2 DEF _risk_items
  <2>4. i \in Returned
    BY <2>3 DEF Returned
  <2> QED BY <2>1, <2>3, <2>4
<1>2. ExecuteTask.report = "clean" => ~RaisedStep(results[i]) /\ ~_tool_issue(results[i])
  BY DEF ExecuteTask, ReportOutcome
<1>3. {"success"} # {"skipped"}
  OBVIOUS
<1> QED BY <1>1, <1>2, <1>3, NoIssueNoWarning DEF AllSkipped

\* What the answer to the user concludes of one step.
LEMMA OneStepUnmistaken ==
  ASSUME VerdictInvariant, OneStep, check.path = "interactive", check.caps = <<>>,
         _scan_asset_result_state(_extract_scan_results_from_execution) = "complete",
         NEW i \in DOMAIN results
  PROVE  /\ StepStatus(results[i]) \notin {"failed", "warning"}
         /\ Combined(results[i].cap) => ~AllSkipped(results[i])
<1>1. results \in Seq(CapResult)
  BY DEF VerdictInvariant, ResultsTyped
<1>2. DOMAIN results = {1} /\ i = 1
  <2>1. Len(results) \in Nat /\ DOMAIN results = 1 .. Len(results) /\ Len(results) <= 1
    BY <1>1 DEF OneStep
  <2> QED BY <2>1
<1> DEFINE s == results[1]
           row == [cap |-> s.cap, status |-> StepStatus(s), of |-> s]
<1>3. _scan_asset_result_state(row) = "complete"
  BY <1>2, OneStepRow
<1>4. row.status = StepStatus(s) /\ row.of = s
  OBVIOUS
<1> HIDE DEF row
<1>5. /\ StepStatus(s) \notin {"failed", "warning"}
      /\ Combined(s.cap) => Statuses(s) = {"success"}
  BY <1>3, <1>4 DEF _scan_asset_result_state
<1>6. {"success"} # {"skipped"}
  OBVIOUS
<1> QED BY <1>2, <1>5, <1>6 DEF AllSkipped

\* No other step concludes anything.
LEMMA MistakesNext ==
  VerdictInvariant /\ OneStep /\ OnlyInReports /\ [VerdictNext]_verdictVars => OnlyInReports'
<1> SUFFICES ASSUME VerdictInvariant, OneStep, OnlyInReports, [VerdictNext]_verdictVars
             PROVE  OnlyInReports'
  OBVIOUS
<1>1. CASE Conclude
  <2>1. /\ check.caps = <<>>
        /\ verdict' = IF check.path = "assessment" THEN ExecuteTask ELSE ScanDescriptor
        /\ UNCHANGED <<check, target, changes, passed, payload, results, looked, refused>>
    BY <1>1 DEF Conclude
  <2>2. \A i \in DOMAIN results :
          /\ StepStatus(results'[i]) = StepStatus(results[i])
          /\ AllSkipped(results'[i]) = AllSkipped(results[i]) /\ results'[i] = results[i]
    BY <2>1
  <2>3. CASE check.path = "assessment"
    BY <2>1, <2>2, <2>3, TaskMistakes DEF OnlyInReports, NotMistakenForClean
  <2>4. CASE check.path = "interactive"
    <3>1. /\ verdict'.report # "clean"
          /\ verdict'.says = "clean" =>
               _scan_asset_result_state(_extract_scan_results_from_execution) = "complete"
      BY <2>1, <2>4 DEF ScanDescriptor
    <3>2. verdict'.says = "clean" =>
            \A i \in DOMAIN results : /\ StepStatus(results[i]) \notin {"failed", "warning"}
                                      /\ Combined(results[i].cap) => ~AllSkipped(results[i])
      BY <2>1, <2>4, <3>1, OneStepUnmistaken
    <3> QED BY <2>1, <2>2, <3>1, <3>2 DEF OnlyInReports, NotMistakenForClean
  <2> QED BY <2>3, <2>4 DEF VerdictInvariant, CheckTyped
<1>2. CASE ~Conclude
  <2>1. CASE UNCHANGED verdictVars
    <3>1. UNCHANGED <<check, results, verdict>>
      BY <2>1 DEF verdictVars
    <3> QED BY <3>1 DEF OnlyInReports, NotMistakenForClean, StepStatus, AllSkipped, Only, Statuses
  <2>2. CASE Running'
    BY <2>2 DEF Running, Unread, OnlyInReports, NotMistakenForClean
  <2> QED BY <1>2, <2>1, <2>2, OnlyConcludes
<1> QED BY <1>1, <1>2

\* It has all of it to run at first.
LEMMA OneStepInit ==
  ASSUME \A p \in Plans : Len(p) = 1
  PROVE  VerdictInit => OneStep
<1> SUFFICES ASSUME VerdictInit, check.path = "interactive" PROVE OneStep
  BY DEF OneStep
<1>1. results = <<>> /\ check.caps \in Plans
  BY DEF VerdictInit
<1>2. Len(results) = 0 /\ Len(check.caps) = 1
  BY <1>1
<1> QED BY <1>2 DEF OneStep

\* Of assessment tasks and plans of one step every verdict is earned, "clean" too: whatever
\* the target does meanwhile, and whichever way its tools end.  With two steps it is not so:
\* the second may run well and give its status to a scan whose first failed (ScanDescriptor).
THEOREM OneStepVerdictsEarned ==
  ASSUME \A p \in Plans : Len(p) = 1
  PROVE  VerdictSpec => []VerdictsAreEarned
<1>1. VerdictInit => VerdictsAreEarned
  BY UnreadEarned DEF VerdictInit, Running
<1> QED BY <1>1, OneStepInit, VerdictInvariantInit, VerdictInvariantNext, OneStepNext, OneStepEarned, PTL
        DEF VerdictSpec

\* Among these, a check that was not clean is called so by reports only: an assessment task
\* that execute_task does not call clean, none of whose steps failed or warned, but one of
\* which is a combination that was skipped altogether (report_service.py:175).
THEOREM OnlyReportsMistake ==
  ASSUME \A p \in Plans : Len(p) = 1
  PROVE  VerdictSpec => []OnlyInReports
<1>1. VerdictInit => OnlyInReports
  BY DEF VerdictInit, Unread, OnlyInReports, NotMistakenForClean
<1> QED BY <1>1, OneStepInit, VerdictInvariantInit, VerdictInvariantNext, OneStepNext, MistakesNext, PTL
        DEF VerdictSpec

-----------------------------------------------------------------------------
(* Phases, verdicts, reports and materials in one run (MCRequests).          *)

\* A set of versions that is not empty has a Max.
LEMMA GreatestVersion ==
  ASSUME NEW n \in Nat, NEW S \in SUBSET (0 .. n), S # {}
  PROVE  Max(S) \in S
<1> DEFINE T == {n - y : y \in S}
<1>1. T \subseteq Nat /\ T # {}
  <2>1. PICK y \in S : TRUE
    OBVIOUS
  <2>2. n - y \in T
    OBVIOUS
  <2> QED BY <2>2
<1>2. PICK z \in T : \A y \in T : ~ (<<y, z>> \in OpToRel(<, Nat))
  BY <1>1, NatLessThanWellFounded, WFMin, Zenon
<1>3. \A y \in T : ~ (y < z)
  BY <1>1, <1>2 DEF OpToRel
<1>4. PICK x \in S : z = n - x
  BY <1>2
<1>5. \A y \in S : x >= y
  <2> TAKE y \in S
  <2>1. n - y \in T
    OBVIOUS
  <2>2. ~ (n - y < z) /\ x \in Int /\ y \in Int
    BY <1>3, <2>1
  <2> QED BY <1>4, <2>2
<1> QED BY <1>5 DEF Max

\* The counter of the versions is the number of one, or none.
CounterTyped == counter \in 0 .. MaxVersions

\* Only what is published and what is deleted moves it.
LEMMA CounterNext ==
  RepInvariant /\ CounterTyped /\ [RepNext]_repVars => CounterTyped'
<1> SUFFICES ASSUME RepInvariant, counter \in 0 .. MaxVersions, [RepNext]_repVars, counter' # counter
             PROVE  counter' \in 0 .. MaxVersions
  BY DEF CounterTyped
<1>1. MaxVersions \in Nat /\ Versions = 1 .. MaxVersions
  BY DEF Versions
<1>2. ~Worked
  BY DEF Worked, StartCheck, BeginCheck, EndCheck, CreateDocumentRun, EndDocumentRun, Promote, CreateRun,
     BeginRun, DocumentEnds, StopRun, ResumeRun, ReopenFinding, EndRun
<1>3. \/ \E g \in Generators : Publish(g)
      \/ \E vs \in SUBSET Versions : DeleteVersions(vs)
  BY <1>2 DEF RepNext, repVars, Requested, CheckReady, StartReport, TakeVersion, Draw, GenerationFails,
              GenerationDies, StopReport, Finalize
<1>4. ASSUME NEW g \in Generators, Publish(g) PROVE counter' \in 0 .. MaxVersions
  <2>1. IsGenerating(gen[g]) /\ counter' = gen[g].version
    BY <1>4 DEF Publish, IsGenerating
  <2>2. gen[g].version \in Versions
    BY <2>1 DEF RepInvariant, Sound, GensSound
  <2> QED BY <1>1, <2>1, <2>2
<1>5. ASSUME NEW vs \in SUBSET Versions, DeleteVersions(vs) PROVE counter' \in 0 .. MaxVersions
  <2>1. counter' = Max(vs \cup {counter})
    BY <1>5 DEF DeleteVersions
  <2>2. vs \cup {counter} \in SUBSET (0 .. MaxVersions) /\ vs \cup {counter} # {}
    BY <1>1
  <2> QED BY <1>1, <2>1, <2>2, GreatestVersion
<1> QED BY <1>3, <1>4, <1>5

\* The invariant and the counter give the types of Reports.
LEMMA ReportsTyped == RepInvariant /\ CounterTyped => RepTypeOK
BY DEF RepInvariant, Typed, VersionRow, GenRow, FlowRow, VersionStatuses, CounterTyped, RepTypeOK

\* The run starts each part as its own specification does, and each of its steps is one of
\* the part it follows.
LEMMA RunIsOfRequests == AllSpec => Spec /\ VerdictSpec /\ RepSpec /\ MatSpec
<1>1. AllInit => Init /\ VerdictInit /\ RepInit /\ MatInit
  BY DEF AllInit
<1>2. [AllNext]_allVars =>
        [Next]_vars /\ [VerdictNext]_verdictVars /\ [RepNext]_repVars /\ [MatNext]_matVars
  BY DEF AllNext, allVars
<1> QED BY <1>1, <1>2, PTL DEF AllSpec, Spec, VerdictSpec, RepSpec, MatSpec

\* Whichever part the run follows, every row is one that the tables can hold.
THEOREM RequestsTypeCorrect == AllSpec => []RolesTypeOK
<1>1. RepInit => CounterTyped
  BY DEF RepInit, CounterTyped
<1>2. RepSpec => []RepTypeOK
  BY <1>1, InitInvariant, NextKeeps, CounterNext, ReportsTyped, PTL DEF RepSpec
<1>3. MatInvariant => MatTypeOK
  BY DEF MatInvariant, Known, AskTyped
<1>4. MatSpec => []MatTypeOK
  BY <1>3, MatInvariantInit, MatInvariantNext, PTL DEF MatSpec
<1>5. TypeOK /\ (VerdictTypeOK /\ AnswersEarned) /\ RepTypeOK /\ MatTypeOK => RolesTypeOK
  BY DEF RolesTypeOK
<1> QED BY <1>2, <1>4, <1>5, RunIsOfRequests, TypeCorrect, VerdictsSound, PTL

\* What is proved of each part holds of the run of all.
THEOREM RequestsKeepTheirPromises ==
  ASSUME \A p \in Plans : Len(p) = 1
  PROVE  AllSpec => /\ [](VerdictsAreEarned /\ ReportStands /\ RowsHaveFiles /\ TaskStatusStands)
                    /\ MigrationRestoresOrder
BY RunIsOfRequests, OneStepVerdictsEarned, ReportsStand, RowsKeepFiles, StatusStands, MigrationOrders, PTL
===============================================================================
