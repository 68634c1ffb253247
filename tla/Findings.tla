------------------------------ MODULE Findings -------------------------------
(***************************************************************************)
(* The findings of one target, from the verdict of a tool to the row a     *)
(* user sees.  Tasks of an assessment (task_executor.py), scans of the     *)
(* assistant and the scheduler (independent_finding_tracker.py) and the    *)
(* retests of verification_queue.py execute tools that take minutes, then  *)
(* read the rows that have their fingerprint and write them, each in one   *)
(* transaction of its own; users promote, reopen and reset findings.       *)
(***************************************************************************)
EXTENDS Integers, Sequences

CONSTANTS
  Top,          \* a capability: one tool, or a combination of the tools in Subs
  Subs,
  Tasked,       \* capabilities that a task executes (TASK_CAPABILITY_MAP)
  Retestable,   \* capabilities that a retest executes (CAPABILITY_TASK_TYPES)
  Executions,   \* executions alive at once
  MaxBegins     \* executions in all (a bound)

ASSUME FindingAssumption ==
  /\ Top \notin Subs /\ Tasked \subseteq Subs \cup {Top} /\ Retestable \subseteq Tasked
  /\ MaxBegins \in Nat /\ "nobody" \notin Executions

\* The tools; the capabilities; the tools a capability executes.
Tools == IF Subs = {} THEN {Top} ELSE Subs
Capabilities == Tools \cup {Top}
Parts(c) == IF c = Top THEN Tools ELSE {c}

\* The fingerprints: a risk a tool reports, a capability that was not executed.
Prints == (Tools \X {"risk"}) \cup (Capabilities \X {"unable"})
Scopes == {"assessment", "independent"}
ExecutionKinds == {"scan", "independent", "retest"}
ScopeOf(kind) == IF kind = "independent" THEN "independent" ELSE "assessment"

\* The verdict of a tool: what _tool_display_status and the sub-results say.
Verdict == [status : {"success", "warning", "skipped", "failed"}, risk : BOOLEAN]

\* A row is a fingerprint and the number of its copy.
Rows == Prints \X (Nat \ {0})
\* wide: the execution looks wherever the risk may be (the port range, say).
Execution == [stage : {"idle", "executing", "measured", "synced", "verdict"},
              kind : ExecutionKinds, cap : Capabilities, wide : BOOLEAN, verdicts : [Tools -> Verdict],
              inserts : SUBSET Prints, opens : SUBSET Rows, fixes : SUBSET Rows, raised : BOOLEAN,
              items : SUBSET Rows]

VARIABLES
  present,    \* [Tools -> BOOLEAN], the truth: the target has the risk
  found,      \* [Scopes -> [Prints -> Seq({"open", "fixed"})]], the rows, by fingerprint
  promoted,   \* the independent rows that an assessment has taken over
  exec,       \* [Executions -> Execution]
  begins,     \* 0 .. MaxBegins
  absent,     \* [Executions -> SUBSET Tools], history: risks absent when it looked
  disturbed   \* [Executions -> BOOLEAN], history: others wrote rows since it read them

findVars == <<present, found, promoted, exec, begins, absent, disturbed>>

NoExecution == [stage |-> "idle", kind |-> "scan", cap |-> Top, wide |-> FALSE,
                verdicts |-> [u \in Tools |-> [status |-> "skipped", risk |-> FALSE]],
                inserts |-> {}, opens |-> {}, fixes |-> {}, raised |-> FALSE, items |-> {}]

FindInit ==
  /\ present \in [Tools -> BOOLEAN]
  /\ found = [scope \in Scopes |-> [p \in Prints |-> <<>>]]
  /\ promoted = {}
  /\ exec = [x \in Executions |-> NoExecution]
  /\ begins = 0
  /\ absent = [x \in Executions |-> {}]
  /\ disturbed = [x \in Executions |-> FALSE]

Copies(scope, p) == {<<p, i>> : i \in DOMAIN found[scope][p]}
StatusOf(scope, row) == found[scope][row[1]][row[2]]
CopiesWith(scope, p, status) == {row \in Copies(scope, p) : StatusOf(scope, row) = status}
InStage(x, stage) == exec[x].stage = stage
\* Somebody writes rows: whoever has read and not yet committed decided on old ones.
Disturbs(x) == disturbed' = [y \in Executions |-> y # x /\ (disturbed[y] \/ InStage(y, "synced"))]

-----------------------------------------------------------------------------
(* From the verdicts of the tools to findings.                              *)

\* _tool_display_status and _run_subtool: an exception is a failure, a refused
\* connection is skipped, and what was not scanned to the end is a warning that may
\* report the risk or not.
Sees(x, u) == present[u] /\ exec[x].wide
VerdictsOf(x, u) ==
  {[status |-> "success", risk |-> Sees(x, u)], [status |-> "warning", risk |-> FALSE],
   [status |-> "warning", risk |-> Sees(x, u)],
   [status |-> "skipped", risk |-> FALSE], [status |-> "failed", risk |-> FALSE]}

\* _tool_issue: sub-results that were all skipped are no issue; a single tool's error is.
Statuses(e) == {e.verdicts[u].status : u \in Parts(e.cap)}
HasIssue(e) == Statuses(e) # {"success"} /\ (e.cap \in Tools \/ Statuses(e) # {"skipped"})

\* _risk_items: the risks, and the capabilities that were not executed.
Risks(e) == {<<u, "risk">> : u \in {v \in Parts(e.cap) : e.verdicts[v].risk}}
NotExecuted(e) == {v \in Parts(e.cap) : e.verdicts[v].status \in {"warning", "failed"}}
Unable(e) ==
  {<<u, "unable">> : u \in NotExecuted(e) \cup (IF HasIssue(e) THEN {e.cap} ELSE {})}

\* The findings an execution reports: sync_independent_findings takes risks only.
Items(e) == Risks(e) \cup (IF e.kind = "independent" THEN {} ELSE Unable(e))

\* _reliable_execution, for every unit of an execution.
MutantReliable(e) == {u \in Parts(e.cap) : e.verdicts[u].status # "failed"}
Reliable(e) == {u \in Parts(e.cap) : e.verdicts[u].status = "success"}

\* A reliable tool closes the risks it does not report (sync_independent_findings); an
\* assessment that reports nothing as not tested closes the finding that its capability
\* was not executed (_sync_findings).
Recovers(e) == Unable(e) = {}
Fixes(e) ==
  IF e.kind = "independent"
  THEN UNION {CopiesWith("independent", <<u, "risk">>, "open") : u \in {v \in Reliable(e) : ~e.verdicts[v].risk}}
  ELSE IF Recovers(e) THEN CopiesWith("assessment", <<e.cap, "unable">>, "open") ELSE {}

\* scalar_one_or_none raises when two rows have the fingerprint that is looked up.
MoreThanOne(rows) == \E r1, r2 \in rows : r1 # r2
Raises(e) ==
  \/ \E p \in Items(e) : MoreThanOne(Copies(ScopeOf(e.kind), p))
  \/ e.kind # "independent" /\ MoreThanOne(Fixes(e))

-----------------------------------------------------------------------------
(* Executions.                                                              *)

SetExec(x, e) == exec' = [exec EXCEPT ![x] = e]
EndExec(x) == SetExec(x, NoExecution) /\ absent' = [absent EXCEPT ![x] = {}]

\* A retest takes the open findings of a capability that no other retest is busy with.
RetestItems(c) ==
  (UNION {CopiesWith("assessment", p, "open") : p \in {q \in Prints : q[1] = c}})
  \ UNION {exec[y].items : y \in Executions}

BeginExecution(x, kind, c) ==
  /\ InStage(x, "idle") /\ begins < MaxBegins
  /\ kind = "scan" => c \in Tasked
  /\ kind = "retest" => c \in Retestable /\ RetestItems(c) # {}
  /\ \E wide \in BOOLEAN :
       SetExec(x, [NoExecution EXCEPT
                     !.stage = "executing", !.kind = kind, !.cap = c, !.wide = wide,
                     !.items = IF kind = "retest" THEN RetestItems(c) ELSE {}])
  /\ begins' = begins + 1
  /\ UNCHANGED <<present, found, promoted, absent, disturbed>>

\* The tools look and end; a paused or restarted scan keeps its verdicts for as long as
\* it takes.
Measure(x) ==
  /\ InStage(x, "executing")
  /\ \E v \in [Parts(exec[x].cap) -> Verdict] :
       /\ \A u \in Parts(exec[x].cap) : v[u] \in VerdictsOf(x, u)
       /\ SetExec(x, [exec[x] EXCEPT
            !.stage = "measured",
            !.verdicts = [u \in Tools |-> IF u \in Parts(exec[x].cap) THEN v[u] ELSE @[u]]])
  /\ absent' = [absent EXCEPT ![x] = {u \in Tools : ~present[u]}]
  /\ UNCHANGED <<present, found, promoted, begins, disturbed>>

\* The rows are read, changed in the session and sent; others see them at the commit.
\* An exception leaves what was changed before it in the session, or rolls it back.
MutantToOpen(e) == {}
ToOpen(e) == UNION {CopiesWith(ScopeOf(e.kind), p, "fixed") : p \in Items(e)}
ToInsert(e) == {p \in Items(e) : found[ScopeOf(e.kind)][p] = <<>>}
Sync(x) ==
  LET e == exec[x]
  IN  /\ InStage(x, "measured")
      /\ \/ /\ ~Raises(e)
            /\ SetExec(x, [e EXCEPT !.stage = "synced",
                             !.inserts = ToInsert(e), !.opens = ToOpen(e), !.fixes = Fixes(e)])
         \/ /\ Raises(e)
            /\ \E inserts \in SUBSET ToInsert(e), opens \in SUBSET ToOpen(e) :
                 SetExec(x, [e EXCEPT !.stage = "synced", !.raised = TRUE,
                                      !.inserts = inserts, !.opens = opens])
      /\ disturbed' = [disturbed EXCEPT ![x] = FALSE]
      /\ UNCHANGED <<present, found, promoted, begins, absent>>

Written(rows, e, p) ==
  [i \in DOMAIN rows |-> IF <<p, i>> \in e.fixes THEN "fixed"
                         ELSE IF <<p, i>> \in e.opens THEN "open" ELSE rows[i]]
  \o (IF p \in e.inserts THEN <<"open">> ELSE <<>>)

CommitExecution(x) ==
  LET e == exec[x]
      scope == ScopeOf(e.kind)
  IN  /\ InStage(x, "synced")
      /\ found' = [found EXCEPT ![scope] = [p \in Prints |-> Written(@[p], e, p)]]
      /\ IF e.kind = "retest"
         THEN /\ SetExec(x, [e EXCEPT !.stage = "verdict", !.inserts = {}, !.opens = {}, !.fixes = {}])
              /\ UNCHANGED absent
         ELSE EndExec(x)
      /\ Disturbs(x)
      /\ UNCHANGED <<present, promoted, begins>>

\* _process_technical_group: the items of a complete execution whose fingerprint it
\* does not report are fixed, all others are open.
Completed(e) == ~e.raised /\ ~HasIssue(e)
ToClose(e) == {row \in e.items : Completed(e) /\ row[1] \notin Risks(e)}
GiveVerdict(x) ==
  LET e == exec[x]
  IN  /\ InStage(x, "verdict")
      /\ found' = [found EXCEPT !["assessment"] =
                     [p \in Prints |-> [i \in DOMAIN @[p] |->
                        IF <<p, i>> \in ToClose(e) THEN "fixed"
                        ELSE IF <<p, i>> \in e.items THEN "open" ELSE @[p][i]]]]
      /\ EndExec(x)
      /\ Disturbs(x)
      /\ UNCHANGED <<present, promoted, begins>>

\* Cancelled, or its process dies: what is not committed is lost; the items of a retest
\* that somebody cancels get an outcome, and are open.
ExecutionStops(x) ==
  /\ ~InStage(x, "idle")
  /\ \/ EndExec(x)
     \/ /\ exec[x].kind = "retest" /\ InStage(x, "executing")
        /\ SetExec(x, [exec[x] EXCEPT !.stage = "verdict", !.raised = TRUE])
        /\ UNCHANGED absent
  /\ UNCHANGED <<present, found, promoted, begins, disturbed>>

-----------------------------------------------------------------------------
(* The target and the users.                                                *)

TargetChanges(u) ==
  /\ present' = [present EXCEPT ![u] = ~@]
  /\ UNCHANGED <<found, promoted, exec, begins, absent, disturbed>>

\* promote_independent_issue: one import per origin, open, whatever the assessment has.
Promote(row) ==
  /\ row \notin promoted
  /\ promoted' = promoted \cup {row}
  /\ found' = [found EXCEPT !["assessment"][row[1]] = Append(@, "open")]
  /\ Disturbs("nobody")
  /\ UNCHANGED <<present, exec, begins, absent>>

ReopenFinding(scope, row) ==
  /\ StatusOf(scope, row) = "fixed"
  /\ found' = [found EXCEPT ![scope][row[1]][row[2]] = "open"]
  /\ Disturbs("nobody")
  /\ UNCHANGED <<present, promoted, exec, begins, absent>>

\* reset_verification_data
ResetFindings ==
  /\ \E p \in Prints : CopiesWith("assessment", p, "fixed") # {}
  /\ found' = [found EXCEPT !["assessment"] = [p \in Prints |-> [i \in DOMAIN @[p] |-> "open"]]]
  /\ Disturbs("nobody")
  /\ UNCHANGED <<present, promoted, exec, begins, absent>>

-----------------------------------------------------------------------------
FindRequest ==
  \/ \E p \in Prints : \E row \in Copies("independent", p) : Promote(row)
  \/ \E scope \in Scopes, p \in Prints : \E row \in Copies(scope, p) : ReopenFinding(scope, row)
  \/ ResetFindings
FindNext ==
  \/ FindRequest
  \/ \E u \in Tools : TargetChanges(u)
  \/ \E x \in Executions :
       \/ \E kind \in ExecutionKinds, c \in Capabilities : BeginExecution(x, kind, c)
       \/ Measure(x) \/ Sync(x) \/ CommitExecution(x) \/ GiveVerdict(x) \/ ExecutionStops(x)

FindSpec == FindInit /\ [][FindNext]_findVars

-----------------------------------------------------------------------------
\* Every variable has its type.
FindTypeOK ==
  /\ present \in [Tools -> BOOLEAN]
  /\ found \in [Scopes -> [Prints -> Seq({"open", "fixed"})]]
  /\ promoted \subseteq Rows
  /\ exec \in [Executions -> Execution]
  /\ begins \in 0 .. MaxBegins
  /\ absent \in [Executions -> SUBSET Tools]
  /\ disturbed \in [Executions -> BOOLEAN]

\* "Upsert real risks and close them only after a reliable clean rerun" (sync_independent_
\* findings): whoever closes a risk has executed its tool, and the risk was absent when the
\* tool looked, unless the tool did not look everywhere; whoever closes a finding about a
\* capability that was not executed has executed it, or found it not applicable.
Justifies(x, p) ==
  LET e == exec[x]
  IN  /\ e.stage \in {"synced", "verdict"} /\ exec'[x].stage # e.stage
      /\ IF p[2] = "risk"
         THEN p[1] \in Parts(e.cap) /\ (p[1] \in absent[x] \/ ~e.wide)
         ELSE p[1] = e.cap /\ Statuses(e) \subseteq {"success", "skipped"}
ClosesOnEvidence ==
  \A scope \in Scopes, p \in Prints : \A row \in CopiesWith(scope, p, "open") :
    found'[scope][p][row[2]] = "fixed" => \E x \in Executions : Justifies(x, p)
ClosedOnEvidence == [][ClosesOnEvidence]_findVars

\* What was not done is not to be taken as passed (_risk_items): when an execution that
\* raised nothing commits undisturbed, every risk it saw and every tool of an assessment
\* that did not do its work has an open finding.
SeenPrints(e) ==
  {<<u, "risk">> : u \in {v \in Parts(e.cap) : e.verdicts[v].risk}}
  \cup {<<u, "unable">> : u \in {v \in Parts(e.cap) :
                                   e.kind # "independent" /\ e.verdicts[v].status \in {"warning", "failed"}}}
ReportsAll ==
  \A x \in Executions :
    InStage(x, "synced") /\ exec'[x].stage # "synced" /\ found' # found /\ ~disturbed[x] /\ ~exec[x].raised
    => \A p \in SeenPrints(exec[x]) :
         \E i \in DOMAIN found'[ScopeOf(exec[x].kind)][p] : found'[ScopeOf(exec[x].kind)][p][i] = "open"
SeenIsReported == [][ReportsAll]_findVars
=============================================================================
