----------------------------- MODULE ToolVerdicts -----------------------------
(***************************************************************************)
(* What a tool's answer is worth.  A check runs a sequence of capabilities *)
(* against one target; a capability is a tool or a combination of tools    *)
(* that run side by side.  A tool server turns the way a process ended     *)
(* into an answer (mcp-servers/*/server.py), the engine wraps the answer   *)
(* into a payload (services/execution_engine.py), and three readers judge  *)
(* it: the task executor and the score of an assessment                    *)
(* (services/task_executor.py, services/flow_engine.py) and the results of *)
(* a scan (orchestrator/orchestrator.py, _scan_task_descriptor).           *)
(*                                                                         *)
(* The target may change while a check runs.  What a process does is       *)
(* external: it looks at the target or not, and may show a weakness.       *)
(***************************************************************************)
EXTENDS Naturals, Sequences, SequencesExt

CONSTANTS
  TaskTypes,     \* the assessment tasks that are run, of AssessmentTasks
  Plans,         \* the interactive plans that are run, sequences of capabilities
  TechTools,     \* the tools of tech_assessment that are followed (a bound)
  MaxChanges     \* how often the target changes in a check (a bound)

\* services/task_executor.py, TASK_CAPABILITY_MAP; types with the same capabilities once.
AssessmentTasks ==
  [asset_discovery |-> <<"masscan_scan", "fping_scan", "scan_ports">>,
   high_risk_port_scan |-> <<"scan_ports">>,
   basic_vulnerability_scan |-> <<"scan_vulnerabilities">>,
   basic_baseline_check |-> <<"baseline_check">>,
   basic_weak_password_scan |-> <<"scan_weak_passwords">>,
   basic_ssl_tls_scan |-> <<"scan_ssl">>,
   crypto_network_communication_assessment |-> <<"crypto_onsite_assessment">>,
   vuln_scan |-> <<"scan_vulnerabilities", "nikto_scan">>,
   web_scan |-> <<"nikto_scan", "sqlmap_scan", "web_discovery_scan">>,
   db_check |-> <<"database_security_scan">>,
   network_check |-> <<"network_device_scan">>,
   windows_check |-> <<"windows_security_scan">>,
   full_asset_assessment |-> <<"scan_ports", "scan_ssl", "scan_vulnerabilities", "scan_weak_passwords">>]

DatabaseSecurity == {"redis_check", "mysql_check", "mongodb_check", "memcached_check", "oracle_check"}
WebDiscovery == {"gobuster_scan", "ffuf_scan"}
NetworkDevice == {"snmp_walk", "snmp_bruteforce"}
WindowsSecurity == {"enum4linux_scan", "crackmapexec_scan", "smb_enum"}
FullCompliance == {"scan_ports", "scan_ssl", "scan_vulnerabilities", "scan_weak_passwords"}
CryptoOnsite == {"scan_ports", "crypto_transport_scan"}
TechAssessment ==
  {"scan_ports", "scan_vulnerabilities", "nikto_scan", "scan_ssl", "redis_check",
   "mysql_check", "mongodb_check", "snmp_walk", "baseline_check", "scan_weak_passwords"}

Combinations ==
  [database_security_scan |-> DatabaseSecurity, web_discovery_scan |-> WebDiscovery,
   network_device_scan |-> NetworkDevice, windows_security_scan |-> WindowsSecurity,
   full_compliance_scan |-> FullCompliance, crypto_onsite_assessment |-> CryptoOnsite,
   tech_assessment |-> TechTools]
Combined(c) == c \in DOMAIN Combinations
ToolsOf(c) == IF Combined(c) THEN Combinations[c] ELSE {c}
Snmp == NetworkDevice \cup {"snmp_get"}
PortScanners == {"scan_ports", "masscan_scan"}
Tools == (UNION {Combinations[c] : c \in DOMAIN Combinations})
           \cup TechAssessment \cup {"masscan_scan", "fping_scan", "sqlmap_scan", "snmp_get"}

ASSUME VerdictAssumption ==
  /\ TaskTypes \subseteq DOMAIN AssessmentTasks
  /\ Plans \subseteq Seq(Tools \cup DOMAIN Combinations) /\ <<>> \notin Plans
  /\ TechTools # {} /\ TechTools \subseteq TechAssessment
  /\ MaxChanges \in Nat

VARIABLES
  check,     \* [path, caps]: who asks, and what is left to run
  target,    \* how the target answers on the ports of the check
  changes,   \* 0 .. MaxChanges
  passed,    \* tools of the current capability whose preflight found an open port
  payload,   \* what the tools of the current capability returned
  results,   \* the finished capabilities with their payloads, in order
  looked,    \* tools that have looked at the target (history)
  refused,   \* tools whose target refused the connection when they tried (history)
  verdict    \* what the reader of the results is told

verdictVars == <<check, target, changes, passed, payload, results, looked, refused, verdict>>

TargetStates == {"open", "closed", "filtered"}
\* error: the payload has a tool_error; marked: its text says that the connection was
\* refused.  done: scan_completed and reachable.  sure: a port scan confirmed the host.
\* skip: skipped is set.  inapplicable: the outcome is not_applicable.
Payload == [status : {"success", "warning", "skipped", "failed", "raised"},
            done : {"yes", "no", "unsaid"}, error : BOOLEAN, marked : BOOLEAN,
            risk : BOOLEAN, sure : BOOLEAN, skip : BOOLEAN, inapplicable : BOOLEAN]
Verdicts == {"none", "failed", "issues", "incomplete", "clean"}
Reports == {"none", "unable", "skipped", "risk", "observed", "clean", "inconclusive"}
Unread == [says |-> "none", credited |-> FALSE, inapplicable |-> FALSE, report |-> "none",
           quiet |-> {}]
Running == verdict = Unread

-----------------------------------------------------------------------------
(* The tool servers.  r is the way the process ended: it looked at the      *)
(* target and saw a weakness, or it did not; odd is a case of one tool.     *)

Process == [end : {"zero", "nonzero", "odd", "timeout", "raised"}, looked : BOOLEAN, weak : BOOLEAN]
\* A tool that ends well has looked, but for a port scanner no answer is an answer.
\* odd: hydra ends with 255; the commands of a baseline all time out.
ProcessRuns(t) ==
  {r \in Process :
     /\ r.looked => r.end = "zero" \/ r.weak
     /\ r.weak => r.looked /\ r.end \in {"zero", "nonzero"} /\ target = "open"
     /\ r.end = "zero" /\ t \notin PortScanners => r.looked
     /\ r.looked => \/ target = "open"
                    \/ t = "fping_scan"
                    \/ t \in PortScanners /\ target = "closed"
     /\ r.end = "odd" => t \in {"scan_weak_passwords", "baseline_check"}}

Plain == [status |-> "success", done |-> "unsaid", error |-> FALSE, marked |-> FALSE,
          risk |-> FALSE, sure |-> FALSE, skip |-> FALSE, inapplicable |-> FALSE]
Raised == [Plain EXCEPT !.status = "raised"]
Done(ok, weak) ==
  [Plain EXCEPT !.done = IF ok THEN "yes" ELSE "no", !.error = ~ok,
                !.marked = ~ok /\ target = "closed", !.risk = weak]
TimedOut == [Plain EXCEPT !.done = "no", !.error = TRUE]
\* A database server that does not answer in time, or is not there.
no_response_result(text) == [TimedOut EXCEPT !.marked = text]

\* The exit code is not read; known ports are tried by TCP as well.
nmap_scan(r) ==
  IF r.end \in {"timeout", "raised"} THEN Raised
  ELSE [Plain EXCEPT !.risk = r.weak, !.sure = r.looked \/ target = "open"]
masscan_scan(r) ==
  IF r.end = "raised" THEN Raised
  ELSE IF r.end = "timeout" THEN TimedOut
  ELSE [Done(r.end = "zero", r.weak) EXCEPT !.marked = FALSE, !.sure = r.looked /\ target = "open"]
fping_scan(r) == IF r.end \in {"timeout", "raised"} THEN Raised ELSE Done(r.end = "zero", FALSE)
testssl_scan(r) ==
  IF r.end = "raised" THEN Raised
  ELSE IF r.end = "timeout" THEN TimedOut
  ELSE [Done(r.looked, r.weak) EXCEPT !.marked = FALSE]
\* The findings of an incomplete handshake are dropped.
crypto_transport_scan(r) ==
  LET base == testssl_scan(r) IN
  IF base.status = "raised" \/ base.done = "yes" THEN base
  ELSE [TimedOut EXCEPT !.status = "warning"]
\* Its own preflight; the engine lets an answer with status failed pass.
nuclei_scan(r) ==
  IF target # "open" THEN [TimedOut EXCEPT !.status = "warning"]
  ELSE IF r.end = "raised" THEN Raised
  ELSE IF r.end = "timeout" THEN [TimedOut EXCEPT !.status = "failed"]
  ELSE [Done(r.end = "zero", r.weak) EXCEPT !.status = IF r.end = "zero" THEN "success" ELSE "warning"]
\* 255 is no failure unless the output names one; a time-out is raised.
hydra_bruteforce(r) ==
  IF r.end \in {"timeout", "raised"} THEN Raised ELSE Done(r.end \in {"zero", "odd"}, r.weak)
\* A tool that failed after it found something has completed, with its error.
completed_or_error(r) == [Done(r.end = "zero" \/ r.weak, r.weak) EXCEPT !.error = r.end # "zero"]
WebTool(r) ==
  IF r.end = "raised" THEN Raised
  ELSE IF r.end = "timeout" THEN [TimedOut EXCEPT !.status = "warning"]
  ELSE completed_or_error(r)
nikto_scan(r) == WebTool(r)
\* An injection counts when its parameter was found in the output, too.
sqlmap_scan(r) == WebTool(r)
\* Paths are no risks.
gobuster_scan(r) == [WebTool(r) EXCEPT !.risk = FALSE]
ffuf_scan(r) == [WebTool(r) EXCEPT !.risk = FALSE]
snmp_walk(r) ==
  IF r.end \in {"timeout", "raised"} THEN Raised
  ELSE IF r.looked THEN Done(TRUE, FALSE) ELSE [TimedOut EXCEPT !.status = "failed"]
snmp_get(r) == snmp_walk(r)
\* Silence is no proof that there is no community of the list.
snmp_bruteforce(r) ==
  IF r.end \in {"timeout", "raised"} THEN Raised
  ELSE IF r.weak THEN Done(TRUE, TRUE) ELSE [TimedOut EXCEPT !.status = "failed"]
\* Something was listed, or the exit code and the text are those of a connection.
command_state(r) == Done(r.weak \/ r.end = "zero", FALSE)
WindowsTool(r) == IF r.end \in {"timeout", "raised"} THEN Raised ELSE command_state(r)
enum4linux_scan(r) == WindowsTool(r)
crackmapexec_scan(r) == WindowsTool(r)
smb_enum(r) == WindowsTool(r)

DatabaseTool(r) ==
  IF r.end = "raised" THEN Raised
  ELSE IF r.end = "timeout" THEN no_response_result(FALSE)
  ELSE Done(r.end = "zero", r.weak)
redis_check(r) == DatabaseTool(r)
oracle_check(r) == [DatabaseTool(r) EXCEPT !.risk = FALSE]
\* No connection, for any reason, is said to be a refused one.
mongodb_check(r) == IF target # "open" THEN no_response_result(TRUE) ELSE DatabaseTool(r)
memcached_check(r) == IF target # "open" THEN no_response_result(TRUE) ELSE DatabaseTool(r)
mysql_check(r) == DatabaseTool(r)

\* A system that is not Linux is skipped; a command that fails has no verdict.
linux_baseline(r, linux) ==
  IF r.end \in {"timeout", "raised", "nonzero"} THEN Raised
  ELSE IF linux THEN [Plain EXCEPT !.risk = r.weak] ELSE [Plain EXCEPT !.skip = TRUE]

-----------------------------------------------------------------------------
(* The engine.                                                              *)

\* A failed answer is an exception, but for the tools that report by it.
_gateway_payload(p, allowed) == IF p.status = "failed" /\ ~allowed THEN Raised ELSE p
AllowFailed == Snmp \cup WindowsSecurity \cup {"mysql_check", "crypto_transport_scan", "scan_vulnerabilities"}

_ssh_unavailable_payload == [Plain EXCEPT !.status = "skipped", !.error = TRUE, !.skip = TRUE]
_call_ssh_checker(p) == IF p.status = "raised" THEN _ssh_unavailable_payload ELSE p

\* A closed port makes the tool inapplicable; any other leaves the check open.
MutantUnavailable(state) ==
  [TimedOut EXCEPT !.status = "skipped", !.inapplicable = state # "open"]
_web_unavailable_payload(state) ==
  [TimedOut EXCEPT !.status = IF state = "closed" THEN "skipped" ELSE "warning",
                   !.inapplicable = state = "closed"]
\* A web application firewall answers in place of the target, or every path exists.
_protection_limited_payload(p) == [p EXCEPT !.status = "warning", !.done = "no", !.error = TRUE]

\* The tools with a preflight of the engine.
_web_preflight == {"nikto_scan", "gobuster_scan", "ffuf_scan"}
_scan_ssl == {"scan_ssl"}
Preflighted == _web_preflight \cup _scan_ssl

Answers(t, r) ==
  CASE t = "scan_ports" -> {nmap_scan(r)}
    [] t = "masscan_scan" -> {masscan_scan(r)}
    [] t = "fping_scan" -> {fping_scan(r)}
    [] t = "nikto_scan" -> {nikto_scan(r)}
    [] t = "sqlmap_scan" -> {sqlmap_scan(r)}
    [] t = "gobuster_scan" -> {gobuster_scan(r), _protection_limited_payload(gobuster_scan(r))}
    [] t = "ffuf_scan" -> {ffuf_scan(r), _protection_limited_payload(ffuf_scan(r))}
    [] t = "snmp_walk" -> {snmp_walk(r)}
    [] t = "snmp_bruteforce" -> {snmp_bruteforce(r)}
    [] t = "snmp_get" -> {snmp_get(r)}
    [] t = "enum4linux_scan" -> {enum4linux_scan(r)}
    [] t = "crackmapexec_scan" -> {crackmapexec_scan(r)}
    [] t = "smb_enum" -> {smb_enum(r)}
    [] t = "redis_check" -> {redis_check(r)}
    [] t = "oracle_check" -> {oracle_check(r)}
    [] t = "mongodb_check" -> {mongodb_check(r)}
    [] t = "memcached_check" -> {memcached_check(r)}
    [] t = "mysql_check" -> {mysql_check(r)}
    [] t = "scan_ssl" -> {testssl_scan(r)}
    [] t = "crypto_transport_scan" -> {crypto_transport_scan(r)}
    [] t = "scan_vulnerabilities" -> {nuclei_scan(r), _protection_limited_payload(nuclei_scan(r))}
    [] t = "scan_weak_passwords" -> {hydra_bruteforce(r)}
    [] t = "baseline_check" -> {_call_ssh_checker(linux_baseline(r, b)) : b \in BOOLEAN}

\* What the engine tells of one payload.
_tool_display_status(p) ==
  IF p.status = "raised" THEN "failed"
  ELSE IF p.inapplicable THEN "skipped"
  ELSE IF p.status = "warning" THEN "warning"
  ELSE IF p.done = "no" /\ p.marked THEN "skipped"
  ELSE IF p.done = "no" THEN "warning"
  ELSE "success"

-----------------------------------------------------------------------------
(* A check.                                                                 *)

VerdictInit ==
  /\ check \in [path : {"assessment"}, caps : {AssessmentTasks[t] : t \in TaskTypes}]
                 \cup [path : {"interactive"}, caps : Plans]
  /\ target \in TargetStates
  /\ changes = 0
  /\ passed = {}
  /\ payload = <<>>
  /\ results = <<>>
  /\ looked = {}
  /\ refused = {}
  /\ verdict = Unread

TargetChanges ==
  /\ Running
  /\ changes < MaxChanges
  /\ changes' = changes + 1
  /\ \E s \in TargetStates \ {target} : target' = s
  /\ UNCHANGED <<check, passed, payload, results, looked, refused, verdict>>

Capability == Head(check.caps)
Untried == IF check.caps = <<>> THEN {} ELSE ToolsOf(Capability) \ DOMAIN payload
Returns(t, p) == payload' = [u \in DOMAIN payload \cup {t} |-> IF u = t THEN p ELSE payload[u]]
Tried(t) == refused' = IF target = "closed" THEN refused \cup {t} ELSE refused

\* _web_preflight and the probe of _scan_ssl: the port, and a firewall in front of it.
Preflight(t) ==
  /\ t \in (Untried \cap Preflighted) \ passed
  /\ \/ /\ target = "open"
        /\ passed' = passed \cup {t}
        /\ UNCHANGED payload
     \/ /\ target # "open"
        /\ Returns(t, _web_unavailable_payload(target))
        /\ UNCHANGED passed
     \/ /\ target = "open" /\ t \in _web_preflight
        /\ Returns(t, _protection_limited_payload(Plain))
        /\ UNCHANGED passed
  /\ Tried(t)
  /\ UNCHANGED <<check, target, changes, results, looked, verdict>>

\* _execute_capability of one tool, from the call of its server to the payload.
_execute_capability(t) ==
  /\ t \in Untried
  /\ t \in Preflighted => t \in passed
  /\ \E r \in ProcessRuns(t) :
       /\ \E p \in Answers(t, r) : Returns(t, _gateway_payload(p, t \in AllowFailed))
       /\ looked' = IF r.looked THEN looked \cup {t} ELSE looked
  /\ Tried(t)
  /\ UNCHANGED <<check, target, changes, passed, results, verdict>>

\* tech_assessment without an SSH credential.
_skipped_subtool(t) ==
  /\ Untried # {} /\ Capability = "tech_assessment"
  /\ t \in Untried \cap {"baseline_check", "scan_weak_passwords"}
  /\ Returns(t, [Plain EXCEPT !.inapplicable = TRUE])
  /\ UNCHANGED <<check, target, changes, passed, results, looked, refused, verdict>>

NextCapability ==
  /\ check.caps # <<>> /\ Untried = {}
  /\ results' = Append(results, [cap |-> Capability, of |-> payload])
  /\ check' = [check EXCEPT !.caps = Tail(@)]
  /\ passed' = {}
  /\ payload' = <<>>
  /\ UNCHANGED <<target, changes, looked, refused, verdict>>

-----------------------------------------------------------------------------
(* The readers.                                                             *)

Statuses(s) == {_tool_display_status(s.of[t]) : t \in DOMAIN s.of}
Only(s) == s.of[s.cap]
RaisedStep(s) == ~Combined(s.cap) /\ Only(s).status = "raised"
AllSkipped(s) == Combined(s.cap) /\ Statuses(s) = {"skipped"}
AnyRisk(s) == \E t \in DOMAIN s.of : s.of[t].risk /\ s.of[t].status # "raised"

\* Whether a capability that returned has to be reported as not completed.
_tool_issue(s) ==
  IF Combined(s.cap) THEN ~AllSkipped(s) /\ Statuses(s) \cap {"failed", "warning", "skipped"} # {}
  ELSE Only(s).error \/ Only(s).done = "no" \/ Only(s).skip \/ Only(s).status = "failed"

Returned == {i \in DOMAIN results : ~RaisedStep(results[i])}
LoginFailed ==
  \E i \in Returned : results[i].cap = "baseline_check"
                      /\ Only(results[i]).skip /\ Only(results[i]).status = "skipped"
SkippedStep(s) == IF Combined(s.cap) THEN AllSkipped(s) ELSE Only(s).skip

\* A finding that says that a capability could not be executed, for the step or a tool of it.
_risk_items(s) ==
  \/ RaisedStep(s)
  \/ _tool_issue(s)
  \/ Combined(s.cap) /\ Statuses(s) \cap {"warning", "failed"} # {}

Failed == LoginFailed \/ Returned = {}
SomeRisk == \E i \in DOMAIN results : AnyRisk(results[i])
SomeUnable == \E i \in DOMAIN results : _risk_items(results[i])

\* What a report says of the same scan.
ReportOutcome ==
  IF Failed \/ \E i \in DOMAIN results : RaisedStep(results[i]) \/ _tool_issue(results[i]) THEN "unable"
  ELSE IF \A i \in Returned : ~Combined(results[i].cap) /\ Only(results[i]).skip THEN "skipped"
  ELSE IF SomeRisk \/ SomeUnable THEN "risk"
  ELSE IF \E i \in Returned : ~Combined(results[i].cap) /\ Only(results[i]).sure THEN "observed"
  ELSE "clean"

\* execute_task: the outcome of an assessment task and the result that is read later.
ExecuteTask ==
  LET notApplicable == Returned # {} /\ \A i \in Returned : SkippedStep(results[i])
      incomplete == \/ notApplicable \/ SomeUnable
                    \/ \E i \in Returned : Combined(results[i].cap)
                                           /\ Statuses(results[i]) # {"success"}
  IN [says |-> IF Failed THEN "failed" ELSE IF SomeRisk THEN "issues"
               ELSE IF incomplete THEN "incomplete" ELSE "clean",
      \* the score gives a point to a completed task without a finding
      credited |-> ~Failed /\ ~SomeRisk /\ ~SomeUnable /\ ~notApplicable,
      inapplicable |-> notApplicable /\ ~Failed,
      report |-> ReportOutcome, quiet |-> {}]

\* The one row that the results of a scan have for a target.  The first step names it;
\* one that succeeds or warns fills it anew, a failed one leaves its result, and one that
\* is skipped leaves its status.
StepStatus(s) == IF Combined(s.cap) THEN "success" ELSE _tool_display_status(Only(s))
_extract_scan_results_from_execution ==
  FoldLeft(LAMBDA row, s : [row EXCEPT !.status = IF StepStatus(s) = "skipped" THEN @ ELSE StepStatus(s),
                                       !.of = IF StepStatus(s) = "failed" THEN @ ELSE s],
           [cap |-> results[1].cap, status |-> StepStatus(results[1]), of |-> results[1]], results)

_scan_asset_result_state(row) ==
  IF row.status = "failed" THEN "failed"
  ELSE IF row.status \in {"warning", "skipped"} THEN "incomplete"
  ELSE IF Combined(row.of.cap) /\ Statuses(row.of) # {"success"} THEN "incomplete"
  ELSE IF ~Combined(row.of.cap) /\ (Only(row.of).done = "no" \/ Only(row.of).skip) THEN "incomplete"
  ELSE IF row.cap \in PortScanners /\ (Combined(row.of.cap) \/ ~Only(row.of).sure) THEN "incomplete"
  ELSE "complete"

\* The line that the answer to the user has for a tool: it did not run to its end, or
\* what it found.
Finished(p) == _tool_display_status(p) \in {"success", "warning"} /\ p.done # "no"
_describe_result_line(p) ==
  IF ~Finished(p) \/ p.skip THEN "unfinished" ELSE IF p.risk THEN "found" ELSE "nothing"
QuietTools == UNION {{t \in DOMAIN results[i].of : _describe_result_line(results[i].of[t]) = "nothing"} :
                       i \in DOMAIN results}

\* _scan_task_descriptor of a finished scan: findings that only say that a check could
\* not be executed are not kept for it.
ScanDescriptor ==
  LET complete == _scan_asset_result_state(_extract_scan_results_from_execution) = "complete"
  IN [says |-> IF SomeRisk THEN "issues" ELSE IF complete THEN "clean" ELSE "incomplete",
      credited |-> FALSE, inapplicable |-> FALSE,
      report |-> IF SomeRisk THEN "risk" ELSE "inconclusive", quiet |-> QuietTools]

Conclude ==
  /\ check.caps = <<>> /\ Running
  /\ verdict' = IF check.path = "assessment" THEN ExecuteTask ELSE ScanDescriptor
  /\ UNCHANGED <<check, target, changes, passed, payload, results, looked, refused>>

Judged == ~Running /\ UNCHANGED verdictVars

VerdictNext ==
  \/ TargetChanges
  \/ \E t \in Tools : Preflight(t) \/ _execute_capability(t) \/ _skipped_subtool(t)
  \/ NextCapability
  \/ Conclude
  \/ Judged
VerdictSpec == VerdictInit /\ [][VerdictNext]_verdictVars

-----------------------------------------------------------------------------
(* Properties.                                                              *)

\* Each variable has its type, and no payload is kept that its capability did not ask for.
VerdictTypeOK ==
  /\ check.path \in {"assessment", "interactive"}
  /\ target \in TargetStates
  /\ changes \in 0 .. MaxChanges
  /\ passed \subseteq Preflighted /\ (check.caps = <<>> => passed = {})
  /\ check.caps # <<>> => DOMAIN payload \subseteq ToolsOf(Capability)
  /\ \A t \in DOMAIN payload : payload[t] \in Payload
  /\ \A i \in DOMAIN results : DOMAIN results[i].of = ToolsOf(results[i].cap)
  /\ looked \subseteq Tools /\ refused \subseteq Tools
  /\ verdict \in [says : Verdicts, credited : BOOLEAN, inapplicable : BOOLEAN,
                  report : Reports, quiet : SUBSET Tools]

Asked == UNION {ToolsOf(results[i].cap) : i \in DOMAIN results}

\* Tools whose answer is taken for a look although there was none: the port scanners,
\* whose exit code or silence is no failure; hydra, which ends with 255; a baseline of a
\* host without a login, or whose commands all time out.
Gullible == PortScanners \cup {"scan_weak_passwords", "baseline_check"}

\* A scan or an assessment task is concluded clean, gets its point or is reported without
\* a problem only when every other tool it asked for looked at the target or was refused by
\* it; and the answer to the user says of no other tool that it found nothing when it did
\* not look (_tool_issue, _tool_display_status, _scan_asset_result_state, _scan_outcome).
\* Of a task that is not applicable, see NotMistakenForClean.
CleanIsCovered ==
  /\ \/ verdict.says = "clean"
     \/ verdict.credited
     \/ verdict.report = "clean" /\ ~verdict.inapplicable
     => Asked \ Gullible \subseteq looked \cup refused
  /\ verdict.quiet \ Gullible \subseteq looked

\* An assessment task is called not applicable, which takes it out of the score, only when
\* every tool of it that answered was refused by the target: silence is never taken for
\* absence (_tool_display_status, _web_unavailable_payload, execute_task).  Not so the tools
\* left out for want of a system or a login, nor the two that call any lack of a connection
\* a refusal; and a capability that failed is not asked.
UnheardOf == {"baseline_check", "scan_weak_passwords", "mongodb_check", "memcached_check"}
NotApplicableWasRefused ==
  verdict.inapplicable =>
    \A i \in Returned : ToolsOf(results[i].cap) \ UnheardOf \subseteq refused

\* Whatever takes a check out of the list of problems, or out of the score, was earned by
\* looks and refusals, whichever tools failed, timed out or fell silent on the way.
VerdictsAreEarned == CleanIsCovered /\ NotApplicableWasRefused

\* Nobody says of a check that it found nothing when one of its steps failed, warned or,
\* being a combination, was skipped altogether (.opencode/plans/ARCHITECTURE.md, 637: a
\* combination that is skipped altogether is not applicable, one that failed in part is
\* partly complete, and neither is reported as normal).
NotMistakenForClean ==
  verdict.says = "clean" \/ verdict.report = "clean" =>
    \A i \in DOMAIN results :
      IF Combined(results[i].cap) THEN ~AllSkipped(results[i])
      ELSE StepStatus(results[i]) \notin {"failed", "warning"}
=============================================================================
