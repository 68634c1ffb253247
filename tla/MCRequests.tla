----------------------------- MODULE MCRequests -----------------------------
(* Requests and what they decide, in one run.  The parts below have no row in     *)
(* common, so the run follows one at a time: phases (AssessmentQueue with two     *)
(* phases of one task each, so that resets of the first fall on a run of the      *)
(* second), verdicts (ToolVerdicts), and three instances of Reports: retested     *)
(* (one request for a report and two retests), renewed (the same with checks and  *)
(* a promotion) and rivals (two requests, one of them from the chat), and         *)
(* materials (Materials).                                                         *)
EXTENDS AssessmentQueue, ToolVerdicts, Reports, Materials, TLC
CONSTANTS t1, t2, g1, g2, c1, k1, r1, d1, p1, q1, q2, v1, v2
VARIABLE role
allVars == <<role, vars, verdictVars, repVars, matVars>>

PhasePerTask == (t1 :> 1) @@ (t2 :> 2)
SingleSteps ==
  {<<c>> : c \in {"scan_ports", "scan_ssl", "nikto_scan", "scan_vulnerabilities", "snmp_get",
                 "baseline_check", "web_discovery_scan", "network_device_scan",
                 "tech_assessment"}}

AllInit ==
  /\ role \in {"phases", "verdicts", "retested", "renewed", "rivals", "materials"}
  /\ Init /\ VerdictInit /\ RepInit /\ MatInit
  /\ role # "verdicts" => target = "open" /\ check.caps = <<"scan_ports">>

\* The requests and the tasks of Materials are all alike.
MaterialsAreAlike == Permutations({q1, q2}) \cup Permutations({v1, v2})

Alone == gen'[g2] = gen[g2]
Unchecked == task_status' = task_status /\ extra' = extra
AllNext ==
  /\ UNCHANGED role
  /\ \/ role = "phases" /\ Next /\ UNCHANGED <<verdictVars, repVars, matVars>>
     \/ role = "verdicts" /\ VerdictNext /\ UNCHANGED <<vars, repVars, matVars>>
     \/ role = "retested" /\ RepNext /\ Alone /\ Unchecked /\ UNCHANGED <<vars, verdictVars, matVars>>
     \/ role = "renewed" /\ RepNext /\ Alone /\ retest' = retest /\ UNCHANGED <<vars, verdictVars, matVars>>
     \/ role = "rivals" /\ RepNext /\ Unchecked /\ retest'[r1] = retest[r1]
        /\ UNCHANGED <<vars, verdictVars, matVars>>
     \/ role = "materials" /\ MatNext /\ UNCHANGED <<vars, verdictVars, repVars>>
AllSpec == AllInit /\ [][AllNext]_allVars

\* Every row and counter is one that the tables and processes can hold.
RolesTypeOK == TypeOK /\ VerdictTypeOK /\ RepTypeOK /\ MatTypeOK
=============================================================================
