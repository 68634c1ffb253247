--------------------------- MODULE MCRemoteNodes ---------------------------
(* Where a tool runs, on a remote node or on the MCP servers, in one run: a     *)
(* call takes one way or the other, so the run follows one of them at a time.   *)
EXTENDS RemoteNodes, ToolCalls, TLC
CONSTANTS n1, j1, j2, s1, s2, nmap, ping
VARIABLE way
allVars == <<way, vars, toolVars>>
OneRank == n1 :> 1

AllInit == way \in {"node", "servers"} /\ Init /\ ToolInit
AllNext ==
  /\ UNCHANGED way
  /\ \/ way = "node" /\ Next /\ UNCHANGED toolVars
     \/ way = "servers" /\ ToolNext /\ UNCHANGED vars

\* The fairness of both modules.
AllFair ==
  /\ \A j \in Jobs : WF_vars(way = "node" /\ LeaseExpires(j))
  /\ \A n \in Nodes :
       /\ WF_vars(way = "node" /\ \E j \in Jobs : Claim(n, j))
       /\ \A s \in Slots : WF_vars(way = "node" /\ (ToolReturns(n, s) \/ ToolRaises(n, s) \/ WriteReport(n, s)))
  /\ \A c \in Steps :
       /\ WF_toolVars(way = "servers" /\ StepProgress(c))
       /\ WF_toolVars(way = "servers" /\ \E k \in DOMAIN started[c] : ToolEnds(c, k))
AllSpec == AllInit /\ [][AllNext]_allVars /\ AllFair

\* A call ends where it was sent: a job nobody cancels gets a verdict from its node
\* (JobsEnd), and every step of a plan ends, whatever is lost, forgotten or restarted,
\* when every tool ends (call_with_progress, _execute_with_retry).
EveryCallEnds == JobsEnd /\ (way = "servers" => CallsEnd)

\* Every row, call and process is one that the tables and services can hold.
RolesTypeOK == TypeOK /\ ToolTypeOK
=============================================================================
