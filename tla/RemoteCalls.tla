----------------------------- MODULE RemoteCalls -----------------------------
(***************************************************************************)
(* What dispatch_remote_execution promises its caller, without nodes, rows *)
(* and requests: a call that is sent away ends in one way and stays so, a  *)
(* result is handed over only after the tool ran to its end for this call, *)
(* and a call that was not sent away never shows a remote result.          *)
(***************************************************************************)
CONSTANT Jobs

VARIABLES
  outcome,  \* [Jobs -> Outcome], what the caller knows
  ran       \* the calls whose tool ran to its end

vars == <<outcome, ran>>

Open == {"idle", "sent"}
Ended == {"local", "result", "error", "gone"}

Init ==
  /\ outcome = [j \in Jobs |-> "idle"]
  /\ ran = {}

\* The call goes to a node, to the central tools, or finds its nodes offline.
Send(j) ==
  /\ outcome[j] = "idle"
  /\ \E o \in {"sent", "local", "error"} : outcome' = [outcome EXCEPT ![j] = o]
  /\ UNCHANGED ran

\* A tool ends; duplicates and calls nobody waits for run as well.
Run(j) ==
  /\ outcome[j] \notin {"idle", "local"}
  /\ ran' = ran \cup {j}
  /\ UNCHANGED outcome

End(j) ==
  /\ outcome[j] = "sent"
  /\ \E o \in {"error", "gone"} \cup IF j \in ran THEN {"result"} ELSE {} :
       outcome' = [outcome EXCEPT ![j] = o]
  /\ UNCHANGED ran

Next == \E j \in Jobs : Send(j) \/ Run(j) \/ End(j)

Spec == Init /\ [][Next]_vars
=============================================================================
