------------------------------- MODULE Retests -------------------------------
(***************************************************************************)
(* What the verification queue promises of its runs, without workers,      *)
(* leases and polls: a run is opened on some findings, each of them gets   *)
(* one verdict, conclusive ones stand, the status of the run follows from  *)
(* the verdicts, and a closed run is frozen until it is resumed, which     *)
(* takes back the inconclusive verdicts and no others.                     *)
(***************************************************************************)
CONSTANTS Runs, Findings

VARIABLES
  status,  \* [Runs -> Status]
  verdict  \* [Runs -> [Findings -> Verdict]], "none" for a finding outside the run

vars == <<status, verdict>>

Closed == {"completed", "partial", "failed", "cancelled"}
Status == {"none", "active"} \cup Closed
Firm == {"fixed", "still_present", "new"}
Weak == {"unable", "cancelled"}
Verdict == {"none", "due"} \cup Firm \cup Weak

Init ==
  /\ status = [r \in Runs |-> "none"]
  /\ verdict = [r \in Runs |-> [f \in Findings |-> "none"]]

Due(v) == {f \in Findings : v[f] = "due"}

\* Run r is opened on some findings.
Open(r) ==
  /\ status[r] = "none" /\ status'[r] = "active"
  /\ Due(verdict'[r]) # {}
  /\ \A f \in Findings : verdict'[r][f] \in {"none", "due"}

\* What the status of a run may become with the verdicts v: a run closes when
\* nothing is due; "completed" and "partial" tell whether all verdicts are firm.
Outcomes(v) ==
  {"active"} \cup
  IF Due(v) # {} THEN {}
  ELSE {"failed", "cancelled"} \cup
       IF \E f \in Findings : v[f] \in Weak THEN {"partial"} ELSE {"completed"}

\* Verdicts are given on what is due, and findings detected beside them are added.
Judge(r) ==
  /\ status[r] = "active"
  /\ \A f \in Findings :
       \/ verdict'[r][f] = verdict[r][f]
       \/ verdict[r][f] = "due" /\ verdict'[r][f] \in Firm \cup Weak
       \/ verdict[r][f] = "none" /\ verdict'[r][f] = "new"
  /\ status'[r] \in Outcomes(verdict'[r])

\* A closed run is resumed: its weak verdicts are due again.
Redo(r) ==
  /\ status[r] \in Closed /\ status'[r] = "active"
  /\ \E f \in Findings : verdict[r][f] \in Weak
  /\ verdict'[r] = [f \in Findings |-> IF verdict[r][f] \in Weak THEN "due" ELSE verdict[r][f]]

Same(r) == status'[r] = status[r] /\ verdict'[r] = verdict[r]

\* One step may move several runs: a poll gives up all that are out of attempts.
Next ==
  /\ status' \in [Runs -> Status]
  /\ verdict' \in [Runs -> [Findings -> Verdict]]
  /\ \A r \in Runs : Open(r) \/ Judge(r) \/ Redo(r) \/ Same(r)

Spec == Init /\ [][Next]_vars
=============================================================================
