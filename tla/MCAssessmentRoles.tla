------------------------- MODULE MCAssessmentRoles -------------------------
(* What a task of an assessment comes to, technical or document, and what is kept *)
(* of the conversation about it, in one run: the queue of technical tasks         *)
(* (AssessmentQueue), the verdicts on documents (DocumentVerdicts) and the        *)
(* conversation (Conversations). They share no row: the run follows one at a      *)
(* time. The queue comes in two instances: queue (two workers) and direct         *)
(* (requests that execute a task at once, while one worker executes runs); the    *)
(* conversation in four: talk (four messages, nothing is archived and nothing     *)
(* fails), and with three messages lapses (one archive, one event), scans (one    *)
(* writes, results of scans of one thread arrive) and twice (one writes, both     *)
(* archive).                                                                      *)
EXTENDS MCAssessmentQueue, DocumentVerdicts, Conversations
CONSTANTS c2, a2
VARIABLE role
allVars == <<role, vars, docVars, convVars>>

AllInit ==
  /\ role \in {"queue", "direct", "documents", "talk", "lapses", "scans", "twice"}
  /\ Init /\ VerdictsInit /\ ConvInit

\* Requests to execute a task at once, beside a single worker that executes anything.
OneExecutes ==
  \A r, q \in Jobs : run'[r].pc # "free" /\ run'[q].pc # "free" => Host(r) = Host(q)
OneWrites == turn'[c2].pc # "writing"
Small ==
  /\ role = "talk" => archive' = archive /\ \A c \in Callers : turn'[c].pc # "gathered"
  /\ role # "talk" => msg'[MaxMessages] = msg[MaxMessages]
  /\ role # "lapses" => events' = 0
  /\ role # "scans" => busy' = {}
  /\ role # "twice" => archive'[a2] = archive[a2]
  /\ role \in {"scans", "twice"} => OneWrites
  /\ role = "scans" => busy' \subseteq {Default}
AllNext ==
  /\ UNCHANGED role
  /\ \/ role = "queue" /\ Next /\ direct' = direct /\ UNCHANGED <<docVars, convVars>>
     \/ role = "direct" /\ Next /\ OneExecutes /\ UNCHANGED <<docVars, convVars>>
     \/ role = "documents" /\ VerdictsNext /\ UNCHANGED <<vars, convVars>>
     \/ role \in {"talk", "lapses", "scans", "twice"} /\ ConvNext /\ Small /\ UNCHANGED <<vars, docVars>>
     \* the user may stop talking
     \/ role \in {"talk", "lapses", "scans", "twice"} /\ UNCHANGED <<vars, docVars, convVars>>
AllSpec == AllInit /\ [][AllNext]_allVars
AllSymmetry == WorkerSymmetry \cup Permutations(Points) \cup Permutations(Papers)

\* Every row is one that the tables can hold.
RolesTypeOK == TypeOK /\ DocTypeOK /\ ConvTypeOK
=============================================================================
