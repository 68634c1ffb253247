------------------------ MODULE MCVerificationRoles ------------------------
(***************************************************************************)
(* Retests, and what users decide about organizations and projects, in one *)
(* run.  The parts have no row in common, so the run follows one at a      *)
(* time: retests (VerificationQueue, of findings with a tool or of         *)
(* documents), untooled (the same, of a finding that no tool retests),     *)
(* members (Organizations), and two instances of Projects: one (work on an *)
(* assessment of one type while others ask for it and update the           *)
(* templates) and both (requests for two types, before anyone works).      *)
(***************************************************************************)
EXTENDS MCVerificationQueue, Organizations, Projects

CONSTANTS u1, u2, u3, s1, n1, c1, c2
VARIABLE role
allVars == <<role, vars, orgVars, projVars>>

AllGrants == {{}, Reserved}

AllInit ==
  /\ role \in {"retests", "members", "one", "both"}
  /\ Init /\ OrgInit /\ ProjInit

OneConfig == \A c \in Clients : \A i \in DOMAIN order'[c].todo : order'[c].todo[i] = Demo
Unworked ==
  \A t \in Types : \A i \in DOMAIN assessment'[t] : assessment'[t][i] = Fresh(assessment'[t][i].level)

AllNext ==
  /\ UNCHANGED role
  /\ \/ role = "retests" /\ Next /\ UNCHANGED <<orgVars, projVars>>
     \/ role = "members" /\ OrgNext /\ UNCHANGED <<vars, projVars>>
     \/ role = "one" /\ ProjNext /\ OneConfig /\ UNCHANGED <<vars, orgVars>>
     \/ role = "both" /\ ProjNext /\ Unworked /\ UNCHANGED <<vars, orgVars>>
AllSpec == AllInit /\ [][AllNext]_allVars

\* Every row and counter is one that the tables and processes can hold.
RolesTypeOK ==
  CASE role = "members" -> OrgTypeOK
    [] role \in {"one", "both"} -> ProjTypeOK
    [] OTHER -> TypeOK
=============================================================================
