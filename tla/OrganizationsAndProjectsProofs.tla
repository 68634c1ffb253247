------------------------ MODULE OrganizationsAndProjectsProofs ------------------------
(***************************************************************************)
(* Theorems about Organizations for any number of users, templates,        *)
(* projects and requests.                                                  *)
(*                                                                         *)
(* And proofs about Projects, for any types, levels, requests and number   *)
(* of tasks: one assessment of a type, and a summary that agrees with it.  *)
(* The invariant is about the middle of the requests: whoever leaves the   *)
(* summary of a type, or its progress, behind its tasks is a request that  *)
(* is still to write the summary, unless that is torn.                     *)
(*                                                                         *)
(* The last part joins both with VerificationQueueProofs for the run of    *)
(* all three (MCVerificationRoles).                                        *)
(***************************************************************************)
EXTENDS VerificationQueueProofs, MCVerificationRoles, FiniteSetTheorems, SequenceTheorems, TLAPS

USE OrganizationAssumption, ProjectAssumption

-----------------------------------------------------------------------------
(* Organizations.                                                          *)

\* What a request that has passed its tests may still write: the user or the template it
\* is about, and the count of administrators it took for enough.
CallSound(r) ==
  r.pc = "checked" =>
    /\ r.op \in {"add", "assign", "remove"} => r.user \in Users
    /\ r.op \in {"add", "assign"} => r.role # "none"
    /\ r.op \in {"edit", "discard"} => r.template \in Templates
    /\ r.op = "remove" => r.role = "none" /\ r.template = "none"
    /\ r.op \in {"assign", "remove"} /\ r.old.role = "admin" /\ r.role # "admin" => r.admins > 1
CallsSound == \A c \in Callers : CallSound(call[c])

\* The row that a request is going to write is there, and so is the template that it is
\* going to refer to.
RowsOf(r) ==
  /\ r.op \in {"assign", "remove"} => member[r.user].role # "none"
  /\ (/\ r.op \in {"add", "assign"} /\ r.template # "none"
      /\ r.op = "assign" => r.template # r.old.template)
       => template[r.template].kind # "none"
RowsThere == \A c \in Callers : call[c].pc = "checked" => RowsOf(call[c])
\* A member's template exists, and who is not a member has none.
TemplatesExist ==
  \A u \in Users : member[u].template # "none" =>
    member[u].role # "none" /\ template[member[u].template].kind # "none"

OrgInvariant == OrgTypeOK /\ CallsSound /\ RowsThere /\ TemplatesExist

-----------------------------------------------------------------------------
(* What the requests have read, row by row.                                 *)

\* A member row is one, whatever it is made of.
LEMMA MemberRows ==
  /\ Nobody \in MemberRow
  /\ \A r \in BasicRole, n \in Templates \cup {"none"} : [role |-> r, template |-> n] \in MemberRow
  /\ \A m \in MemberRow : /\ [m EXCEPT !.template = "none"] \in MemberRow
                          /\ [m EXCEPT !.role = "admin"] \in MemberRow
BY DEF MemberRow, BasicRole, Nobody

\* A template row is one, whatever it is made of.
LEMMA TemplateRows ==
  /\ NoTemplate \in TemplateRow
  /\ \A g \in SUBSET Reserved : /\ [kind |-> "custom", grants |-> g] \in TemplateRow
                                /\ [kind |-> "system", grants |-> g] \in TemplateRow
                                /\ \A t \in TemplateRow : /\ [t EXCEPT !.grants = g] \in TemplateRow
                                                          /\ [t EXCEPT !.grants = g].kind = t.kind
BY DEF TemplateRow, NoTemplate

\* Nobody waits for an idle request, and it may write nothing.
LEMMA IdleRow == NoCall \in CallRow /\ NoCall.pc = "idle"
BY DEF NoCall, CallRow, BasicRole, MemberRow, Nobody

\* A request that lost its row or its template writes nothing.
LEMMA VoidRow ==
  ASSUME NEW r \in CallRow
  PROVE  [r EXCEPT !.pc = "void"] \in CallRow /\ [r EXCEPT !.pc = "void"].pc = "void"
BY DEF CallRow

\* What add_member is going to write, column by column.
LEMMA AddColumns ==
  ASSUME NEW v, NEW rank, NEW n, NEW r,
         r = [MayWrite("add") EXCEPT !.user = v, !.role = rank, !.template = n]
  PROVE  r = [pc |-> "checked", op |-> "add", user |-> v, role |-> rank,
              template |-> n, grants |-> {}, old |-> Nobody,
              admins |-> 0, projects |-> {}]
BY DEF MayWrite, NoCall

\* What add_member is going to write is sound.
LEMMA AddRow ==
  ASSUME NEW v \in Users, NEW rank \in BasicRole \ {"none"}, NEW n \in Templates \cup {"none"},
         NEW r, r = [pc |-> "checked", op |-> "add", user |-> v, role |-> rank,
                     template |-> n, grants |-> {}, old |-> Nobody,
                     admins |-> 0, projects |-> {}]
  PROVE  r \in CallRow /\ CallSound(r)
<1>1. r \in CallRow
  BY MemberRows DEF CallRow, BasicRole
<1>2. CallSound(r)
  BY DEF CallSound
<1> QED
  BY <1>1, <1>2

\* What update_member_role is going to write and has read, column by column.
LEMMA AssignColumns ==
  ASSUME NEW v, NEW rank, NEW n, NEW m, NEW k, NEW r,
         r = [MayWrite("assign") EXCEPT !.user = v, !.role = rank, !.template = n,
                                           !.old = m, !.admins = k]
  PROVE  r = [pc |-> "checked", op |-> "assign", user |-> v, role |-> rank,
              template |-> n, grants |-> {}, old |-> m,
              admins |-> k, projects |-> {}]
BY DEF MayWrite, NoCall

\* What update_member_role is going to write and has read is sound.
LEMMA AssignRow ==
  ASSUME NEW v \in Users, NEW rank \in BasicRole \ {"none"}, NEW n \in Templates \cup {"none"},
         NEW m \in MemberRow, NEW k \in Nat, m.role = "admin" /\ rank # "admin" => k > 1,
         NEW r, r = [pc |-> "checked", op |-> "assign", user |-> v, role |-> rank,
                     template |-> n, grants |-> {}, old |-> m,
                     admins |-> k, projects |-> {}]
  PROVE  r \in CallRow /\ CallSound(r)
<1>1. r \in CallRow
  BY DEF CallRow, BasicRole
<1>2. CallSound(r)
  BY DEF CallSound
<1> QED
  BY <1>1, <1>2

\* What remove_member has read, column by column.
LEMMA RemoveColumns ==
  ASSUME NEW v, NEW m, NEW k, NEW r,
         r = [MayWrite("remove") EXCEPT !.user = v, !.old = m, !.admins = k]
  PROVE  r = [pc |-> "checked", op |-> "remove", user |-> v, role |-> "none",
              template |-> "none", grants |-> {}, old |-> m,
              admins |-> k, projects |-> {}]
BY DEF MayWrite, NoCall

\* What remove_member has read is sound.
LEMMA RemoveRow ==
  ASSUME NEW v \in Users, NEW m \in MemberRow, NEW k \in Nat, m.role = "admin" => k > 1,
         NEW r, r = [pc |-> "checked", op |-> "remove", user |-> v, role |-> "none",
                     template |-> "none", grants |-> {}, old |-> m,
                     admins |-> k, projects |-> {}]
  PROVE  r \in CallRow /\ CallSound(r)
<1>1. r \in CallRow
  BY DEF CallRow, BasicRole
<1>2. CallSound(r)
  BY DEF CallSound
<1> QED
  BY <1>1, <1>2

\* What update_role is going to write, column by column.
LEMMA EditColumns ==
  ASSUME NEW n, NEW g, NEW r,
         r = [MayWrite("edit") EXCEPT !.template = n, !.grants = g]
  PROVE  r = [pc |-> "checked", op |-> "edit", user |-> "none", role |-> "none",
              template |-> n, grants |-> g, old |-> Nobody,
              admins |-> 0, projects |-> {}]
BY DEF MayWrite, NoCall

\* What update_role is going to write is sound.
LEMMA EditRow ==
  ASSUME NEW n \in Templates, NEW g \in SUBSET Reserved,
         NEW r, r = [pc |-> "checked", op |-> "edit", user |-> "none", role |-> "none",
                     template |-> n, grants |-> g, old |-> Nobody,
                     admins |-> 0, projects |-> {}]
  PROVE  r \in CallRow /\ CallSound(r)
<1>1. r \in CallRow
  BY MemberRows DEF CallRow, BasicRole
<1>2. CallSound(r)
  BY DEF CallSound
<1> QED
  BY <1>1, <1>2

\* What delete_role is going to delete, column by column.
LEMMA DiscardColumns ==
  ASSUME NEW n, NEW r,
         r = [MayWrite("discard") EXCEPT !.template = n]
  PROVE  r = [pc |-> "checked", op |-> "discard", user |-> "none", role |-> "none",
              template |-> n, grants |-> {}, old |-> Nobody,
              admins |-> 0, projects |-> {}]
BY DEF MayWrite, NoCall

\* What delete_role is going to delete is sound.
LEMMA DiscardRow ==
  ASSUME NEW n \in Templates,
         NEW r, r = [pc |-> "checked", op |-> "discard", user |-> "none", role |-> "none",
                     template |-> n, grants |-> {}, old |-> Nobody,
                     admins |-> 0, projects |-> {}]
  PROVE  r \in CallRow /\ CallSound(r)
<1>1. r \in CallRow
  BY MemberRows DEF CallRow, BasicRole
<1>2. CallSound(r)
  BY DEF CallSound
<1> QED
  BY <1>1, <1>2

\* The projects that a request has loaded, and nothing else.
LEMMA LoadedColumns ==
  ASSUME NEW op, NEW there, NEW r, r = [MayWrite(op) EXCEPT !.projects = there]
  PROVE  r = [pc |-> "checked", op |-> op, user |-> "none", role |-> "none",
              template |-> "none", grants |-> {}, old |-> Nobody,
              admins |-> 0, projects |-> there]
BY DEF MayWrite, NoCall

\* What the requests that delete projects have loaded is sound.
LEMMA LoadedRow ==
  ASSUME NEW op \in {"initialize", "delete"}
  PROVE  Loaded(op) \in CallRow /\ CallSound(Loaded(op)) /\ Loaded(op).op = op
<1>. DEFINE there == {p \in Projects : project[p] # "none"}
<1>1. there \in SUBSET Projects
  OBVIOUS
<1>2. Loaded(op) = [MayWrite(op) EXCEPT !.projects = there]
  BY DEF Loaded
<1>. HIDE DEF there
<1>3. ASSUME NEW r, r = [pc |-> "checked", op |-> op, user |-> "none", role |-> "none",
                         template |-> "none", grants |-> {}, old |-> Nobody,
                         admins |-> 0, projects |-> there]
      PROVE  r \in CallRow /\ CallSound(r) /\ r.op = op
  <2>1. r \in CallRow
    BY <1>1, <1>3, MemberRows DEF CallRow, BasicRole
  <2>2. CallSound(r)
    BY <1>3 DEF CallSound
  <2> QED
    BY <1>3, <2>1, <2>2
<1> QED
  BY <1>2, <1>3, LoadedColumns

-----------------------------------------------------------------------------
(* What a request that begins, and one that ends, does to the others.       *)

\* A request that passes its tests leaves the others as they are.
LEMMA PassedCalls ==
  ASSUME call \in [Callers -> CallRow], CallsSound, calls \in 0 .. MaxCalls,
         NEW c \in Callers, NEW right, NEW u, NEW r \in CallRow, CallSound(r),
         Passes(c, right, u, r)
  PROVE  /\ call' \in [Callers -> CallRow] /\ CallsSound' /\ calls' \in 0 .. MaxCalls
         /\ call'[c] = r /\ \A x \in Callers \ {c} : call'[x] = call[x]
         /\ UNCHANGED <<org, member, template, project, miscounted>>
BY DEF Passes, CallsSound

\* A request that ends leaves the others as they are, or without their row.
LEMMA ServedCalls ==
  ASSUME call \in [Callers -> CallRow], CallsSound, NEW c \in Callers, NEW lost, Served(c, lost)
  PROVE  /\ call' \in [Callers -> CallRow] /\ CallsSound'
         /\ \A x \in Callers : call'[x].pc = "checked" =>
              call'[x] = call[x] /\ x # c /\ x \notin lost
<1>1. ASSUME NEW x \in Callers
      PROVE  /\ call'[x] \in CallRow
             /\ \/ call'[x].pc # "checked"
                \/ call'[x] = call[x] /\ x # c /\ (x \notin lost \/ call[x].pc # "checked")
  BY <1>1, IdleRow, VoidRow DEF Served
<1>2. call' \in [Callers -> CallRow]
  BY <1>1 DEF Served
<1>3. CallsSound'
  BY <1>1 DEF CallsSound, CallSound
<1> QED
  BY <1>1, <1>2, <1>3

\* The administrators are counted by a natural number.
LEMMA CountType == AdminCount \in Nat
BY FS_Subset, FS_CardinalityType DEF AdminCount, Admins

\* A request that has passed its tests: what it is going to write is sound.
Requested(c) ==
  \E right \in Reserved, u \in Users, r \in CallRow :
    CallSound(r) /\ RowsOf(r) /\ Passes(c, right, u, r)

\* Every request that begins does so with rows that are there, and a count that suffices.
LEMMA BeginsSound ==
  ASSUME OrgTypeOK, NEW c \in Callers, NEW u \in Users
  PROVE  /\ \A v \in Users, rank \in BasicRole \ {"none"}, n \in Templates \cup {"none"} :
              AddMember(c, u, v, rank, n) \/ UpdateMember(c, u, v, rank, n) => Requested(c)
         /\ \A v \in Users : RemoveMember(c, u, v) => Requested(c)
         /\ \A n \in Templates :
              DeleteRole(c, u, n) \/ (\E g \in Grants : UpdateRole(c, u, n, g)) => Requested(c)
         /\ Initialize(c, u) \/ DeleteOrganization(c, u) => Requested(c)
<1>1. ASSUME NEW v \in Users, NEW rank \in BasicRole \ {"none"}, NEW n \in Templates \cup {"none"},
             AddMember(c, u, v, rank, n)
      PROVE  Requested(c)
  <2>1. PICK r : /\ r = [MayWrite("add") EXCEPT !.user = v, !.role = rank, !.template = n]
                 /\ Passes(c, "member:manage", u, r)
    BY <1>1 DEF AddMember
  <2>2. r = [pc |-> "checked", op |-> "add", user |-> v, role |-> rank,
             template |-> n, grants |-> {}, old |-> Nobody,
             admins |-> 0, projects |-> {}]
    BY <2>1, AddColumns
  <2>3. r \in CallRow /\ CallSound(r)
    BY <2>2, AddRow
  <2>4. n # "none" => template[n].kind # "none"
    BY <1>1 DEF AddMember, Assignable
  <2>5. RowsOf(r)
    BY <2>2, <2>4 DEF RowsOf
  <2> QED
    BY <2>1, <2>3, <2>5 DEF Requested, Reserved
<1>2. ASSUME NEW v \in Users, NEW rank \in BasicRole \ {"none"}, NEW n \in Templates \cup {"none"},
             UpdateMember(c, u, v, rank, n)
      PROVE  Requested(c)
  <2>1. PICK r : /\ r = [MayWrite("assign") EXCEPT !.user = v, !.role = rank, !.template = n,
                                                   !.old = member[v], !.admins = AdminCount]
                 /\ Passes(c, "member:manage", u, r)
    BY <1>2 DEF UpdateMember
  <2>2. r = [pc |-> "checked", op |-> "assign", user |-> v, role |-> rank,
             template |-> n, grants |-> {}, old |-> member[v],
             admins |-> AdminCount, projects |-> {}]
    BY <2>1, AssignColumns
  <2>3. member[v].role = "admin" /\ rank # "admin" => AdminCount > 1
    BY <1>2 DEF UpdateMember, Spared
  <2>4. member[v] \in MemberRow
    BY DEF OrgTypeOK
  <2>5. r \in CallRow /\ CallSound(r)
    BY <2>2, <2>3, <2>4, AssignRow, CountType
  <2>6. /\ n # "none" => template[n].kind # "none"
        /\ member[v].role # "none"
    BY <1>2 DEF UpdateMember, Assignable, Touchable
  <2>7. RowsOf(r)
    BY <2>2, <2>6 DEF RowsOf
  <2> QED
    BY <2>1, <2>5, <2>7 DEF Requested, Reserved
<1>3. ASSUME NEW v \in Users, RemoveMember(c, u, v)
      PROVE  Requested(c)
  <2>1. PICK r : /\ r = [MayWrite("remove") EXCEPT !.user = v, !.old = member[v],
                                                   !.admins = AdminCount]
                 /\ Passes(c, "member:manage", u, r)
    BY <1>3 DEF RemoveMember
  <2>2. r = [pc |-> "checked", op |-> "remove", user |-> v, role |-> "none",
             template |-> "none", grants |-> {}, old |-> member[v],
             admins |-> AdminCount, projects |-> {}]
    BY <2>1, RemoveColumns
  <2>3. member[v].role = "admin" => AdminCount > 1
    BY <1>3 DEF RemoveMember, Spared
  <2>4. member[v] \in MemberRow
    BY DEF OrgTypeOK
  <2>5. r \in CallRow /\ CallSound(r)
    BY <2>2, <2>3, <2>4, RemoveRow, CountType
  <2>6. member[v].role # "none"
    BY <1>3 DEF RemoveMember, Touchable
  <2>7. RowsOf(r)
    BY <2>2, <2>6 DEF RowsOf
  <2> QED
    BY <2>1, <2>5, <2>7 DEF Requested, Reserved
<1>4. ASSUME NEW n \in Templates, NEW g \in Grants, UpdateRole(c, u, n, g)
      PROVE  Requested(c)
  <2>1. PICK r : /\ r = [MayWrite("edit") EXCEPT !.template = n, !.grants = g]
                 /\ Passes(c, "role:manage", u, r)
    BY <1>4 DEF UpdateRole
  <2>2. r = [pc |-> "checked", op |-> "edit", user |-> "none", role |-> "none",
             template |-> n, grants |-> g, old |-> Nobody,
             admins |-> 0, projects |-> {}]
    BY <2>1, EditColumns
  <2>3. r \in CallRow /\ CallSound(r)
    BY <2>2, EditRow
  <2>4. RowsOf(r)
    BY <2>2 DEF RowsOf
  <2> QED
    BY <2>1, <2>3, <2>4 DEF Requested, Reserved
<1>5. ASSUME NEW n \in Templates, DeleteRole(c, u, n)
      PROVE  Requested(c)
  <2>1. PICK r : /\ r = [MayWrite("discard") EXCEPT !.template = n]
                 /\ Passes(c, "role:manage", u, r)
    BY <1>5 DEF DeleteRole
  <2>2. r = [pc |-> "checked", op |-> "discard", user |-> "none", role |-> "none",
             template |-> n, grants |-> {}, old |-> Nobody,
             admins |-> 0, projects |-> {}]
    BY <2>1, DiscardColumns
  <2>3. r \in CallRow /\ CallSound(r)
    BY <2>2, DiscardRow
  <2>4. RowsOf(r)
    BY <2>2 DEF RowsOf
  <2> QED
    BY <2>1, <2>3, <2>4 DEF Requested, Reserved
<1>6. ASSUME Initialize(c, u) \/ DeleteOrganization(c, u)
      PROVE  Requested(c)
  <2>1. PICK op \in {"initialize", "delete"} : Passes(c, "system:config", u, Loaded(op))
    BY <1>6 DEF Initialize, DeleteOrganization
  <2>2. Loaded(op) \in CallRow /\ CallSound(Loaded(op)) /\ Loaded(op).op = op
    BY LoadedRow
  <2>3. RowsOf(Loaded(op))
    BY <2>2 DEF RowsOf
  <2> QED
    BY <2>1, <2>2, <2>3 DEF Requested, Reserved
<1> QED
  BY <1>1, <1>2, <1>3, <1>4, <1>5, <1>6

-----------------------------------------------------------------------------
(* The invariant.                                                           *)

\* Before the organization there are neither members nor templates.
LEMMA OrgStart == OrgInit => OrgInvariant /\ KeepsAnAdmin
<1>. SUFFICES ASSUME OrgInit PROVE OrgInvariant /\ KeepsAnAdmin
  OBVIOUS
<1>1. OrgTypeOK
  <2>1. Nobody \in MemberRow /\ NoTemplate \in TemplateRow /\ NoCall \in CallRow
    BY MemberRows, TemplateRows, IdleRow
  <2>2. /\ member \in [Users -> MemberRow] /\ template \in [Templates -> TemplateRow]
        /\ call \in [Callers -> CallRow]
    BY <2>1 DEF OrgInit
  <2>3. 0 \in 0 .. MaxCalls
    OBVIOUS
  <2> QED
    BY <2>2, <2>3 DEF OrgInit, OrgTypeOK
<1>2. CallsSound /\ RowsThere
  BY IdleRow DEF OrgInit, CallsSound, CallSound, RowsThere
<1>3. TemplatesExist
  BY DEF OrgInit, TemplatesExist, Nobody
<1>4. KeepsAnAdmin
  BY DEF OrgInit, KeepsAnAdmin
<1> QED
  BY <1>1, <1>2, <1>3, <1>4 DEF OrgInvariant

\* A request that begins changes no row of a table.
LEMMA BeginsKeeps ==
  ASSUME OrgInvariant, NEW c \in Callers, Requested(c)
  PROVE  OrgInvariant' /\ (KeepsAnAdmin => KeepsAnAdmin')
<1>1. PICK right \in Reserved, u \in Users, r \in CallRow :
        CallSound(r) /\ RowsOf(r) /\ Passes(c, right, u, r)
  BY DEF Requested
<1>2. /\ call' \in [Callers -> CallRow] /\ CallsSound' /\ calls' \in 0 .. MaxCalls
      /\ call'[c] = r /\ \A x \in Callers \ {c} : call'[x] = call[x]
      /\ UNCHANGED <<org, member, template, project, miscounted>>
  BY <1>1, PassedCalls DEF OrgInvariant, OrgTypeOK
<1>3. OrgTypeOK'
  BY <1>2 DEF OrgInvariant, OrgTypeOK
<1>4. RowsThere'
  BY <1>1, <1>2 DEF OrgInvariant, RowsThere, RowsOf
<1>5. TemplatesExist' /\ (KeepsAnAdmin => KeepsAnAdmin')
  BY <1>2 DEF OrgInvariant, TemplatesExist, KeepsAnAdmin, Admins
<1> QED
  BY <1>2, <1>3, <1>4, <1>5 DEF OrgInvariant

\* The columns that the session writes make a member row.
LEMMA AssignedRow ==
  ASSUME NEW v \in Users, NEW r \in CallRow, member[v] \in MemberRow
  PROVE  Assigned(v, r) \in MemberRow
BY DEF Assigned, CallRow, MemberRow

\* add_member, update_member_role and remove_member keep the rows sound.
LEMMA WriteMemberKeeps ==
  ASSUME OrgInvariant, NEW c \in Callers, WriteMember(c)
  PROVE  OrgInvariant'
<1>. DEFINE r == call[c]
            v == r.user
            ofMember == {x \in Callers : call[x].user = v /\ call[x].op \in {"assign", "remove"}}
<1>1. /\ call \in [Callers -> CallRow] /\ member \in [Users -> MemberRow] /\ r \in CallRow
      /\ CallsSound /\ CallSound(r) /\ RowsOf(r) /\ r.pc = "checked"
      /\ UNCHANGED <<org, template, project, calls>> /\ miscounted' \in BOOLEAN
  BY DEF OrgInvariant, OrgTypeOK, WriteMember, CallsSound, RowsThere, Miscounts
<1>2. CASE r.op = "add" /\ member[v].role = "none" /\ Served(c, {})
           /\ member' = [member EXCEPT ![v] = [role |-> r.role, template |-> r.template]]
  <2>1. v \in Users /\ r.role # "none" /\ [role |-> r.role, template |-> r.template] \in MemberRow
    BY <1>1, <1>2, MemberRows DEF CallSound, CallRow
  <2>2. /\ call' \in [Callers -> CallRow] /\ CallsSound'
        /\ \A x \in Callers : call'[x].pc = "checked" => call'[x] = call[x] /\ x # c
    BY <1>1, <1>2, ServedCalls
  <2>3. OrgTypeOK'
    BY <1>1, <1>2, <2>1, <2>2 DEF OrgInvariant, OrgTypeOK
  <2>4. \A u \in Users : member[u].role # "none" => member'[u].role # "none"
    BY <1>1, <1>2, <2>1
  <2>5. RowsThere'
    BY <1>1, <2>1, <2>2, <2>4 DEF OrgInvariant, RowsThere, RowsOf, CallsSound, CallSound
  <2>6. TemplatesExist'
    BY <1>1, <1>2, <2>1 DEF OrgInvariant, TemplatesExist, RowsOf
  <2> QED
    BY <2>2, <2>3, <2>5, <2>6 DEF OrgInvariant
<1>3. CASE r.op = "assign" /\ member' = [member EXCEPT ![v] = Assigned(v, r)] /\ Served(c, {})
  <2>1. v \in Users /\ r.role # "none" /\ member[v].role # "none" /\ Assigned(v, r) \in MemberRow
    BY <1>1, <1>3, AssignedRow DEF CallSound, RowsOf
  <2>2. /\ call' \in [Callers -> CallRow] /\ CallsSound'
        /\ \A x \in Callers : call'[x].pc = "checked" => call'[x] = call[x] /\ x # c
    BY <1>1, <1>3, ServedCalls
  <2>3. OrgTypeOK'
    BY <1>1, <1>3, <2>1, <2>2 DEF OrgInvariant, OrgTypeOK
  <2>4. Assigned(v, r).role # "none"
    BY <2>1 DEF Assigned
  <2>5. \A u \in Users : member[u].role # "none" => member'[u].role # "none"
    BY <1>1, <1>3, <2>1, <2>4
  <2>6. RowsThere'
    BY <1>1, <2>1, <2>2, <2>5 DEF OrgInvariant, RowsThere, RowsOf, CallsSound, CallSound
  <2>7. Assigned(v, r).template # "none" => template[Assigned(v, r).template].kind # "none"
    BY <1>1, <1>3, <2>1 DEF OrgInvariant, TemplatesExist, Assigned, RowsOf
  <2>8. TemplatesExist'
    BY <1>1, <1>3, <2>1, <2>4, <2>7 DEF OrgInvariant, TemplatesExist
  <2> QED
    BY <2>2, <2>3, <2>6, <2>8 DEF OrgInvariant
<1>4. CASE r.op = "remove" /\ member' = [member EXCEPT ![v] = Nobody] /\ Served(c, ofMember)
  <2>1. v \in Users
    BY <1>1, <1>4 DEF CallSound
  <2>2. /\ call' \in [Callers -> CallRow] /\ CallsSound'
        /\ \A x \in Callers : call'[x].pc = "checked" => call'[x] = call[x] /\ x \notin ofMember
    BY <1>1, <1>4, ServedCalls
  <2>3. OrgTypeOK'
    BY <1>1, <1>4, <2>1, <2>2, MemberRows DEF OrgInvariant, OrgTypeOK
  <2>4. \A u \in Users \ {v} : member'[u] = member[u]
    BY <1>1, <1>4
  <2>5. RowsThere'
    BY <1>1, <2>2, <2>4 DEF OrgInvariant, RowsThere, RowsOf, CallsSound, CallSound
  <2>6. TemplatesExist'
    BY <1>1, <1>4, <2>1, <2>4 DEF OrgInvariant, TemplatesExist, Nobody
  <2> QED
    BY <2>2, <2>3, <2>5, <2>6 DEF OrgInvariant
<1> QED
  BY <1>2, <1>3, <1>4 DEF WriteMember

\* update_role and delete_role keep the rows sound: the members of a deleted template have
\* none, and a request that was going to give it to someone fails.
LEMMA WriteRoleKeeps ==
  ASSUME OrgInvariant, NEW c \in Callers, WriteRole(c)
  PROVE  OrgInvariant' /\ Admins' = Admins
<1>. DEFINE r == call[c]
            n == r.template
            ofTemplate == {x \in Callers : /\ call[x].template = n
                                           /\ call[x].op = "assign" => call[x].old.template # n}
<1>1. /\ call \in [Callers -> CallRow] /\ member \in [Users -> MemberRow] /\ r \in CallRow
      /\ template \in [Templates -> TemplateRow]
      /\ CallsSound /\ CallSound(r) /\ RowsOf(r) /\ r.pc = "checked"
      /\ UNCHANGED <<org, project, calls, miscounted>>
  BY DEF OrgInvariant, OrgTypeOK, WriteRole, CallsSound, RowsThere
<1>2. CASE r.op = "edit" /\ template' = [template EXCEPT ![n].grants = r.grants]
           /\ UNCHANGED member /\ Served(c, {})
  <2>1. n \in Templates /\ r.grants \in SUBSET Reserved
    BY <1>1, <1>2 DEF CallSound, CallRow
  <2>2. /\ call' \in [Callers -> CallRow] /\ CallsSound'
        /\ \A x \in Callers : call'[x].pc = "checked" => call'[x] = call[x]
    BY <1>1, <1>2, ServedCalls
  <2>3. \A m \in Templates : template'[m] \in TemplateRow /\ template'[m].kind = template[m].kind
    <3>1. template' = [template EXCEPT ![n] = [@ EXCEPT !.grants = r.grants]]
      BY <1>2
    <3>2. /\ [template[n] EXCEPT !.grants = r.grants] \in TemplateRow
          /\ [template[n] EXCEPT !.grants = r.grants].kind = template[n].kind
      BY <1>1, <2>1, TemplateRows
    <3> QED
      BY <1>1, <2>1, <3>1, <3>2
  <2>4. OrgTypeOK'
    BY <1>1, <1>2, <2>2, <2>3 DEF OrgInvariant, OrgTypeOK
  <2>5. RowsThere'
    BY <1>1, <1>2, <2>2, <2>3 DEF OrgInvariant, RowsThere, RowsOf, CallRow
  <2>6. TemplatesExist'
    BY <1>1, <1>2, <2>3 DEF OrgInvariant, TemplatesExist, MemberRow
  <2> QED
    BY <1>2, <2>2, <2>4, <2>5, <2>6 DEF OrgInvariant, Admins
<1>3. CASE r.op = "discard" /\ template' = [template EXCEPT ![n] = NoTemplate]
           /\ Served(c, ofTemplate)
           /\ member' = [u \in Users |-> IF member[u].template = n
                                         THEN [member[u] EXCEPT !.template = "none"]
                                         ELSE member[u]]
  <2>1. n \in Templates
    BY <1>1, <1>3 DEF CallSound
  <2>2. /\ call' \in [Callers -> CallRow] /\ CallsSound'
        /\ \A x \in Callers : call'[x].pc = "checked" => call'[x] = call[x] /\ x \notin ofTemplate
    BY <1>1, <1>3, ServedCalls
  <2>3. NoTemplate \in TemplateRow /\ template' \in [Templates -> TemplateRow]
    BY <1>1, <1>3, TemplateRows
  <2>4. ASSUME NEW u \in Users
        PROVE  /\ member'[u] \in MemberRow /\ member'[u].role = member[u].role
               /\ member'[u].template # n
               /\ member'[u].template \in {member[u].template, "none"}
    BY <1>1, <1>3, <2>1 DEF MemberRow
  <2>5. OrgTypeOK'
    BY <1>1, <1>3, <2>2, <2>3, <2>4 DEF OrgInvariant, OrgTypeOK
  <2>6. RowsThere'
    BY <1>1, <1>3, <2>1, <2>2, <2>4 DEF OrgInvariant, RowsThere, RowsOf, CallsSound, CallSound, CallRow
  <2>7. TemplatesExist'
    BY <1>1, <1>3, <2>4 DEF OrgInvariant, TemplatesExist, MemberRow
  <2> QED
    BY <2>2, <2>4, <2>5, <2>6, <2>7 DEF OrgInvariant, Admins
<1> QED
  BY <1>2, <1>3 DEF WriteRole

\* What deletes the projects, and what ends without a write, changes no member.
LEMMA EndsKeep ==
  ASSUME OrgInvariant, NEW c \in Callers, WriteInitialize(c) \/ Abandon(c)
  PROVE  OrgInvariant' /\ (KeepsAnAdmin => KeepsAnAdmin')
<1>1. UNCHANGED <<org, member, template, calls, miscounted>> /\ Served(c, {})
  BY DEF WriteInitialize, Abandon
<1>2. project' \in [Projects -> {"none", "idle", "busy"}]
  BY DEF WriteInitialize, Abandon, OrgInvariant, OrgTypeOK
<1>3. /\ call' \in [Callers -> CallRow] /\ CallsSound'
      /\ \A x \in Callers : call'[x].pc = "checked" => call'[x] = call[x]
  BY <1>1, ServedCalls DEF OrgInvariant, OrgTypeOK
<1>4. OrgTypeOK' /\ TemplatesExist'
  BY <1>1, <1>2, <1>3 DEF OrgInvariant, OrgTypeOK, TemplatesExist
<1>5. RowsThere'
  BY <1>1, <1>3 DEF OrgInvariant, RowsThere, RowsOf
<1> QED
  BY <1>1, <1>3, <1>4, <1>5 DEF OrgInvariant, KeepsAnAdmin, Admins

\* The deletion of the organization takes everything with it.
LEMMA WriteDeleteKeeps ==
  ASSUME OrgInvariant, NEW c \in Callers, WriteDelete(c)
  PROVE  OrgInvariant' /\ KeepsAnAdmin'
<1>1. /\ org' = "deleted" /\ member' = [u \in Users |-> Nobody]
      /\ template' = [n \in Templates |-> NoTemplate] /\ project' = [p \in Projects |-> "none"]
      /\ UNCHANGED <<calls, miscounted>> /\ Served(c, Callers)
  BY DEF WriteDelete
<1>2. /\ call' \in [Callers -> CallRow] /\ CallsSound'
      /\ \A x \in Callers : call'[x].pc # "checked"
  BY <1>1, ServedCalls DEF OrgInvariant, OrgTypeOK
<1>3. OrgTypeOK'
  BY <1>1, <1>2, MemberRows, TemplateRows DEF OrgInvariant, OrgTypeOK
<1>4. RowsThere' /\ TemplatesExist' /\ KeepsAnAdmin'
  BY <1>1, <1>2 DEF RowsThere, TemplatesExist, KeepsAnAdmin, Nobody
<1> QED
  BY <1>2, <1>3, <1>4 DEF OrgInvariant

\* Whoever creates the organization is its first administrator.
LEMMA CreateKeeps ==
  ASSUME OrgInvariant, NEW u \in Users, CreateOrganization(u)
  PROVE  OrgInvariant' /\ KeepsAnAdmin'
<1>1. member' = [member EXCEPT ![u] = [@ EXCEPT !.role = "admin"]]
  BY DEF CreateOrganization
<1>2. /\ org' = "live" /\ UNCHANGED <<template, project, call, calls, miscounted>>
      /\ member \in [Users -> MemberRow]
  BY DEF CreateOrganization, OrgInvariant, OrgTypeOK
<1>3. ASSUME NEW v \in Users
      PROVE  /\ member'[v] \in MemberRow /\ member'[v].template = member[v].template
             /\ member'[v].role \in {member[v].role, "admin"}
             /\ v = u => member'[v].role = "admin"
  BY <1>1, <1>2 DEF MemberRow, BasicRole
<1>4. OrgTypeOK' /\ CallsSound'
  BY <1>1, <1>2, <1>3 DEF OrgInvariant, OrgTypeOK, CallsSound
<1>5. RowsThere'
  BY <1>2, <1>3 DEF OrgInvariant, RowsThere, RowsOf, CallsSound, CallSound
<1>6. TemplatesExist'
  BY <1>2, <1>3 DEF OrgInvariant, TemplatesExist
<1>7. KeepsAnAdmin'
  BY <1>3 DEF KeepsAnAdmin, Admins
<1> QED
  BY <1>4, <1>5, <1>6, <1>7 DEF OrgInvariant

\* New templates, and what happens to projects, change no member.
LEMMA OthersKeep ==
  ASSUME OrgInvariant,
         \/ \E u \in Users, n \in Templates, g \in Grants : CreateRole(u, n, g)
         \/ ListRoles
         \/ \E p \in Projects : ProjectMoves(p)
  PROVE  OrgInvariant' /\ (KeepsAnAdmin => KeepsAnAdmin')
<1>1. UNCHANGED <<org, member, call, miscounted>>
  BY DEF CreateRole, ListRoles, ProjectMoves
<1>2. project' \in [Projects -> {"none", "idle", "busy"}] /\ calls' \in 0 .. MaxCalls
  BY DEF CreateRole, ListRoles, ProjectMoves, OrgInvariant, OrgTypeOK
<1>3. /\ template' \in [Templates -> TemplateRow]
      /\ \A n \in Templates : template[n].kind # "none" => template'[n].kind # "none"
  <2>1. CASE \E p \in Projects : ProjectMoves(p)
    BY <2>1 DEF ProjectMoves, OrgInvariant, OrgTypeOK
  <2>2. CASE ListRoles
    <3>1. PICK S \in SUBSET {n \in Defaults : template[n].kind = "none"} :
            template' = [n \in Templates |->
                           IF n \notin S THEN template[n]
                           ELSE [kind |-> "system",
                                 grants |-> IF n = FullDefault THEN Reserved ELSE {}]]
      BY <2>2 DEF ListRoles
    <3>2. ASSUME NEW n \in Templates
          PROVE  /\ template'[n] \in TemplateRow
                 /\ template[n].kind # "none" => template'[n].kind # "none"
      <4>1. CASE n \in S
        <5>. DEFINE g == IF n = FullDefault THEN Reserved ELSE {}
        <5>1. g \in SUBSET Reserved
          OBVIOUS
        <5>2. template'[n] = [kind |-> "system", grants |-> g]
          BY <3>1, <4>1
        <5>. HIDE DEF g
        <5>3. [kind |-> "system", grants |-> g] \in TemplateRow
          BY <5>1, TemplateRows
        <5> QED
          BY <5>2, <5>3
      <4>2. CASE n \notin S
        BY <3>1, <4>2 DEF OrgInvariant, OrgTypeOK
      <4> QED
        BY <4>1, <4>2
    <3> QED
      BY <3>1, <3>2
  <2>3. CASE \E u \in Users, n \in Templates, g \in Grants : CreateRole(u, n, g)
    <3>1. PICK n \in Templates, g \in Grants :
            template' = [template EXCEPT ![n] = [kind |-> "custom", grants |-> g]]
      BY <2>3 DEF CreateRole
    <3>2. /\ [kind |-> "custom", grants |-> g] \in TemplateRow
          /\ [kind |-> "custom", grants |-> g].kind # "none"
      BY TemplateRows
    <3> QED
      BY <3>1, <3>2 DEF OrgInvariant, OrgTypeOK
  <2> QED
    BY <2>1, <2>2, <2>3
<1>4. OrgTypeOK' /\ CallsSound'
  BY <1>1, <1>2, <1>3 DEF OrgInvariant, OrgTypeOK, CallsSound
<1>5. RowsThere'
  BY <1>1, <1>3 DEF OrgInvariant, OrgTypeOK, RowsThere, RowsOf, CallRow
<1>6. TemplatesExist'
  BY <1>1, <1>3 DEF OrgInvariant, OrgTypeOK, TemplatesExist, MemberRow
<1> QED
  BY <1>1, <1>4, <1>5, <1>6 DEF OrgInvariant, KeepsAnAdmin, Admins

\* Every step keeps the invariant.
LEMMA OrgSteps == OrgInvariant /\ [OrgNext]_orgVars => OrgInvariant'
<1>. SUFFICES ASSUME OrgInvariant, [OrgNext]_orgVars PROVE OrgInvariant'
  OBVIOUS
<1>t. OrgTypeOK
  BY DEF OrgInvariant
<1>1. CASE UNCHANGED orgVars
  BY <1>1 DEF orgVars, OrgInvariant, OrgTypeOK, CallsSound, RowsThere, RowsOf, TemplatesExist
<1>2. ASSUME NEW u \in Users, CreateOrganization(u) PROVE OrgInvariant'
  BY <1>2, CreateKeeps
<1>3. CASE \/ \E u \in Users, n \in Templates, g \in Grants : CreateRole(u, n, g)
           \/ ListRoles
           \/ \E p \in Projects : ProjectMoves(p)
  BY <1>3, OthersKeep
<1>4. ASSUME NEW c \in Callers, Requested(c) PROVE OrgInvariant'
  BY <1>4, BeginsKeeps
<1>5. ASSUME NEW c \in Callers, NEW u \in Users, NEW v \in Users, NEW rank \in BasicRole \ {"none"},
             NEW n \in Templates \cup {"none"},
             AddMember(c, u, v, rank, n) \/ UpdateMember(c, u, v, rank, n)
      PROVE  OrgInvariant'
  BY <1>t, <1>4, <1>5, BeginsSound
<1>6. ASSUME NEW c \in Callers, NEW u \in Users, NEW v \in Users, RemoveMember(c, u, v)
      PROVE  OrgInvariant'
  BY <1>t, <1>4, <1>6, BeginsSound
<1>7. ASSUME NEW c \in Callers, NEW u \in Users, NEW n \in Templates,
             DeleteRole(c, u, n) \/ (\E g \in Grants : UpdateRole(c, u, n, g))
      PROVE  OrgInvariant'
  BY <1>t, <1>4, <1>7, BeginsSound
<1>8. ASSUME NEW c \in Callers, NEW u \in Users, Initialize(c, u) \/ DeleteOrganization(c, u)
      PROVE  OrgInvariant'
  BY <1>t, <1>4, <1>8, BeginsSound
<1>9. ASSUME NEW c \in Callers,
             WriteMember(c) \/ WriteRole(c) \/ WriteInitialize(c) \/ WriteDelete(c) \/ Abandon(c)
      PROVE  OrgInvariant'
  BY <1>9, WriteMemberKeeps, WriteRoleKeeps, EndsKeep, WriteDeleteKeeps
<1> QED
  BY <1>1, <1>2, <1>3, <1>5, <1>6, <1>7, <1>8, <1>9 DEF OrgNext

-----------------------------------------------------------------------------
(* The last administrator.                                                  *)

\* A demotion or a removal that leaves no administrator was decided on a role or a count
\* that no longer held.
LEMMA WriteMemberSpares ==
  ASSUME OrgInvariant, NEW c \in Callers, WriteMember(c), ~miscounted'
  PROVE  Admins # {} => Admins' # {}
<1>. DEFINE r == call[c]
            v == r.user
<1>1. /\ member \in [Users -> MemberRow] /\ r \in CallRow /\ CallSound(r) /\ r.pc = "checked"
      /\ r.op \in {"add", "assign", "remove"} /\ v \in Users
  BY DEF OrgInvariant, OrgTypeOK, WriteMember, CallsSound, CallSound
<1>2. \A u \in Users \ {v} : member'[u] = member[u]
  BY <1>1 DEF WriteMember
<1>3. CASE member[v].role # "admin" \/ member'[v].role = "admin"
  BY <1>2, <1>3 DEF Admins
<1>4. CASE member[v].role = "admin" /\ member'[v].role # "admin"
  <2>1. r.op # "add"
    BY <1>4 DEF WriteMember
  <2>2. r.old.role = "admin" /\ r.admins = AdminCount
    BY <1>1, <1>4, <2>1 DEF WriteMember, Miscounts
  <2>3. r.role # "admin"
    <3>1. CASE r.op = "assign"
      <4>1. member'[v] = Assigned(v, r)
        BY <1>1, <3>1 DEF WriteMember
      <4> QED
        BY <1>4, <2>2, <4>1 DEF Assigned
    <3>2. CASE r.op = "remove"
      BY <1>1, <3>2 DEF CallSound
    <3> QED
      BY <1>1, <2>1, <3>1, <3>2
  <2>4. AdminCount > 1
    BY <1>1, <2>1, <2>2, <2>3 DEF CallSound
  <2>5. IsFiniteSet(Admins) /\ v \in Admins
    BY <1>1, <1>4, FS_Subset DEF Admins
  <2>6. Cardinality(Admins \ {v}) = AdminCount - 1
    BY <2>5, FS_RemoveElement DEF AdminCount
  <2>7. Admins \ {v} # {}
    <3>1. Cardinality(Admins \ {v}) # 0
      BY <2>4, <2>6, CountType
    <3> QED
      BY <3>1, FS_EmptySet, Zenon
  <2> QED
    BY <1>2, <2>7 DEF Admins
<1> QED
  BY <1>3, <1>4

\* Every other step leaves the administrators there are.
LEMMA AdminSteps ==
  OrgInvariant /\ KeepsAnAdmin /\ [OrgNext]_orgVars => KeepsAnAdmin'
<1>. SUFFICES ASSUME OrgInvariant, KeepsAnAdmin, [OrgNext]_orgVars PROVE KeepsAnAdmin'
  OBVIOUS
<1>t. OrgTypeOK
  BY DEF OrgInvariant
<1>1. CASE UNCHANGED orgVars
  BY <1>1 DEF orgVars, KeepsAnAdmin, Admins
<1>2. ASSUME NEW u \in Users, CreateOrganization(u) PROVE KeepsAnAdmin'
  BY <1>2, CreateKeeps
<1>3. CASE \/ \E u \in Users, n \in Templates, g \in Grants : CreateRole(u, n, g)
           \/ ListRoles
           \/ \E p \in Projects : ProjectMoves(p)
  BY <1>3, OthersKeep
<1>4. ASSUME NEW c \in Callers, Requested(c) PROVE KeepsAnAdmin'
  BY <1>4, BeginsKeeps
<1>5. ASSUME NEW c \in Callers, NEW u \in Users, NEW v \in Users, NEW rank \in BasicRole \ {"none"},
             NEW n \in Templates \cup {"none"},
             AddMember(c, u, v, rank, n) \/ UpdateMember(c, u, v, rank, n)
      PROVE  KeepsAnAdmin'
  BY <1>t, <1>4, <1>5, BeginsSound
<1>6. ASSUME NEW c \in Callers, NEW u \in Users, NEW v \in Users, RemoveMember(c, u, v)
      PROVE  KeepsAnAdmin'
  BY <1>t, <1>4, <1>6, BeginsSound
<1>7. ASSUME NEW c \in Callers, NEW u \in Users, NEW n \in Templates,
             DeleteRole(c, u, n) \/ (\E g \in Grants : UpdateRole(c, u, n, g))
      PROVE  KeepsAnAdmin'
  BY <1>t, <1>4, <1>7, BeginsSound
<1>8. ASSUME NEW c \in Callers, NEW u \in Users, Initialize(c, u) \/ DeleteOrganization(c, u)
      PROVE  KeepsAnAdmin'
  BY <1>t, <1>4, <1>8, BeginsSound
<1>9. ASSUME NEW c \in Callers, WriteMember(c) PROVE KeepsAnAdmin'
  <2>1. UNCHANGED org /\ (miscounted => miscounted')
    BY <1>9 DEF WriteMember, Miscounts
  <2> QED
    BY <1>9, <2>1, WriteMemberSpares DEF KeepsAnAdmin
<1>10. ASSUME NEW c \in Callers, WriteRole(c) PROVE KeepsAnAdmin'
  <2>1. UNCHANGED <<org, miscounted>>
    BY <1>10 DEF WriteRole
  <2> QED
    BY <1>10, <2>1, WriteRoleKeeps DEF KeepsAnAdmin
<1>11. ASSUME NEW c \in Callers, WriteInitialize(c) \/ WriteDelete(c) \/ Abandon(c)
       PROVE  KeepsAnAdmin'
  BY <1>11, EndsKeep, WriteDeleteKeeps
<1> QED
  BY <1>1, <1>2, <1>3, <1>5, <1>6, <1>7, <1>8, <1>9, <1>10, <1>11 DEF OrgNext

-----------------------------------------------------------------------------

\* Every variable keeps its type, and the templates that members hold exist: a deletion of
\* one (delete_role) takes it from whoever holds it, also while requests that give it to
\* others are under way.
THEOREM MembersSound == OrgSpec => [](OrgTypeOK /\ TemplatesExist)
<1>1. OrgInit => OrgInvariant
  BY OrgStart
<1>2. OrgInvariant => OrgTypeOK /\ TemplatesExist
  BY DEF OrgInvariant
<1> QED
  BY <1>1, <1>2, OrgSteps, PTL DEF OrgSpec

\* The organization keeps an administrator, for any number of users and requests, unless a
\* demotion or a removal was decided on what another request has changed since.
THEOREM AdminKept == OrgSpec => []KeepsAnAdmin
<1>1. OrgInit => OrgInvariant /\ KeepsAnAdmin
  BY OrgStart
<1>2. OrgInvariant /\ KeepsAnAdmin /\ [OrgNext]_orgVars => OrgInvariant' /\ KeepsAnAdmin'
  BY OrgSteps, AdminSteps
<1> QED
  BY <1>1, <1>2, PTL DEF OrgSpec

-----------------------------------------------------------------------------
(* Projects.                                                               *)

\* c reads or writes the summary of t.
Writing(c, t) == order[c].pc \in {"read", "write"} /\ TypeOfOrder(c) = t
\* An order knows what it is to do, and has looked at unused assessments only.
OrderSound(o) ==
  /\ o.pc \in {"ensure", "insert", "read", "write", "start"} => o.todo # <<>>
  /\ o.pc \in {"upsert", "adopt"} => o.todo # <<>> \/ o.op = "templates"
  /\ o.pc = "write" => o.rows <= 1
  /\ \A t \in Types : \A row \in o.looked[t] : Unused(row)
\* Whoever leaves progress behind the tasks, or the summary behind the assessment, is still
\* at it.
Behind(t) == Len(summary[t]) # 1 \/ summary[t][1] # [level |-> Latest(t).level, progress |-> Latest(t).progress]
TypeSound(t) ==
  /\ Len(assessment[t]) <= 1
  /\ Exists(t) /\ Latest(t).working => Latest(t).done < Total
  /\ Exists(t) /\ t \notin torn =>
       /\ Latest(t).progress # Latest(t).done =>
            \E c \in Clients : Writing(c, t) /\ order[c].op = "finish"
       /\ Behind(t) => \E c \in Clients : Writing(c, t)
ProjInvariant ==
  ProjTypeOK /\ (\A c \in Clients : OrderSound(order[c])) /\ \A t \in Types : TypeSound(t)

-----------------------------------------------------------------------------
\* The rows have the types of the tables.
LEMMA ProjFacts ==
  ASSUME ProjInvariant
  PROVE  /\ \A t \in Types : /\ Exists(t) => Len(assessment[t]) = 1 /\ Latest(t) = assessment[t][1]
                             /\ Exists(t) => Latest(t) \in AssessmentRow
         /\ \A c \in Clients : order[c] \in OrderRow /\ OrderSound(order[c])
<1>1. ASSUME NEW t \in Types, Exists(t)
      PROVE  Len(assessment[t]) = 1 /\ Latest(t) = assessment[t][1] /\ Latest(t) \in AssessmentRow
  <2>1. assessment[t] \in Seq(AssessmentRow) /\ assessment[t] # <<>>
    BY <1>1 DEF ProjInvariant, ProjTypeOK, Exists
  <2>2. Len(assessment[t]) = 1 /\ assessment[t][1] \in AssessmentRow
    <3>1. Len(assessment[t]) \in Nat \ {0}
      BY <2>1, EmptySeq
    <3>2. Len(assessment[t]) <= 1
      BY DEF ProjInvariant, TypeSound
    <3> DEFINE n == Len(assessment[t])
    <3>3. n \in Nat \ {0} /\ n <= 1
      BY <3>1, <3>2
    <3> HIDE DEF n
    <3>4. n = 1
      BY <3>3
    <3> QED BY <2>1, <3>4, ElementOfSeq DEF n
  <2> QED BY <2>2 DEF Latest
<1>2. \A c \in Clients : order[c] \in OrderRow /\ OrderSound(order[c])
  BY DEF ProjInvariant, ProjTypeOK
<1> QED BY <1>1, <1>2

\* The first of what is still to be ensured.
LEMMA TodoFacts ==
  ASSUME ProjInvariant, NEW c \in Clients, order[c].todo # <<>>
  PROVE  /\ TypeOfOrder(c) \in Types /\ LevelOfOrder(c) \in Levels
         /\ Head(order[c].todo) \in Config
<1>1. order[c].todo \in Seq(Config) /\ order[c].todo # <<>>
  BY ProjFacts DEF OrderRow
<1>2. Head(order[c].todo) \in Config
  BY <1>1
<1> QED BY <1>2 DEF TypeOfOrder, LevelOfOrder, Config

\* A sequence of one is not empty.
LEMMA OneIsThere ==
  ASSUME NEW S, NEW s \in Seq(S), Len(s) = 1
  PROVE  s # <<>>
  OBVIOUS

\* The latest assessment of a type is replaced by another row.
LEMMA LatestWritten ==
  ASSUME ProjInvariant, NEW t \in Types, NEW row \in AssessmentRow, Exists(t),
         assessment' = WithLatest(t, row)
  PROVE  /\ assessment' \in [Types -> Seq(AssessmentRow)]
         /\ Len(assessment'[t]) = 1 /\ Exists(t)' /\ Latest(t)' = row
         /\ \A u \in Types : u # t => assessment'[u] = assessment[u]
<1>1. Len(assessment[t]) = 1 /\ assessment \in [Types -> Seq(AssessmentRow)]
  BY ProjFacts DEF ProjInvariant, ProjTypeOK
<1> DEFINE new == [assessment[t] EXCEPT ![1] = row]
<1>2. new \in Seq(AssessmentRow) /\ Len(new) = 1 /\ new[1] = row
  <2>1. assessment[t] \in Seq(AssessmentRow) /\ 1 \in 1 .. Len(assessment[t])
    BY <1>1
  <2>2. new \in Seq(AssessmentRow) /\ Len(new) = Len(assessment[t])
    BY <2>1, ExceptSeq
  <2>3. new[1] = row
    BY <2>1, ExceptSeq
  <2> QED BY <1>1, <2>2, <2>3
<1>3. assessment' = [assessment EXCEPT ![t] = new]
  BY <1>1 DEF WithLatest
<1> HIDE DEF new
<1>4. assessment' \in [Types -> Seq(AssessmentRow)] /\ assessment'[t] = new
  BY <1>1, <1>2, <1>3
<1>5. \A u \in Types : u # t => assessment'[u] = assessment[u]
  BY <1>1, <1>3
<1>6. Exists(t)' /\ Latest(t)' = row
  <2>1. assessment'[t] # <<>> /\ Latest(t)' = assessment'[t][1]
    <3>1. new # <<>>
      BY <1>2, OneIsThere
    <3>2. assessment'[t] # <<>>
      BY <1>4, <3>1
    <3>3. Len(assessment'[t]) = 1 /\ Latest(t)' = assessment'[t][Len(assessment'[t])]
      BY <1>2, <1>4 DEF Latest
    <3> QED BY <3>2, <3>3
  <2> QED BY <1>2, <1>4, <2>1 DEF Exists
<1> QED BY <1>2, <1>4, <1>5, <1>6

\* One order is replaced by another.
LEMMA OrderSet ==
  ASSUME ProjInvariant, NEW c \in Clients, NEW o \in OrderRow, OrderSound(o), Does(c, o)
  PROVE  /\ order' \in [Clients -> OrderRow] /\ order'[c] = o
         /\ \A d \in Clients : d # c => order'[d] = order[d]
         /\ \A d \in Clients : OrderSound(order'[d])
<1>1. /\ order' \in [Clients -> OrderRow] /\ order'[c] = o
      /\ \A d \in Clients : d # c => order'[d] = order[d]
  BY DEF Does, ProjInvariant, ProjTypeOK
<1>2. \A d \in Clients : OrderSound(order'[d])
  <2> TAKE d \in Clients
  <2>1. OrderSound(order[d])
    BY DEF ProjInvariant
  <2>2. CASE d = c
    BY <1>1, <2>2
  <2>3. CASE d # c
    BY <1>1, <2>1, <2>3
  <2> QED BY <2>2, <2>3
<1> QED BY <1>1, <1>2

\* A type whose summary is left alone, and whose assessment keeps its level and progress.
LEMMA TypeKeeps ==
  ASSUME ProjInvariant, NEW t \in Types, summary'[t] = summary[t], torn \subseteq torn',
         Len(assessment'[t]) <= 1,
         Exists(t)' => /\ Exists(t)
                       /\ Latest(t)'.level = Latest(t).level /\ Latest(t)'.progress = Latest(t).progress
                       /\ Latest(t)'.done = Latest(t).done \/ Latest(t)'.done = Latest(t)'.progress \/ t \in torn'
                       /\ Latest(t)'.working => Latest(t)'.done < Total,
         \A c \in Clients : Writing(c, t) /\ t \notin torn' => Writing(c, t)' /\ order'[c].op = order[c].op
  PROVE  TypeSound(t)'
<1>1. TypeSound(t)
  BY DEF ProjInvariant
<1>2. CASE ~ Exists(t)'
  BY <1>2 DEF TypeSound
<1>3. CASE Exists(t)'
  <2>1. Exists(t) /\ (t \notin torn' => t \notin torn)
    BY <1>3
  <2>2. Behind(t)' = Behind(t)
    BY <1>3 DEF Behind
  <2>3. ASSUME t \notin torn', Latest(t)'.progress # Latest(t)'.done
        PROVE  \E c \in Clients : Writing(c, t)' /\ order'[c].op = "finish"
    <3>1. Latest(t).progress # Latest(t).done
      BY <1>3, <2>3
    <3>2. PICK c \in Clients : Writing(c, t) /\ order[c].op = "finish"
      BY <1>1, <2>1, <2>3, <3>1 DEF TypeSound
    <3> QED BY <2>3, <3>2
  <2>4. ASSUME t \notin torn', Behind(t)'
        PROVE  \E c \in Clients : Writing(c, t)'
    <3>1. PICK c \in Clients : Writing(c, t)
      BY <1>1, <2>1, <2>2, <2>4 DEF TypeSound
    <3> QED BY <2>4, <3>1
  <2> QED BY <1>3, <2>3, <2>4 DEF TypeSound
<1> QED BY <1>2, <1>3

\* A client moves on, and no assessment changes: if it leaves a summary unwritten, that is torn.
LEMMA OrderMoves ==
  ASSUME ProjInvariant, NEW c \in Clients, NEW o \in OrderRow, OrderSound(o), Does(c, o),
         \/ order[c].pc \notin {"read", "write"}
         \/ o.pc = "write" /\ o.op = order[c].op /\ o.todo = order[c].todo
         \/ TypeOfOrder(c) \in torn',
         UNCHANGED <<assessment, summary>>, torn \subseteq torn', torn' \subseteq Types,
         proj' \in {"none", "active", "archived", "deleted"}, orders' \in 0 .. MaxOrders
  PROVE  ProjInvariant'
<1>1. /\ order' \in [Clients -> OrderRow] /\ order'[c] = o
      /\ \A d \in Clients : d # c => order'[d] = order[d]
      /\ \A d \in Clients : OrderSound(order'[d])
  BY OrderSet
<1>2. ProjTypeOK'
  BY <1>1 DEF ProjInvariant, ProjTypeOK
<1>3. ASSUME NEW t \in Types PROVE TypeSound(t)'
  <2>1. Len(assessment'[t]) <= 1 /\ summary'[t] = summary[t]
    BY DEF ProjInvariant, TypeSound
  <2>2. Exists(t)' = Exists(t) /\ Latest(t)' = Latest(t) /\ (Exists(t) /\ Latest(t).working => Latest(t).done < Total)
    BY DEF Exists, Latest, ProjInvariant, TypeSound
  <2>3. \A d \in Clients : Writing(d, t) /\ t \notin torn' => Writing(d, t)' /\ order'[d].op = order[d].op
    BY <1>1 DEF Writing, TypeOfOrder
  <2> QED BY <2>1, <2>2, <2>3, TypeKeeps
<1> QED BY <1>1, <1>2, <1>3 DEF ProjInvariant

\* An order that begins.
Order(op, pc, todo) == [NoOrder EXCEPT !.op = op, !.pc = pc, !.todo = todo]
\* It is sound: nothing has been looked at or read.
LEMMA Begun ==
  ASSUME NEW op \in {"create", "demo", "update", "enable", "direct", "templates", "finish", "restart"},
         NEW pc \in {"upsert", "ensure", "insert", "read"}, NEW todo \in Seq(Config),
         todo # <<>> \/ (pc = "upsert" /\ op = "templates")
  PROVE  /\ Order(op, pc, todo) \in OrderRow /\ OrderSound(Order(op, pc, todo))
         /\ Order(op, pc, todo).pc = pc /\ Order(op, pc, todo).op = op
         /\ Order(op, pc, todo).todo = todo
<1> DEFINE o == Order(op, pc, todo)
<1>1. o = [NoOrder EXCEPT !.op = op, !.pc = pc, !.todo = todo]
  BY DEF Order
<1> HIDE DEF o
<1>2. o = [op |-> op, pc |-> pc, todo |-> todo, looked |-> NoLook, progress |-> 0, rows |-> 0]
  BY ONLY <1>1 DEF NoOrder
<1>3. o \in OrderRow
  BY <1>2 DEF OrderRow, NoLook
<1>4. OrderSound(o) /\ o.pc = pc /\ o.op = op /\ o.todo = todo
  BY <1>2 DEF OrderSound, NoLook
<1> QED BY <1>3, <1>4 DEF o

\* No order.
LEMMA NoOrderFacts == NoOrder \in OrderRow /\ OrderSound(NoOrder) /\ NoOrder.pc = "idle"
BY DEF NoOrder, OrderRow, OrderSound, NoLook

\* No project.
LEMMA ProjInvariantInit == ProjInit => ProjInvariant
<1> SUFFICES ASSUME ProjInit PROVE ProjInvariant
  OBVIOUS
<1>1. \A t \in Types : assessment[t] = <<>> /\ Len(assessment[t]) = 0
  BY EmptySeq DEF ProjInit, Nothing
<1>2. ProjTypeOK
  BY NoOrderFacts DEF ProjInit, ProjTypeOK, Nothing
<1>3. \A t \in Types : TypeSound(t)
  <2> TAKE t \in Types
  <2>1. ~ Exists(t) /\ Len(assessment[t]) = 0
    BY <1>1 DEF Exists
  <2> QED BY <2>1 DEF TypeSound
<1> QED BY <1>2, <1>3, NoOrderFacts DEF ProjInvariant, ProjInit

-----------------------------------------------------------------------------
\* The steps of a request that leave every assessment and summary alone.
LEMMA BeginKeeps ==
  ASSUME ProjInvariant, NEW c \in Clients,
         NEW op \in {"create", "demo", "update", "enable", "direct", "templates"},
         NEW pc \in {"upsert", "ensure", "insert"}, NEW todo \in Seq(Config),
         todo # <<>> \/ (pc = "upsert" /\ op = "templates"), Begin(c, op, pc, todo)
  PROVE  ProjInvariant'
<1>1. Order(op, pc, todo) \in OrderRow /\ OrderSound(Order(op, pc, todo))
  BY Begun
<1>2. Does(c, Order(op, pc, todo)) /\ order[c].pc = "idle"
  BY DEF Begin, At, Order
<1>3. /\ UNCHANGED <<assessment, summary, torn>> /\ torn' \subseteq Types
      /\ proj' \in {"none", "active", "archived", "deleted"} /\ orders' \in 0 .. MaxOrders
  BY DEF Begin, ProjInvariant, ProjTypeOK
<1> QED BY <1>1, <1>2, <1>3, OrderMoves

\* What a project may be created with.
LEMMA ConfigsAreTodo == \A todo \in Configs : todo \in Seq(Config) /\ todo # <<>>
<1> TAKE todo \in Configs
<1>1. CASE \E a \in Config : todo = <<a>>
  BY <1>1
<1>2. CASE \E a, b \in Config : todo = <<a, b>>
  BY <1>2
<1> QED BY <1>1, <1>2 DEF Configs

\* Every request that begins.
LEMMA RequestsBegin ==
  ASSUME ProjInvariant, NEW c \in Clients,
         \/ \E todo \in Configs : BeginCreate(c, todo) \/ BeginUpdate(c, todo)
         \/ \E config \in Config : BeginEnable(c, config) \/ BeginDirect(c, config)
         \/ BeginDemo(c) \/ BeginTemplates(c)
  PROVE  ProjInvariant'
<1>1. ASSUME NEW todo \in Configs, BeginCreate(c, todo) \/ BeginUpdate(c, todo) PROVE ProjInvariant'
  <2>1. todo \in Seq(Config) /\ todo # <<>>
    BY ConfigsAreTodo
  <2> QED BY <1>1, <2>1, BeginKeeps DEF BeginCreate, BeginUpdate
<1>2. ASSUME NEW config \in Config, BeginEnable(c, config) \/ BeginDirect(c, config) PROVE ProjInvariant'
  <2>1. <<config>> \in Seq(Config) /\ <<config>> # <<>>
    OBVIOUS
  <2> QED BY <1>2, <2>1, BeginKeeps DEF BeginEnable, BeginDirect
<1>3. CASE BeginDemo(c)
  <2>1. Demo \in Config
    BY DEF Demo, Config
  <2>2. <<Demo>> \in Seq(Config) /\ <<Demo>> # <<>>
    BY <2>1
  <2> QED BY <1>3, <2>2, BeginKeeps DEF BeginDemo
<1>4. CASE BeginTemplates(c)
  BY <1>4, BeginKeeps, EmptySeq DEF BeginTemplates
<1> QED BY <1>1, <1>2, <1>3, <1>4

\* The next configuration of an order, or its end.
LEMMA NextOrder ==
  ASSUME ProjInvariant, NEW c \in Clients, order[c].todo # <<>>, NextConfig(c)
  PROVE  \E o \in OrderRow : OrderSound(o) /\ Does(c, o)
<1> DEFINE o == order[c]
<1>1. o \in OrderRow /\ OrderSound(o)
  BY ProjFacts
<1>2. CASE o.op = "demo"
  <2> DEFINE n == [o EXCEPT !.pc = "start"]
  <2>1. n \in OrderRow /\ OrderSound(n)
    BY <1>1 DEF OrderRow, OrderSound
  <2>2. Does(c, n)
    BY <1>2 DEF NextConfig
  <2> QED BY <2>1, <2>2
<1>3. CASE o.op # "demo" /\ Len(o.todo) > 1
  <2> DEFINE rest == Tail(o.todo)
             n == [o EXCEPT !.pc = "ensure", !.todo = rest]
  <2>1. Does(c, n)
    BY <1>3 DEF NextConfig
  <2>2. rest \in Seq(Config) /\ rest # <<>>
    <3>1. o.todo \in Seq(Config)
      BY <1>1 DEF OrderRow
    <3>2. rest \in Seq(Config) /\ Len(rest) = Len(o.todo) - 1 /\ Len(o.todo) \in Nat
      BY <3>1, HeadTailProperties, LenProperties
    <3> DEFINE count == Len(o.todo)
    <3>3. count \in Nat /\ count > 1 /\ Len(rest) = count - 1
      BY <1>3, <3>2
    <3> HIDE DEF count
    <3>4. count - 1 # 0
      BY <3>3
    <3>5. Len(rest) # 0
      BY <3>3, <3>4
    <3> QED BY <3>2, <3>5, EmptySeq
  <2> HIDE DEF rest
  <2>3. n \in OrderRow /\ OrderSound(n)
    BY <1>1, <2>2 DEF OrderRow, OrderSound
  <2> QED BY <2>1, <2>3
<1>4. CASE o.op # "demo" /\ ~ (Len(o.todo) > 1)
  BY <1>4, NoOrderFacts DEF NextConfig
<1> QED BY <1>2, <1>3, <1>4

\* A configuration that is there, or refused, is passed over.
LEMMA PassesOn ==
  ASSUME ProjInvariant, NEW c \in Clients, order[c].pc \in {"insert", "ensure"}, NextConfig(c),
         UNCHANGED <<assessment, summary, torn>>,
         proj' \in {"none", "active", "archived", "deleted"}, orders' = orders
  PROVE  ProjInvariant'
<1>1. order[c].todo # <<>>
  BY ProjFacts DEF OrderSound
<1>2. PICK o \in OrderRow : OrderSound(o) /\ Does(c, o)
  BY <1>1, NextOrder
<1>3. torn' \subseteq Types /\ orders' \in 0 .. MaxOrders
  BY DEF ProjInvariant, ProjTypeOK
<1> QED BY <1>2, <1>3, OrderMoves

\* The update of the templates looks at what is unused.
LEMMA UpsertKeeps ==
  ASSUME ProjInvariant, NEW c \in Clients, Upsert(c)
  PROVE  ProjInvariant'
<1> DEFINE looked == [t \in Types |-> {row \in Rows(t) : Unused(row)}]
           o == [order[c] EXCEPT !.pc = "adopt", !.looked = looked]
<1>1. Does(c, o) /\ order[c].pc = "upsert"
  BY DEF Upsert, At
<1>2. looked \in [Types -> SUBSET AssessmentRow] /\ \A t \in Types : \A row \in looked[t] : Unused(row)
  <2>1. ASSUME NEW t \in Types PROVE Rows(t) \subseteq AssessmentRow
    <3>1. assessment[t] \in Seq(AssessmentRow)
      BY DEF ProjInvariant, ProjTypeOK
    <3> QED BY <3>1, LenProperties DEF Rows
  <2> QED BY <2>1
<1> HIDE DEF looked
<1>3. o \in OrderRow /\ OrderSound(o)
  BY <1>1, <1>2, ProjFacts DEF OrderRow, OrderSound
<1> HIDE DEF o
<1>4. /\ UNCHANGED <<assessment, summary, torn, orders>> /\ torn' \subseteq Types
      /\ proj' \in {"none", "active", "archived", "deleted"} /\ orders' \in 0 .. MaxOrders
  BY DEF Upsert, ProjInvariant, ProjTypeOK
<1> QED BY <1>1, <1>3, <1>4, OrderMoves

\* A configuration that is missing is created; one of another level is refused.
LEMMA EnsureKeeps ==
  ASSUME ProjInvariant, NEW c \in Clients, Ensure(c)
  PROVE  ProjInvariant'
<1>1. /\ order[c].pc = "ensure" /\ order[c] \in OrderRow /\ OrderSound(order[c])
      /\ UNCHANGED <<proj, assessment, summary, orders, torn>> /\ torn' \subseteq Types
      /\ proj' \in {"none", "active", "archived", "deleted"} /\ orders' \in 0 .. MaxOrders
  BY ProjFacts DEF Ensure, At, ProjInvariant, ProjTypeOK
<1>2. ASSUME NEW pc \in {"upsert", "insert"}, Then(c, pc) PROVE ProjInvariant'
  <2> DEFINE o == [order[c] EXCEPT !.pc = pc]
  <2>1. o \in OrderRow /\ OrderSound(o)
    BY <1>1 DEF OrderRow, OrderSound
  <2>2. Does(c, o)
    BY <1>2 DEF Then
  <2> HIDE DEF o
  <2> QED BY <1>1, <2>1, <2>2, OrderMoves
<1>3. CASE Does(c, NoOrder)
  BY <1>1, <1>3, NoOrderFacts, OrderMoves
<1>4. CASE NextConfig(c)
  BY <1>1, <1>4, PassesOn
<1>5. (\E pc \in {"upsert", "insert"} : Then(c, pc)) \/ Does(c, NoOrder) \/ NextConfig(c)
  BY DEF Ensure
<1> QED BY <1>2, <1>3, <1>4, <1>5

\* Two rows end the request, one is read with the progress that is shown.
LEMMA ReadSummaryKeeps ==
  ASSUME ProjInvariant, NEW c \in Clients, ReadSummary(c)
  PROVE  ProjInvariant'
<1> DEFINE t == TypeOfOrder(c)
           rows == Len(summary[t])
           progress == Shown(c, t)
           o == [order[c] EXCEPT !.pc = "write", !.rows = rows, !.progress = progress]
<1>1. /\ order[c].pc = "read" /\ order[c] \in OrderRow /\ OrderSound(order[c])
      /\ UNCHANGED <<proj, assessment, summary, orders>>
      /\ proj' \in {"none", "active", "archived", "deleted"} /\ orders' \in 0 .. MaxOrders
      /\ Exists(t)
  BY ProjFacts DEF ReadSummary, At, ProjInvariant, ProjTypeOK
<1>2. t \in Types
  BY <1>1, TodoFacts DEF OrderSound
<1>3. rows \in Nat /\ progress \in 0 .. Total
  <2>1. summary[t] \in Seq(SummaryRow)
    BY <1>2 DEF ProjInvariant, ProjTypeOK
  <2>2. Latest(t).done \in 0 .. Total
    BY <1>1, <1>2, ProjFacts DEF AssessmentRow
  <2> QED BY <2>1, <2>2, LenProperties DEF Shown
<1>4. CASE rows > 1
  <2>1. Does(c, NoOrder) /\ torn' = torn \cup {t}
    BY <1>4 DEF ReadSummary
  <2>2. torn' \subseteq Types
    BY <1>2, <2>1 DEF ProjInvariant, ProjTypeOK
  <2> QED BY <1>1, <2>1, <2>2, NoOrderFacts, OrderMoves
<1>5. CASE ~ (rows > 1)
  <2>1. Does(c, o) /\ torn' = torn
    BY <1>5 DEF ReadSummary
  <2> HIDE DEF rows, progress, t
  <2>2. o \in OrderRow /\ OrderSound(o) /\ o.pc = "write" /\ o.op = order[c].op /\ o.todo = order[c].todo
    <3>1. rows <= 1
      BY <1>3, <1>5
    <3>2. o \in OrderRow /\ o.pc = "write" /\ o.rows = rows /\ o.op = order[c].op
          /\ o.todo = order[c].todo /\ o.looked = order[c].looked
      BY <1>1, <1>3 DEF OrderRow
    <3> QED BY <1>1, <3>1, <3>2 DEF OrderSound
  <2> HIDE DEF o
  <2>3. torn' \subseteq Types
    BY <2>1 DEF ProjInvariant, ProjTypeOK
  <2> QED BY <1>1, <2>1, <2>2, <2>3, OrderMoves
<1> QED BY <1>4, <1>5

\* A connection that is lost tears what its request was about to write.
LEMMA CutKeeps ==
  ASSUME ProjInvariant, NEW c \in Clients, Cut(c)
  PROVE  ProjInvariant'
<1>1. /\ UNCHANGED <<proj, assessment, summary, orders>> /\ Does(c, NoOrder)
      /\ proj' \in {"none", "active", "archived", "deleted"} /\ orders' \in 0 .. MaxOrders
  BY DEF Cut, ProjInvariant, ProjTypeOK
<1>2. CASE order[c].pc \in {"read", "write"}
  <2>1. torn' = torn \cup {TypeOfOrder(c)} /\ TypeOfOrder(c) \in Types
    BY <1>2, ProjFacts, TodoFacts DEF Cut, OrderSound
  <2>2. torn' \subseteq Types
    BY <2>1 DEF ProjInvariant, ProjTypeOK
  <2> QED BY <1>1, <2>1, <2>2, NoOrderFacts, OrderMoves
<1>3. CASE order[c].pc \notin {"read", "write"}
  <2>1. torn' = torn /\ torn' \subseteq Types
    BY <1>3 DEF Cut, ProjInvariant, ProjTypeOK
  <2> QED BY <1>1, <1>3, <2>1, NoOrderFacts, OrderMoves
<1> QED BY <1>2, <1>3

-----------------------------------------------------------------------------
\* The first assessment of a type: its creator is to write the summary.
LEMMA InsertKeeps ==
  ASSUME ProjInvariant, NEW c \in Clients, InsertAssessment(c)
  PROVE  ProjInvariant'
<1> DEFINE row == Fresh(LevelOfOrder(c))
           o == [order[c] EXCEPT !.pc = "read"]
<1>1. /\ order[c].pc = "insert" /\ order[c] \in OrderRow /\ OrderSound(order[c])
      /\ UNCHANGED <<summary, orders, torn>>
      /\ proj' \in {"none", "active", "archived", "deleted"} /\ orders' \in 0 .. MaxOrders
  BY ProjFacts DEF InsertAssessment, At, ProjInvariant, ProjTypeOK
<1>2. PICK t \in Types : t = TypeOfOrder(c) /\ LevelOfOrder(c) \in Levels
  BY <1>1, TodoFacts DEF OrderSound
<1>3. CASE Exists(t)
  <2>1. NextConfig(c) /\ UNCHANGED assessment
    BY <1>2, <1>3 DEF InsertAssessment
  <2> QED BY <1>1, <2>1, PassesOn
<1>4. CASE ~ Exists(t)
  <2>1. assessment' = [assessment EXCEPT ![t] = Append(@, row)] /\ Does(c, o)
    BY <1>2, <1>4 DEF InsertAssessment, Then
  <2>2. row \in AssessmentRow /\ row.progress = 0 /\ row.done = 0 /\ ~ row.working
    BY <1>2 DEF Fresh, AssessmentRow
  <2>3. o \in OrderRow /\ OrderSound(o) /\ o.pc = "read" /\ o.todo = order[c].todo
    BY <1>1 DEF OrderRow, OrderSound
  <2> HIDE DEF row, o
  <2>4. /\ order' \in [Clients -> OrderRow] /\ order'[c] = o
        /\ \A d \in Clients : d # c => order'[d] = order[d]
        /\ \A d \in Clients : OrderSound(order'[d])
    BY <2>1, <2>3, OrderSet
  <2>5. /\ assessment' \in [Types -> Seq(AssessmentRow)] /\ assessment'[t] = <<row>>
        /\ \A u \in Types : u # t => assessment'[u] = assessment[u]
    <3>1. assessment \in [Types -> Seq(AssessmentRow)] /\ assessment[t] = <<>>
      BY <1>4 DEF Exists, ProjInvariant, ProjTypeOK
    <3>2. Append(assessment[t], row) = <<row>> /\ <<row>> \in Seq(AssessmentRow)
      BY <2>2, <3>1
    <3> QED BY <1>2, <2>1, <3>1, <3>2
  <2>6. Len(assessment'[t]) = 1 /\ Len(assessment'[t]) <= 1 /\ Latest(t)' = row
    <3>1. Len(assessment'[t]) = 1 /\ assessment'[t][1] = row
      BY <2>5
    <3>2. Latest(t)' = row
      BY <3>1 DEF Latest
    <3> QED BY <3>1, <3>2
  <2>7. ProjTypeOK'
    BY <1>1, <2>4, <2>5 DEF ProjInvariant, ProjTypeOK
  <2>8. TypeSound(t)'
    <3>1. Writing(c, t)'
      BY <1>2, <2>3, <2>4 DEF Writing, TypeOfOrder
    <3>2. Exists(t)' /\ Latest(t)'.working => Latest(t)'.done < Total
      BY <2>2, <2>6
    <3>3. Latest(t)'.progress = Latest(t)'.done
      BY <2>2, <2>6
    <3> QED BY <2>6, <3>1, <3>2, <3>3 DEF TypeSound
  <2>9. ASSUME NEW u \in Types, u # t PROVE TypeSound(u)'
    <3>1. /\ Len(assessment'[u]) <= 1 /\ summary'[u] = summary[u]
          /\ Exists(u)' = Exists(u) /\ Latest(u)' = Latest(u)
          /\ Exists(u) /\ Latest(u).working => Latest(u).done < Total
      BY <1>1, <2>5, <2>9 DEF Exists, Latest, ProjInvariant, TypeSound
    <3>2. \A d \in Clients : Writing(d, u) => Writing(d, u)' /\ order'[d].op = order[d].op
      BY <1>1, <2>4 DEF Writing, TypeOfOrder
    <3> QED BY <1>1, <3>1, <3>2, TypeKeeps
  <2>10. \A u \in Types : TypeSound(u)'
    BY <2>8, <2>9
  <2> QED BY <2>4, <2>7, <2>10 DEF ProjInvariant
<1> QED BY <1>3, <1>4

\* The tasks of an assessment that is rebuilt are new.
LEMMA RebuiltFacts ==
  ASSUME NEW row \in AssessmentRow
  PROVE  /\ Rebuilt(row) \in AssessmentRow
         /\ Rebuilt(row).level = row.level /\ Rebuilt(row).progress = row.progress
         /\ Rebuilt(row).done = 0 /\ ~ Rebuilt(row).working
<1>1. 0 \in 0 .. Total
  OBVIOUS
<1>2. Rebuilt(row) \in AssessmentRow
  BY <1>1 DEF Rebuilt, AssessmentRow
<1> QED BY <1>2 DEF Rebuilt, AssessmentRow

\* An update of the templates: what it rebuilds unseen is torn.
LEMMA AdoptKeeps ==
  ASSUME ProjInvariant, NEW c \in Clients, Adopt(c)
  PROVE  ProjInvariant'
<1>1. /\ order[c].pc = "adopt" /\ order[c] \in OrderRow /\ OrderSound(order[c])
      /\ UNCHANGED <<proj, summary, orders>>
  BY ProjFacts DEF Adopt, At
<1>2. PICK o \in OrderRow : OrderSound(o) /\ Does(c, o) /\ o.pc \notin {"read", "write"}
  <2> DEFINE insert == [order[c] EXCEPT !.pc = "insert", !.looked = NoLook]
             ensure == [order[c] EXCEPT !.pc = "ensure", !.looked = NoLook]
  <2>1. Does(c, NoOrder) \/ (order[c].op # "templates" /\ (Does(c, insert) \/ Does(c, ensure)))
    BY <1>1 DEF Adopt, OrderRow
  <2>2. order[c].op # "templates" => /\ insert \in OrderRow /\ OrderSound(insert)
                                     /\ ensure \in OrderRow /\ OrderSound(ensure)
    BY <1>1 DEF OrderRow, OrderSound, NoLook
  <2>3. insert.pc = "insert" /\ ensure.pc = "ensure"
    BY <1>1 DEF OrderRow
  <2> HIDE DEF insert, ensure
  <2> QED BY <2>1, <2>2, <2>3, NoOrderFacts
<1>3. /\ order' \in [Clients -> OrderRow] /\ order'[c] = o
      /\ \A d \in Clients : d # c => order'[d] = order[d]
      /\ \A d \in Clients : OrderSound(order'[d])
  BY <1>2, OrderSet
<1>4. /\ assessment' = [t \in Types |-> IF Adopted(c, t) THEN WithLatest(t, Rebuilt(Latest(t)))[t]
                                         ELSE assessment[t]]
      /\ torn' = torn \cup {t \in Types : Adopted(c, t) /\ Latest(t) \notin order[c].looked[t]}
  BY DEF Adopt
<1>5. ASSUME NEW t \in Types, Adopted(c, t)
      PROVE  /\ assessment'[t] \in Seq(AssessmentRow) /\ Exists(t)
             /\ Len(assessment'[t]) = 1 /\ Len(assessment'[t]) <= 1
             /\ Latest(t)' = Rebuilt(Latest(t))
  <2>1. Exists(t) /\ Len(assessment[t]) = 1 /\ Latest(t) \in AssessmentRow
    BY <1>5, ProjFacts DEF Adopted
  <2> DEFINE row == Rebuilt(Latest(t))
             new == [assessment[t] EXCEPT ![1] = row]
  <2>2. row \in AssessmentRow
    BY <2>1, RebuiltFacts
  <2> HIDE DEF row
  <2>3. assessment'[t] = new
    BY <1>4, <1>5, <2>1 DEF WithLatest, row, ProjInvariant, ProjTypeOK
  <2>4. assessment[t] \in Seq(AssessmentRow) /\ 1 \in 1 .. Len(assessment[t])
    BY <2>1 DEF ProjInvariant, ProjTypeOK
  <2>5. new \in Seq(AssessmentRow) /\ Len(new) = Len(assessment[t]) /\ new[1] = row
    BY <2>2, <2>4, ExceptSeq
  <2> HIDE DEF new
  <2> QED BY <2>1, <2>3, <2>5 DEF Latest, row
<1>6. \A t \in Types : ~ Adopted(c, t) => assessment'[t] = assessment[t]
  BY <1>4
<1>7. /\ assessment' \in [Types -> Seq(AssessmentRow)] /\ torn' \subseteq Types /\ torn \subseteq torn'
  <2>1. \A t \in Types : assessment'[t] \in Seq(AssessmentRow)
    BY <1>5, <1>6 DEF ProjInvariant, ProjTypeOK
  <2> QED BY <1>4, <2>1 DEF ProjInvariant, ProjTypeOK
<1>8. ProjTypeOK'
  BY <1>1, <1>3, <1>7 DEF ProjInvariant, ProjTypeOK
<1>9. ASSUME NEW t \in Types PROVE TypeSound(t)'
  <2>1. \A d \in Clients : Writing(d, t) => Writing(d, t)' /\ order'[d].op = order[d].op
    BY <1>1, <1>3 DEF Writing, TypeOfOrder
  <2>2. TypeSound(t)
    BY DEF ProjInvariant
  <2>3. CASE Adopted(c, t)
    <3>1. Latest(t) \in AssessmentRow /\ Latest(t)' = Rebuilt(Latest(t)) /\ Len(assessment'[t]) <= 1 /\ Exists(t)
      BY <1>5, <2>3, ProjFacts
    <3>2. /\ Latest(t)'.level = Latest(t).level /\ Latest(t)'.progress = Latest(t).progress
          /\ Latest(t)'.done = 0 /\ ~ Latest(t)'.working
      BY <3>1, RebuiltFacts
    <3>3. t \notin torn' => Unused(Latest(t))
      BY <1>1, <1>4, <2>3 DEF OrderSound
    <3>4. Latest(t)'.done = Latest(t)'.progress \/ t \in torn'
      BY <3>2, <3>3 DEF Unused
    <3> QED BY <1>1, <1>7, <2>1, <3>1, <3>2, <3>4, TypeKeeps
  <2>4. CASE ~ Adopted(c, t)
    <3>1. /\ Len(assessment'[t]) <= 1 /\ Exists(t)' = Exists(t) /\ Latest(t)' = Latest(t)
          /\ Exists(t) /\ Latest(t).working => Latest(t).done < Total
      BY <1>6, <2>2, <2>4 DEF Exists, Latest, TypeSound
    <3> QED BY <1>1, <1>7, <2>1, <3>1, TypeKeeps
  <2> QED BY <2>3, <2>4
<1> QED BY <1>3, <1>8, <1>9 DEF ProjInvariant

-----------------------------------------------------------------------------
\* Work that leaves level, progress and tasks, and takes nobody off a summary.
LEMMA LatestMoves ==
  ASSUME ProjInvariant, NEW t \in Types, NEW row \in AssessmentRow, Exists(t),
         assessment' = WithLatest(t, row), row.level = Latest(t).level,
         row.progress = Latest(t).progress, row.done = Latest(t).done,
         row.working => row.done < Total,
         UNCHANGED <<proj, summary, orders, torn>>, order' \in [Clients -> OrderRow],
         \A c \in Clients : OrderSound(order'[c]),
         \A c \in Clients : order[c].pc \in {"read", "write"} => order'[c] = order[c]
  PROVE  ProjInvariant'
<1>1. /\ assessment' \in [Types -> Seq(AssessmentRow)]
      /\ Len(assessment'[t]) = 1 /\ Exists(t)' /\ Latest(t)' = row
      /\ \A u \in Types : u # t => assessment'[u] = assessment[u]
  BY LatestWritten
<1>2. ProjTypeOK'
  BY <1>1 DEF ProjInvariant, ProjTypeOK
<1>3. ASSUME NEW u \in Types PROVE TypeSound(u)'
  <2>1. \A d \in Clients : Writing(d, u) => Writing(d, u)' /\ order'[d].op = order[d].op
    BY DEF Writing, TypeOfOrder
  <2>2. CASE u = t
    <3>1. Len(assessment'[t]) <= 1
      BY <1>1
    <3>2. \A d \in Clients : Writing(d, t) => Writing(d, t)' /\ order'[d].op = order[d].op
      BY <2>1, <2>2
    <3>3. TypeSound(t)'
      BY <1>1, <3>1, <3>2, TypeKeeps
    <3> QED BY <2>2, <3>3
  <2>3. CASE u # t
    <3>1. /\ Len(assessment'[u]) <= 1 /\ Exists(u)' = Exists(u) /\ Latest(u)' = Latest(u)
          /\ Exists(u) /\ Latest(u).working => Latest(u).done < Total
      BY <1>1, <2>3 DEF Exists, Latest, ProjInvariant, TypeSound
    <3> QED BY <2>1, <3>1, TypeKeeps
  <2> QED BY <2>2, <2>3
<1> QED BY <1>2, <1>3 DEF ProjInvariant

\* Starts, pauses, resumptions and tasks started by hand.
LEMMA WorkKeeps ==
  ASSUME ProjInvariant, NEW t \in Types,
         \/ StartAssessment(t) \/ PauseAssessment(t) \/ ResumeAssessment(t) \/ ReopenAssessment(t)
         \/ StartWork(t) \/ Diverge(t)
  PROVE  ProjInvariant'
<1>1. Exists(t) /\ Latest(t) \in AssessmentRow /\ (Latest(t).working => Latest(t).done < Total)
  BY ProjFacts DEF StartAssessment, PauseAssessment, ResumeAssessment, ReopenAssessment, StartWork, Diverge,
                   ProjInvariant, TypeSound
<1>2. PICK row : /\ Works(t, row)
                 /\ \/ row = [Latest(t) EXCEPT !.status = "in_progress", !.phase = "active"]
                    \/ row = [Latest(t) EXCEPT !.status = "paused"]
                    \/ row = [Latest(t) EXCEPT !.status = "in_progress"]
                    \/ Latest(t).done < Total /\ row = [Latest(t) EXCEPT !.phase = "active", !.working = TRUE]
                    \/ row = [Latest(t) EXCEPT !.fits = FALSE]
  BY DEF StartAssessment, PauseAssessment, ResumeAssessment, ReopenAssessment, StartWork, Diverge
<1>3. /\ row \in AssessmentRow /\ row.level = Latest(t).level /\ row.progress = Latest(t).progress
      /\ row.done = Latest(t).done /\ (row.working => row.done < Total)
  BY <1>1, <1>2 DEF AssessmentRow
<1>4. assessment' = WithLatest(t, row) /\ UNCHANGED <<proj, summary, order, orders, torn>>
  BY <1>2 DEF Works
<1>5. order' \in [Clients -> OrderRow] /\ \A c \in Clients : OrderSound(order'[c])
  BY <1>4 DEF ProjInvariant, ProjTypeOK
<1> QED BY <1>1, <1>3, <1>4, <1>5, LatestMoves

\* The demonstration is started.
LEMMA StartDemoKeeps ==
  ASSUME ProjInvariant, NEW c \in Clients, StartDemo(c)
  PROVE  ProjInvariant'
<1>1. /\ order[c].pc = "start" /\ Does(c, NoOrder) /\ UNCHANGED <<proj, summary, orders, torn>>
      /\ OrderSound(order[c])
  BY ProjFacts DEF StartDemo, At
<1>2. PICK t \in Types : t = TypeOfOrder(c)
  BY <1>1, TodoFacts DEF OrderSound
<1>3. Exists(t) /\ Latest(t) \in AssessmentRow /\ (Latest(t).working => Latest(t).done < Total)
  BY <1>2, ProjFacts DEF StartDemo, ProjInvariant, TypeSound
<1>4. /\ order' \in [Clients -> OrderRow]
      /\ \A d \in Clients : d # c => order'[d] = order[d]
      /\ \A d \in Clients : OrderSound(order'[d])
  BY <1>1, NoOrderFacts, OrderSet
<1>5. CASE assessment' = assessment
  <2>1. torn' \subseteq Types /\ proj' \in {"none", "active", "archived", "deleted"} /\ orders' \in 0 .. MaxOrders
    BY <1>1 DEF ProjInvariant, ProjTypeOK
  <2> QED BY <1>1, <1>5, <2>1, NoOrderFacts, OrderMoves
<1>6. CASE assessment' # assessment
  <2>1. PICK row : /\ row = [Latest(t) EXCEPT !.status = "in_progress", !.phase = "active"]
                   /\ assessment' = WithLatest(t, row)
    BY <1>2, <1>6 DEF StartDemo
  <2>2. /\ row \in AssessmentRow /\ row.level = Latest(t).level /\ row.progress = Latest(t).progress
        /\ row.done = Latest(t).done /\ (row.working => row.done < Total)
    BY <1>3, <2>1 DEF AssessmentRow
  <2>3. \A d \in Clients : order[d].pc \in {"read", "write"} => order'[d] = order[d]
    BY <1>1, <1>4
  <2> QED BY <1>1, <1>3, <1>4, <2>1, <2>2, <2>3, LatestMoves
<1> QED BY <1>5, <1>6

\* Work that moves the tasks is followed by its summary.
LEMMA LatestWorked ==
  ASSUME ProjInvariant, NEW t \in Types, NEW row \in AssessmentRow, Exists(t),
         assessment' = WithLatest(t, row), row.working => row.done < Total,
         NEW c \in Clients, order[c].pc = "idle", NEW o \in OrderRow, OrderSound(o), Does(c, o),
         o.pc = "read", Head(o.todo).type = t, row.progress = row.done \/ o.op = "finish",
         UNCHANGED <<proj, summary>>, orders' \in 0 .. MaxOrders, torn \subseteq torn', torn' \subseteq Types
  PROVE  ProjInvariant'
<1>1. /\ assessment' \in [Types -> Seq(AssessmentRow)]
      /\ Len(assessment'[t]) = 1 /\ Exists(t)' /\ Latest(t)' = row
      /\ \A u \in Types : u # t => assessment'[u] = assessment[u]
  BY LatestWritten
<1>2. /\ order' \in [Clients -> OrderRow] /\ order'[c] = o
      /\ \A d \in Clients : d # c => order'[d] = order[d]
      /\ \A d \in Clients : OrderSound(order'[d])
  BY OrderSet
<1>3. ProjTypeOK'
  BY <1>1, <1>2 DEF ProjInvariant, ProjTypeOK
<1>4. TypeSound(t)'
  <2>1. Writing(c, t)' /\ order'[c].op = o.op
    BY <1>2 DEF Writing, TypeOfOrder
  <2>2. Len(assessment'[t]) <= 1
    BY <1>1
  <2> QED BY <1>1, <2>1, <2>2 DEF TypeSound
<1>5. ASSUME NEW u \in Types, u # t PROVE TypeSound(u)'
  <2>1. /\ Len(assessment'[u]) <= 1 /\ Exists(u)' = Exists(u) /\ Latest(u)' = Latest(u)
        /\ Exists(u) /\ Latest(u).working => Latest(u).done < Total
    BY <1>1, <1>5 DEF Exists, Latest, ProjInvariant, TypeSound
  <2>2. \A d \in Clients : Writing(d, u) => Writing(d, u)' /\ order'[d].op = order[d].op
    BY <1>2 DEF Writing, TypeOfOrder
  <2> QED BY <2>1, <2>2, TypeKeeps
<1> QED BY <1>2, <1>3, <1>4, <1>5 DEF ProjInvariant

\* A task completes.
LEMMA FinishWorkKeeps ==
  ASSUME ProjInvariant, NEW c \in Clients, NEW t \in Types, FinishWork(c, t)
  PROVE  ProjInvariant'
<1>1. /\ order[c].pc = "idle" /\ Exists(t) /\ Latest(t) \in AssessmentRow /\ Latest(t).done < Total
      /\ UNCHANGED <<proj, summary, orders, torn>>
  BY ProjFacts DEF FinishWork, At, ProjInvariant, TypeSound
<1>2. PICK row : /\ row = [Latest(t) EXCEPT !.working = FALSE, !.done = @ + 1]
                 /\ assessment' = WithLatest(t, row)
  BY DEF FinishWork
<1>3. row \in AssessmentRow /\ ~ row.working
  <2> DEFINE n == Latest(t).done + 1
  <2>1. row = [Latest(t) EXCEPT !.working = FALSE, !.done = n]
    BY <1>2
  <2>2. n \in 0 .. Total
    BY <1>1 DEF AssessmentRow
  <2> HIDE DEF n
  <2> QED BY <1>1, <2>1, <2>2 DEF AssessmentRow
<1> DEFINE todo == <<[type |-> t, level |-> Latest(t).level]>>
<1>4. todo \in Seq(Config) /\ todo # <<>> /\ Head(todo).type = t
  <2>1. [type |-> t, level |-> Latest(t).level] \in Config
    BY <1>1 DEF Config, AssessmentRow
  <2> QED BY <2>1
<1>5. Does(c, Order("finish", "read", todo))
  BY DEF FinishWork, Order
<1> HIDE DEF todo
<1>6. torn' \subseteq Types /\ orders' \in 0 .. MaxOrders
  BY <1>1 DEF ProjInvariant, ProjTypeOK
<1>7. PICK o \in OrderRow : OrderSound(o) /\ Does(c, o) /\ o.pc = "read" /\ o.op = "finish" /\ o.todo = todo
  BY <1>4, <1>5, Begun
<1> QED BY <1>1, <1>2, <1>3, <1>4, <1>6, <1>7, LatestWorked

\* An assessment is restarted.
LEMMA RestartKeeps ==
  ASSUME ProjInvariant, NEW c \in Clients, NEW t \in Types, RestartAssessment(c, t)
  PROVE  ProjInvariant'
<1>1. /\ order[c].pc = "idle" /\ Exists(t) /\ Latest(t) \in AssessmentRow
      /\ UNCHANGED <<proj, summary>> /\ orders' \in 0 .. MaxOrders
  BY ProjFacts DEF RestartAssessment, At, ProjInvariant, ProjTypeOK
<1>2. PICK row : /\ row = [Fresh(Latest(t).level) EXCEPT !.fits = Latest(t).fits]
                 /\ assessment' = WithLatest(t, row)
  BY DEF RestartAssessment
<1>3. row \in AssessmentRow /\ row.progress = row.done /\ ~ row.working
  <2> DEFINE level == Latest(t).level
             fits == Latest(t).fits
  <2>1. level \in Levels /\ fits \in BOOLEAN /\ row = [Fresh(level) EXCEPT !.fits = fits]
    BY <1>1, <1>2 DEF AssessmentRow
  <2> HIDE DEF level, fits
  <2>2. row = [level |-> level, status |-> "not_started", progress |-> 0, phase |-> "pending",
               working |-> FALSE, done |-> 0, fits |-> fits]
    BY ONLY <2>1 DEF Fresh
  <2>3. 0 \in 0 .. Total
    OBVIOUS
  <2>4. row \in AssessmentRow
    <3>1. level \in Levels /\ fits \in BOOLEAN
      BY <2>1
    <3> QED BY <2>2, <2>3, <3>1 DEF AssessmentRow
  <2> QED BY <2>2, <2>4
<1> DEFINE todo == <<[type |-> t, level |-> Latest(t).level]>>
<1>4. todo \in Seq(Config) /\ todo # <<>> /\ Head(todo).type = t
  <2>1. [type |-> t, level |-> Latest(t).level] \in Config
    BY <1>1 DEF Config, AssessmentRow
  <2> QED BY <2>1
<1>5. Does(c, Order("restart", "read", todo))
  BY DEF RestartAssessment, Order
<1> HIDE DEF todo
<1>6. torn \subseteq torn' /\ torn' \subseteq Types
  BY DEF RestartAssessment, ProjInvariant, ProjTypeOK
<1>7. PICK o \in OrderRow : OrderSound(o) /\ Does(c, o) /\ o.pc = "read" /\ o.op = "restart" /\ o.todo = todo
  BY <1>4, <1>5, Begun
<1> QED BY <1>1, <1>2, <1>3, <1>4, <1>6, <1>7, LatestWorked

-----------------------------------------------------------------------------
\* The first row of a list, if there is one, is replaced.
LEMMA FirstSet ==
  ASSUME NEW S, NEW s \in Seq(S), NEW e \in S
  PROVE  /\ [s EXCEPT ![1] = e] \in Seq(S)
         /\ Len(s) = 1 => Len([s EXCEPT ![1] = e]) = 1 /\ [s EXCEPT ![1] = e][1] = e
<1>1. CASE 1 \in 1 .. Len(s)
  BY <1>1, ExceptSeq
<1>2. CASE 1 \notin 1 .. Len(s)
  <2>1. DOMAIN s = 1 .. Len(s) /\ s = [i \in 1 .. Len(s) |-> s[i]]
    BY LenProperties
  <2>2. [s EXCEPT ![1] = e] = s
    BY <1>2, <2>1
  <2>3. Len(s) # 1
    BY <1>2
  <2> QED BY <2>2, <2>3
<1> QED BY <1>1, <1>2

\* Unless someone else has read or written meanwhile, progress and summary are those of the
\* assessment once they are written.
LEMMA WriteSummaryKeeps ==
  ASSUME ProjInvariant, NEW c \in Clients, WriteSummary(c)
  PROVE  ProjInvariant'
<1>1. /\ order[c].pc = "write" /\ order[c] \in OrderRow /\ OrderSound(order[c])
      /\ UNCHANGED <<proj, orders>> /\ order[c].todo # <<>> /\ order[c].rows <= 1
      /\ order[c].progress \in 0 .. Total /\ order[c].rows \in Nat
  BY ProjFacts DEF WriteSummary, At, OrderSound, OrderRow
<1>2. PICK t \in Types : t = TypeOfOrder(c)
  BY <1>1, TodoFacts
<1>3. Exists(t) /\ Latest(t) \in AssessmentRow /\ (Latest(t).working => Latest(t).done < Total)
  BY <1>2, ProjFacts DEF WriteSummary, ProjInvariant, TypeSound
<1>4. NextConfig(c)
  BY DEF WriteSummary
<1> DEFINE written == CASE order[c].op = "finish" -> Progressed(Latest(t), order[c].progress)
                        [] order[c].op = "restart" -> Rebuilt(Latest(t))
                        [] OTHER -> Latest(t)
           new == [level |-> written.level, progress |-> order[c].progress]
           list == IF order[c].rows = 0 THEN Append(summary[t], new) ELSE [summary[t] EXCEPT ![1] = new]
<1>5. /\ assessment' = WithLatest(t, written)
      /\ summary' = [summary EXCEPT ![t] = list]
      /\ torn' = IF Races(c, t) THEN torn \cup {t} ELSE torn
  <2>1. assessment' = WithLatest(t, written)
    BY <1>2 DEF WriteSummary
  <2>2. summary' = [summary EXCEPT ![t] = list]
    BY <1>2 DEF WriteSummary
  <2>3. torn' = IF Races(c, t) THEN torn \cup {t} ELSE torn
    BY <1>2 DEF WriteSummary
  <2> QED BY <2>1, <2>2, <2>3
<1> HIDE DEF list
<1>6. PICK row : row = written
  OBVIOUS
<1>7. /\ row \in AssessmentRow /\ (row.working => row.done < Total)
      /\ order[c].op = "finish" => row.progress = order[c].progress /\ row.done = Latest(t).done
      /\ order[c].op = "restart" => row.progress = Latest(t).progress /\ row.done = 0
      /\ order[c].op \notin {"finish", "restart"} => row = Latest(t)
  <2>1. /\ order[c].op = "finish" => row = Progressed(Latest(t), order[c].progress)
        /\ order[c].op = "restart" => row = Rebuilt(Latest(t))
        /\ order[c].op \notin {"finish", "restart"} => row = Latest(t)
    BY <1>6
  <2>2. CASE order[c].op = "finish"
    <3> DEFINE n == order[c].progress
    <3>1. PICK status \in {"not_started", "in_progress", "paused", "completed"} :
                row = [Latest(t) EXCEPT !.progress = n, !.status = status]
      BY <1>3, <2>1, <2>2 DEF Progressed, AssessmentRow
    <3>2. n \in 0 .. Total
      BY <1>1
    <3> HIDE DEF n
    <3>3. row \in AssessmentRow /\ row.progress = n /\ row.done = Latest(t).done /\ row.working = Latest(t).working
      BY <1>3, <3>1, <3>2 DEF AssessmentRow
    <3> QED BY <1>3, <2>2, <3>3 DEF n
  <2>3. CASE order[c].op = "restart"
    BY <1>3, <2>1, <2>3, RebuiltFacts
  <2>4. CASE order[c].op \notin {"finish", "restart"}
    BY <1>3, <2>1, <2>4
  <2> QED BY <2>2, <2>3, <2>4
<1>8. PICK o \in OrderRow : OrderSound(o) /\ Does(c, o)
  BY <1>1, <1>4, NextOrder
<1>9. /\ order' \in [Clients -> OrderRow]
      /\ \A d \in Clients : d # c => order'[d] = order[d]
      /\ \A d \in Clients : OrderSound(order'[d])
  BY <1>8, OrderSet
<1>10. /\ assessment' \in [Types -> Seq(AssessmentRow)]
      /\ Len(assessment'[t]) = 1 /\ Exists(t)' /\ Latest(t)' = row
      /\ \A u \in Types : u # t => assessment'[u] = assessment[u]
  BY <1>3, <1>5, <1>6, <1>7, LatestWritten
<1>11. torn \subseteq torn' /\ torn' \subseteq Types /\ (t \notin torn' => ~ Races(c, t) /\ torn' = torn)
  BY <1>5 DEF ProjInvariant, ProjTypeOK
<1>12. new \in SummaryRow /\ new.level = row.level /\ new.progress = order[c].progress
  BY <1>1, <1>6, <1>7 DEF SummaryRow, AssessmentRow
<1>13. summary' = [summary EXCEPT ![t] = list]
  BY <1>5
<1> HIDE DEF new, written
<1>14. list \in Seq(SummaryRow) /\ (Len(summary[t]) = order[c].rows => Len(list) = 1 /\ list[1] = new)
  <2>1. summary[t] \in Seq(SummaryRow)
    BY DEF ProjInvariant, ProjTypeOK
  <2>2. CASE order[c].rows = 0
    <3>1. list = Append(summary[t], new)
      BY <2>2 DEF list
    <3>2. list \in Seq(SummaryRow)
      BY <1>12, <2>1, <3>1, AppendProperties
    <3>3. ASSUME Len(summary[t]) = 0 PROVE Len(list) = 1 /\ list[1] = new
      BY <1>12, <2>1, <3>1, <3>3, AppendProperties
    <3> QED BY <2>2, <3>2, <3>3
  <2>3. CASE order[c].rows # 0
    <3>1. list = [summary[t] EXCEPT ![1] = new]
      BY <2>3 DEF list
    <3>2. order[c].rows = 1
      BY <1>1, <2>3
    <3>3. list \in Seq(SummaryRow)
      BY <1>12, <2>1, <3>1, FirstSet
    <3>4. ASSUME Len(summary[t]) = 1 PROVE Len(list) = 1 /\ list[1] = new
      BY <1>12, <2>1, <3>1, <3>4, FirstSet
    <3> QED BY <3>2, <3>3, <3>4
  <2> QED BY <2>2, <2>3
<1>15. summary' \in [Types -> Seq(SummaryRow)] /\ summary'[t] = list /\ \A u \in Types : u # t => summary'[u] = summary[u]
  BY <1>13, <1>14 DEF ProjInvariant, ProjTypeOK
<1>16. ProjTypeOK'
  BY <1>1, <1>9, <1>10, <1>11, <1>15 DEF ProjInvariant, ProjTypeOK
<1>17. TypeSound(t)'
  <2>1. ASSUME t \notin torn' PROVE ~ Behind(t)'
    <3>1. /\ Len(summary[t]) = order[c].rows /\ Shown(c, t) = order[c].progress
          /\ order[c].op # "finish" => Latest(t).progress = 0
      BY <1>11, <2>1 DEF Races
    <3>2. order[c].progress = row.progress
      BY <1>7, <3>1 DEF Shown
    <3>3. Len(summary'[t]) = 1 /\ summary'[t][1] = new
      BY <1>14, <1>15, <3>1
    <3>4. new = [level |-> row.level, progress |-> row.progress]
      BY <1>12, <3>2 DEF SummaryRow
    <3> QED BY <1>10, <3>3, <3>4 DEF Behind
  <2>2. ASSUME t \notin torn', row.progress # row.done
        PROVE  \E d \in Clients : Writing(d, t)' /\ order'[d].op = "finish"
    <3>1. /\ Shown(c, t) = order[c].progress
          /\ order[c].op # "finish" => Latest(t).progress = 0
      BY <1>11, <2>2 DEF Races
    <3>2. row = Latest(t) /\ order[c].op \notin {"finish", "restart"}
      BY <1>7, <2>2, <3>1 DEF Shown
    <3>3. PICK d \in Clients : Writing(d, t) /\ order[d].op = "finish"
      BY <1>3, <1>11, <2>2, <3>2 DEF ProjInvariant, TypeSound
    <3>4. d # c
      BY <3>2, <3>3
    <3> QED BY <1>9, <3>3, <3>4 DEF Writing, TypeOfOrder
  <2>3. Len(assessment'[t]) <= 1
    BY <1>10
  <2> QED BY <1>7, <1>10, <2>1, <2>2, <2>3 DEF TypeSound
<1>18. ASSUME NEW u \in Types, u # t PROVE TypeSound(u)'
  <2>1. /\ Len(assessment'[u]) <= 1 /\ Exists(u)' = Exists(u) /\ Latest(u)' = Latest(u)
        /\ Exists(u) /\ Latest(u).working => Latest(u).done < Total
    BY <1>10, <1>18 DEF Exists, Latest, ProjInvariant, TypeSound
  <2>2. \A d \in Clients : Writing(d, u) => Writing(d, u)' /\ order'[d].op = order[d].op
    BY <1>2, <1>9, <1>18 DEF Writing, TypeOfOrder
  <2> QED BY <1>11, <1>15, <1>18, <2>1, <2>2, TypeKeeps
<1> QED BY <1>9, <1>16, <1>17, <1>18 DEF ProjInvariant

-----------------------------------------------------------------------------
\* Nothing is left of a project that is deleted.
LEMMA DeleteProjectKeeps == ASSUME ProjInvariant, DeleteProject PROVE ProjInvariant'
<1>1. ProjTypeOK'
  BY NoOrderFacts, EmptySeq DEF DeleteProject, Nothing, ProjInvariant, ProjTypeOK
<1>2. \A c \in Clients : OrderSound(order'[c])
  BY NoOrderFacts DEF DeleteProject
<1>3. ASSUME NEW t \in Types PROVE TypeSound(t)'
  <2>1. ~ Exists(t)' /\ Len(assessment'[t]) = 0
    BY EmptySeq DEF DeleteProject, Nothing, Exists
  <2> QED BY <2>1 DEF TypeSound
<1> QED BY <1>1, <1>2, <1>3 DEF ProjInvariant

\* Every step of the projects keeps the invariant.
LEMMA ProjInvariantStep ==
  ASSUME ProjInvariant, [ProjNext]_projVars
  PROVE  ProjInvariant'
<1>1. ASSUME NEW c \in Clients, NEW todo \in Configs, BeginCreate(c, todo) \/ BeginUpdate(c, todo)
      PROVE  ProjInvariant'
  BY <1>1, RequestsBegin
<1>2. ASSUME NEW c \in Clients, NEW config \in Config, BeginEnable(c, config) \/ BeginDirect(c, config)
      PROVE  ProjInvariant'
  BY <1>2, RequestsBegin
<1>3. ASSUME NEW c \in Clients,
             \/ BeginDemo(c) \/ BeginTemplates(c) \/ Upsert(c) \/ Adopt(c) \/ Ensure(c) \/ InsertAssessment(c)
             \/ ReadSummary(c) \/ WriteSummary(c) \/ StartDemo(c) \/ Cut(c)
      PROVE  ProjInvariant'
  BY <1>3, RequestsBegin, UpsertKeeps, AdoptKeeps, EnsureKeeps, InsertKeeps, ReadSummaryKeeps,
     WriteSummaryKeeps, StartDemoKeeps, CutKeeps
<1>4. ASSUME NEW t \in Types,
             \/ StartAssessment(t) \/ PauseAssessment(t) \/ ResumeAssessment(t) \/ ReopenAssessment(t)
             \/ StartWork(t) \/ Diverge(t)
      PROVE  ProjInvariant'
  BY <1>4, WorkKeeps
<1>5. ASSUME NEW c \in Clients, NEW t \in Types, FinishWork(c, t) \/ RestartAssessment(c, t)
      PROVE  ProjInvariant'
  BY <1>5, FinishWorkKeeps, RestartKeeps
<1>6. CASE DeleteProject
  BY <1>6, DeleteProjectKeeps
<1>7. ASSUME UNCHANGED <<assessment, summary, order, orders, torn>>,
             proj' \in {"none", "active", "archived", "deleted"}
      PROVE  ProjInvariant'
  <2>1. ProjTypeOK'
    BY <1>7 DEF ProjInvariant, ProjTypeOK
  <2>2. \A c \in Clients : OrderSound(order'[c])
    BY <1>7 DEF ProjInvariant
  <2>3. ASSUME NEW t \in Types PROVE TypeSound(t)'
    <3>1. TypeSound(t)
      BY DEF ProjInvariant
    <3> QED BY <1>7, <3>1 DEF TypeSound, Exists, Latest, Behind, Writing, TypeOfOrder
  <2> QED BY <2>1, <2>2, <2>3 DEF ProjInvariant
<1>8. CASE Archive \/ Restore
  BY <1>7, <1>8 DEF Archive, Restore
<1>9. CASE UNCHANGED projVars
  BY <1>7, <1>9 DEF projVars, ProjInvariant, ProjTypeOK
<1> QED BY <1>1, <1>2, <1>3, <1>4, <1>5, <1>6, <1>8, <1>9 DEF ProjNext

\* The invariant says what SummaryIsTrue says of the types where nobody is at the summary.
LEMMA SummaryTrueHere == ProjInvariant => SummaryIsTrue
<1> SUFFICES ASSUME ProjInvariant, NEW t \in Types
             PROVE  /\ Len(assessment[t]) <= 1
                    /\ Exists(t) /\ AtRest(t) /\ t \notin torn =>
                         /\ Len(summary[t]) = 1
                         /\ summary[t][1] = [level |-> Latest(t).level, progress |-> Latest(t).progress]
                         /\ Latest(t).progress = Latest(t).done
  BY DEF SummaryIsTrue
<1>1. TypeSound(t)
  BY DEF ProjInvariant
<1>2. AtRest(t) => \A c \in Clients : ~ Writing(c, t)
  BY DEF AtRest, Writing
<1> QED BY <1>1, <1>2 DEF TypeSound, Behind

\* A type whose summary lags has someone who is about to write it, unless it is torn, and
\* there is one assessment at most.
THEOREM ProjectsInvariant == ProjSpec => []ProjInvariant
<1>1. ProjInit => ProjInvariant
  BY ProjInvariantInit
<1>2. ProjInvariant /\ [ProjNext]_projVars => ProjInvariant'
  BY ProjInvariantStep
<1> QED BY <1>1, <1>2, PTL DEF ProjSpec

\* A project has one assessment of a type, and once the requests are done its summary is one
\* row with the level, and the progress, of the assessment and its tasks.
THEOREM SummariesTrue == ProjSpec => []SummaryIsTrue
<1>1. ProjSpec => []ProjInvariant
  BY ProjectsInvariant
<1>2. ProjInvariant => SummaryIsTrue
  BY SummaryTrueHere
<1> QED BY <1>1, <1>2, PTL

-----------------------------------------------------------------------------
(* Retests, members and projects in one run (MCVerificationRoles).           *)

\* The run starts each part as its own specification does, and each of its steps is one of
\* the part it follows.
LEMMA RunIsOfRoles == AllSpec => Spec /\ OrgSpec /\ ProjSpec
<1>1. AllInit => Init /\ OrgInit /\ ProjInit
  BY DEF AllInit
<1>2. [AllNext]_allVars => [Next]_vars /\ [OrgNext]_orgVars /\ [ProjNext]_projVars
  BY DEF AllNext, allVars
<1> QED BY <1>1, <1>2, PTL DEF AllSpec, Spec, OrgSpec, ProjSpec

\* Whichever part the run follows, every row and counter is one that the tables and processes
\* can hold.
THEOREM VerificationRolesTypeCorrect == AllSpec => []RolesTypeOK
<1>1. OrgTypeOK /\ ProjTypeOK /\ TypeOK => RolesTypeOK
  BY DEF RolesTypeOK
<1>2. ProjInvariant => ProjTypeOK
  BY DEF ProjInvariant
<1> QED
  BY <1>1, <1>2, RunIsOfRoles, VerificationTypeCorrect, MembersSound, ProjectsInvariant, PTL

\* What is proved of each part holds of the run of all.
THEOREM VerificationRolesKeepTheirPromises ==
  ASSUME Deployment
  PROVE  AllSpec => /\ [](OneWorkerPerRun /\ SettledIsCovered /\ ClosedByRetest) /\ SettledIsFinal
                    /\ [](TemplatesExist /\ KeepsAnAdmin /\ SummaryIsTrue)
BY RunIsOfRoles, OneWorker, SettledCovered, FixedByRetest, SettledFinal, MembersSound, AdminKept, SummariesTrue, PTL
=============================================================================
