---------------------------- MODULE Organizations ----------------------------
(***************************************************************************)
(* The members of an organization, their basic roles and the permission    *)
(* templates they hold (api/organizations.py, core/rbac.py).  A request    *)
(* reads what it decides on, and writes in the transaction that it         *)
(* commits later: others write in between.                                 *)
(***************************************************************************)
EXTENDS Naturals, FiniteSets

CONSTANTS
  Users,
  Templates,     \* names of permission templates; a name is unique in an organization
  Defaults,      \* the names of DEFAULT_ROLE_TEMPLATES
  FullDefault,   \* the one of them that holds every permission
  Grants,        \* what users give to a template (a bound)
  Projects,
  Callers,       \* requests that may be served at the same time
  MaxCalls       \* requests begun in a behaviour (a bound)

\* The permissions that a manager does not have by default.
Reserved == {"role:manage", "member:manage", "system:config"}

ASSUME OrganizationAssumption ==
  /\ IsFiniteSet(Users)
  /\ Defaults \subseteq Templates /\ FullDefault \in Defaults
  /\ Grants \subseteq SUBSET Reserved /\ MaxCalls \in Nat
  /\ "none" \notin Templates

BasicRole == {"none", "admin", "manager"}
MemberRow == [role : BasicRole, template : Templates \cup {"none"}]
Nobody == [role |-> "none", template |-> "none"]
TemplateRow == [kind : {"none", "custom", "system"}, grants : SUBSET Reserved]
NoTemplate == [kind |-> "none", grants |-> {}]

\* old, admins, projects: what the session of the request has read.
CallRow == [pc : {"idle", "checked", "void"},
            op : {"add", "assign", "remove", "edit", "discard", "initialize", "delete"},
            user : Users \cup {"none"}, role : BasicRole, template : Templates \cup {"none"},
            grants : SUBSET Reserved, old : MemberRow, admins : Nat,
            projects : SUBSET Projects]
NoCall == [pc |-> "idle", op |-> "add", user |-> "none", role |-> "none", template |-> "none",
           grants |-> {}, old |-> Nobody, admins |-> 0, projects |-> {}]

VARIABLES
  org,       \* "none", "live" or "deleted"
  member,    \* [Users -> MemberRow], organization_members
  template,  \* [Templates -> TemplateRow], organization_roles
  project,   \* [Projects -> none, idle, or busy with a scan or an analysis]
  call,      \* [Callers -> CallRow]
  calls,     \* how many were begun
  miscounted \* (history) an administrator was taken away on a role or a count read before another write

orgVars == <<org, member, template, project, call, calls, miscounted>>

OrgInit ==
  /\ org = "none" /\ member = [u \in Users |-> Nobody]
  /\ template = [n \in Templates |-> NoTemplate]
  /\ project = [p \in Projects |-> "none"]
  /\ call = [c \in Callers |-> NoCall] /\ calls = 0 /\ miscounted = FALSE

Admins == {u \in Users : member[u].role = "admin"}
\* organization_admin_count
AdminCount == Cardinality(Admins)

\* resolve_member_permissions, of the reserved permissions: an administrator has
\* them all, whatever the template; others have those of their template.
Permissions(u) ==
  CASE member[u].role = "admin" -> Reserved
    [] member[u].role = "manager" /\ member[u].template # "none" -> template[member[u].template].grants
    [] OTHER -> {}

-----------------------------------------------------------------------------
(* What a request reads before it writes.                                   *)

\* The request has passed its tests; r is what it will write and has read.
Passes(c, right, u, r) ==
  /\ org = "live" /\ call[c].pc = "idle" /\ calls < MaxCalls
  /\ right \in Permissions(u)
  /\ call' = [call EXCEPT ![c] = r] /\ calls' = calls + 1
  /\ UNCHANGED <<org, member, template, project, miscounted>>
MayWrite(op) == [NoCall EXCEPT !.pc = "checked", !.op = op]

\* Only an administrator makes one, and an administrator holds no template.
Assignable(u, role, n) ==
  /\ role = "admin" => member[u].role = "admin"
  /\ n # "none" => role # "admin" /\ template[n].kind # "none"

AddMember(c, u, v, role, n) ==
  /\ member[v].role = "none" /\ Assignable(u, role, n)
  /\ Passes(c, "member:manage", u,
            [MayWrite("add") EXCEPT !.user = v, !.role = role, !.template = n])

\* The last administrator is neither demoted nor removed.
MutantSpared(v, role) == TRUE
Spared(v, role) == member[v].role = "admin" /\ role # "admin" => AdminCount > 1
\* Only an administrator touches one.
Touchable(u, v) ==
  member[v].role # "none" /\ (member[v].role = "admin" => member[u].role = "admin")

UpdateMember(c, u, v, role, n) ==
  /\ Touchable(u, v) /\ Assignable(u, role, n) /\ Spared(v, role)
  /\ Passes(c, "member:manage", u,
            [MayWrite("assign") EXCEPT !.user = v, !.role = role, !.template = n,
                                       !.old = member[v], !.admins = AdminCount])

RemoveMember(c, u, v) ==
  /\ u # v /\ Touchable(u, v) /\ Spared(v, "none")
  /\ Passes(c, "member:manage", u,
            [MayWrite("remove") EXCEPT !.user = v, !.old = member[v], !.admins = AdminCount])

\* A template of the system is neither edited nor deleted.
UpdateRole(c, u, n, g) ==
  /\ template[n].kind = "custom"
  /\ Passes(c, "role:manage", u, [MayWrite("edit") EXCEPT !.template = n, !.grants = g])

DeleteRole(c, u, n) ==
  /\ template[n].kind = "custom"
  /\ Passes(c, "role:manage", u, [MayWrite("discard") EXCEPT !.template = n])

\* Both requests load the projects that they are going to delete.
Loaded(op) == [MayWrite(op) EXCEPT !.projects = {p \in Projects : project[p] # "none"}]
Initialize(c, u) == Passes(c, "system:config", u, Loaded("initialize"))
DeleteOrganization(c, u) ==
  member[u].role = "admin" /\ Passes(c, "system:config", u, Loaded("delete"))

-----------------------------------------------------------------------------
(* What it writes.  A row that is gone, a template that a foreign key needs *)
(* and a name or member that exists make the transaction fail.              *)

\* lost: the requests whose row or template the one of c deletes.
Served(c, lost) ==
  call' = [x \in Callers |-> IF x = c THEN NoCall
                            ELSE IF x \in lost /\ call[x].pc = "checked"
                                 THEN [call[x] EXCEPT !.pc = "void"] ELSE call[x]]

\* The session writes the columns whose value differs from the one it has read.
Assigned(v, r) == [role |-> IF r.role = r.old.role THEN member[v].role ELSE r.role,
                   template |-> IF r.template = r.old.template THEN member[v].template
                                ELSE r.template]
Miscounts(r) ==
  miscounted' = (miscounted \/ (/\ r.op \in {"assign", "remove"} /\ member[r.user].role = "admin"
                                /\ member'[r.user].role # "admin"
                                /\ (r.old.role # "admin" \/ r.admins # AdminCount)))

WriteMember(c) ==
  LET r == call[c]
      v == r.user
      ofMember == {x \in Callers : call[x].user = v /\ call[x].op \in {"assign", "remove"}}
  IN  /\ r.pc = "checked"
      /\ \/ r.op = "add" /\ member[v].role = "none" /\ Served(c, {})
            /\ member' = [member EXCEPT ![v] = [role |-> r.role, template |-> r.template]]
         \/ r.op = "assign" /\ member' = [member EXCEPT ![v] = Assigned(v, r)] /\ Served(c, {})
         \/ r.op = "remove" /\ member' = [member EXCEPT ![v] = Nobody] /\ Served(c, ofMember)
      /\ Miscounts(r)
      /\ UNCHANGED <<org, template, project, calls>>

WriteRole(c) ==
  LET r == call[c]
      n == r.template
      ofTemplate == {x \in Callers : /\ call[x].template = n
                                     /\ call[x].op = "assign" => call[x].old.template # n}
  IN  /\ r.pc = "checked"
      /\ \/ r.op = "edit" /\ template' = [template EXCEPT ![n].grants = r.grants]
            /\ UNCHANGED member /\ Served(c, {})
         \/ r.op = "discard" /\ template' = [template EXCEPT ![n] = NoTemplate] /\ Served(c, ofTemplate)
            /\ member' = [u \in Users |-> IF member[u].template = n
                                          THEN [member[u] EXCEPT !.template = "none"]
                                          ELSE member[u]]
      /\ UNCHANGED <<org, project, calls, miscounted>>

\* All projects or none.
WriteInitialize(c) ==
  LET r == call[c]
  IN  /\ r.pc = "checked" /\ r.op = "initialize"
      /\ \A p \in r.projects : project[p] # "busy"
      /\ project' = [p \in Projects |-> IF p \in r.projects THEN "none" ELSE project[p]]
      /\ Served(c, {})
      /\ UNCHANGED <<org, member, template, calls, miscounted>>

\* delete_organization_records; a project that was created meanwhile makes it fail.
WriteDelete(c) ==
  LET r == call[c]
  IN  /\ r.pc = "checked" /\ r.op = "delete"
      /\ \A p \in Projects : project[p] = "none" \/ (p \in r.projects /\ project[p] = "idle")
      /\ org' = "deleted" /\ member' = [u \in Users |-> Nobody]
      /\ template' = [n \in Templates |-> NoTemplate]
      /\ project' = [p \in Projects |-> "none"]
      /\ Served(c, Callers)
      /\ UNCHANGED <<calls, miscounted>>

\* The write is refused, fails or is lost with its process.
Abandon(c) ==
  /\ call[c].pc # "idle" /\ Served(c, {})
  /\ UNCHANGED <<org, member, template, project, calls, miscounted>>

-----------------------------------------------------------------------------
(* Requests of one transaction, and the work of the projects.               *)

\* create_organization, register: whoever asks is its first administrator.
CreateOrganization(u) ==
  /\ org = "none" /\ org' = "live"
  /\ member' = [member EXCEPT ![u].role = "admin"]
  /\ UNCHANGED <<template, project, call, calls, miscounted>>

\* create_role; the name must be free.
CreateRole(u, n, g) ==
  /\ org = "live" /\ "role:manage" \in Permissions(u) /\ template[n].kind = "none"
  /\ calls < MaxCalls /\ calls' = calls + 1
  /\ template' = [template EXCEPT ![n] = [kind |-> "custom", grants |-> g]]
  /\ UNCHANGED <<org, member, project, call, miscounted>>

\* list_roles creates the templates of the system whose names are free.  One that
\* collides with another listing rolls back those it had created before: any may stay.
ListRoles ==
  /\ org = "live"
  /\ \E S \in SUBSET {n \in Defaults : template[n].kind = "none"} :
       template' = [n \in Templates |->
                      IF n \notin S THEN template[n]
                      ELSE [kind |-> "system",
                            grants |-> IF n = FullDefault THEN Reserved ELSE {}]]
  /\ UNCHANGED <<org, member, project, call, calls, miscounted>>

\* A project is created, gets and loses its last active run.
ProjectMoves(p) ==
  /\ org = "live"
  /\ project' = [project EXCEPT ![p] = IF @ = "idle" THEN "busy" ELSE "idle"]
  /\ UNCHANGED <<org, member, template, call, calls, miscounted>>

OrgNext ==
  \/ \E u \in Users : CreateOrganization(u)
  \/ \E u \in Users, n \in Templates, g \in Grants : CreateRole(u, n, g)
  \/ ListRoles
  \/ \E p \in Projects : ProjectMoves(p)
  \/ \E c \in Callers, u, v \in Users, role \in BasicRole \ {"none"}, n \in Templates \cup {"none"} :
       AddMember(c, u, v, role, n) \/ UpdateMember(c, u, v, role, n)
  \/ \E c \in Callers, u, v \in Users : RemoveMember(c, u, v)
  \/ \E c \in Callers, u \in Users, n \in Templates :
       DeleteRole(c, u, n) \/ \E g \in Grants : UpdateRole(c, u, n, g)
  \/ \E c \in Callers, u \in Users : Initialize(c, u) \/ DeleteOrganization(c, u)
  \/ \E c \in Callers :
       WriteMember(c) \/ WriteRole(c) \/ WriteInitialize(c) \/ WriteDelete(c) \/ Abandon(c)

OrgSpec == OrgInit /\ [][OrgNext]_orgVars

-----------------------------------------------------------------------------

OrgTypeOK ==
  /\ org \in {"none", "live", "deleted"}
  /\ member \in [Users -> MemberRow] /\ template \in [Templates -> TemplateRow]
  /\ project \in [Projects -> {"none", "idle", "busy"}]
  /\ call \in [Callers -> CallRow]
  /\ calls \in 0 .. MaxCalls /\ miscounted \in BOOLEAN

\* An organization always has an administrator (the tests that refuse to demote or to
\* remove the last one), unless a request took one away that had read the roles before
\* another request changed them: the test and the write are not one step.
KeepsAnAdmin == org = "live" /\ ~miscounted => Admins # {}
=============================================================================
