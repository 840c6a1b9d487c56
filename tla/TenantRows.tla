----------------------------- MODULE TenantRows -----------------------------
(***************************************************************************)
(* The identity rows of one organization (identity/infrastructure/         *)
(* tables.py) and the authority that every request rebuilds from them      *)
(* (identity/infrastructure/context.py).  TenantOwnership and              *)
(* TenantSessions are the transactions that write them.                    *)
(*                                                                         *)
(* Dates of validity other than the end of a session are never written by  *)
(* the code and are left out, as are audit rows and names.                 *)
(***************************************************************************)
EXTENDS Naturals, FiniteSets

CONSTANTS
  User,           \* identity_users
  Founder,        \* the owner of the provisioned organization
  Session,        \* sessions, one per ID token of the provider
  UserOf,         \* the subject of the ID token of a session
  AssuranceOf,    \* the assurance the token carries
  Department, Team, Project,
  DepartmentOf    \* department_id of a team or a project

ASSUME FounderAssumption == Founder \in User
ASSUME UserOfAssumption == UserOf \in [Session -> User]
ASSUME AssuranceAssumption ==
  AssuranceOf \in [Session -> {"standard", "mfa", "step_up"}]
ASSUME DepartmentOfAssumption == DepartmentOf \in [Team \cup Project -> Department]

VARIABLES
  orgStatus,    \* organizations.status; "absent" before provision
  owner,        \* organizations.owner_user_id
  member,       \* organization_members.status
  role,         \* live rows of role_assignments per user and role
  unit,         \* departments, teams and projects that exist
  membership,   \* units of which a user is a member
  session       \* auth_sessions

organizationVars == <<orgStatus, owner>>
memberVars == <<member, role>>
unitVars == <<unit, membership>>
rowVars == <<organizationVars, memberVars, unitVars, session>>

Role == {"owner", "organization_admin", "integration_manager", "employee"}
Unit == Department \cup Team \cup Project

OrgStatus == {"absent", "active", "suspended", "deletion_pending"}
MemberStatus == {"absent", "active", "suspended"}
SessionState == {"none", "live", "revoked"}

NoRole == [r \in Role |-> 0]
NoSession == [state |-> "none", expired |-> FALSE, secret |-> 0]

Holds(u, r) == role[u][r] > 0
Live(s) == session[s].state = "live"

\* Members who could still administer: the join of the last-owner checks.
ActiveOwners == {u \in User : member[u] = "active" /\ Holds(u, "owner")}

\* What resolve and resolve_delegated demand of the organization and of the
\* member, for a request and for resumed background work alike.
MayAct(u) ==
  /\ orgStatus = "active"
  /\ member[u] = "active"
  /\ Holds(u, "employee") => membership[u] \cap Department # {}

\* resolve: an unexpired session, the token hash of its row, and MayAct.
Resolves(s, secret) ==
  /\ Live(s)
  /\ ~session[s].expired
  /\ session[s].secret = secret
  /\ MayAct(UserOf[s])

\* The ExecutionContext a request carries from then on.
Context(s) ==
  [actor |-> UserOf[s],
   roles |-> {r \in Role : Holds(UserOf[s], r)},
   assurance |-> AssuranceOf[s],
   session |-> s]

IsAdmin(c) == c.roles \cap {"owner", "organization_admin"} # {}
IsOwner(c) == "owner" \in c.roles
StepUp(c) == c.assurance \in {"mfa", "step_up"}

\* Sessions after every live one of the given users has been revoked.
RevokedFor(users) ==
  [s \in Session |-> IF Live(s) /\ UserOf[s] \in users
                     THEN [session[s] EXCEPT !.state = "revoked"]
                     ELSE session[s]]

\* What an accepted invitation leaves: member, department and employee rows.
AdmitMember(u, d) ==
  /\ member' = [member EXCEPT ![u] = "active"]
  /\ role' = [role EXCEPT ![u]["employee"] = @ + 1]
  /\ membership' = [membership EXCEPT ![u] = @ \cup {d}]

=============================================================================
