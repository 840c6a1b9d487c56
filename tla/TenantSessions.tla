--------------------------- MODULE TenantSessions ---------------------------
(***************************************************************************)
(* How people get into an organization and stay there: provisioning, OIDC  *)
(* logins that issue sessions, invitations, rotation and revocation of     *)
(* sessions, and the units a member is put in (identity/infrastructure     *)
(* sessions.py, invitations.py, oidc.py, and their services and routes).   *)
(* The suspension of members comes from TenantOwnership.                   *)
(*                                                                         *)
(* X_Y is X with one plausible bug; no specification uses it.              *)
(***************************************************************************)
EXTENDS TenantOwnership

CONSTANTS
  Invitation,     \* rows of invitations
  Attempt         \* logins that may be in flight together

VARIABLES
  invitation,     \* status and department of an invitation, and its lapse
  accepted,       \* history: logins that an invitation let in
  attempt         \* OIDC logins

loginVars == <<invitation, accepted, attempt>>
sessionsVars == <<vars, loginVars>>

NoInvitation == "no invitation"
ASSUME InvitationAssumption == NoInvitation \notin Invitation

NoInvite == [status |-> "none", department |-> {}, lapsed |-> FALSE]
NoAttempt == [step |-> "idle"]

LoginsInit ==
  /\ invitation = [i \in Invitation |-> NoInvite]
  /\ accepted = [i \in Invitation |-> 0]
  /\ attempt = [t \in Attempt |-> NoAttempt]

SessionsInit ==
  /\ orgStatus = "absent"
  /\ owner = Founder
  /\ member = [u \in User |-> "absent"]
  /\ role = [u \in User |-> NoRole]
  /\ unit = {}
  /\ membership = [u \in User |-> {}]
  /\ session = [s \in Session |-> NoSession]
  /\ req = [q \in Request |-> Idle]
  /\ lifecycle = [l \in Lifecycle |-> NoFile]
  /\ applied = [l \in Lifecycle |-> 0]
  /\ sent = 0
  /\ LoginsInit

\* TenantLifecycleService.provision: organization, owner of record, member
\* and owner role in one transaction; an existing organization is refused.
Provision ==
  /\ orgStatus = "absent"
  /\ orgStatus' = "active"
  /\ owner' = Founder
  /\ member' = [member EXCEPT ![Founder] = "active"]
  /\ role' = [role EXCEPT ![Founder]["owner"] = @ + 1]
  /\ UNCHANGED <<unitVars, session, ownershipVars, req, sent, loginVars>>

-----------------------------------------------------------------------------
(* Units.                                                                  *)

\* The guard of the service judges the caller only: what the request is about
\* is chosen when its transaction runs.
ByAdmin(q, s, op) == IsAdmin(Context(s)) /\ Send(q, s, op, <<>>)

create_department(q, s) == ByAdmin(q, s, "department")
create_team(q, s) == ByAdmin(q, s, "team")
create_project(q, s) == ByAdmin(q, s, "project")
assign_unit_membership(q, s) == ByAdmin(q, s, "membership")

\* A unit may name a manager: an active member, or for a team somebody of its
\* department.
ActiveManager(m) == m \in User => member[m] = "active"
DepartmentManager(m, d) == m \in User => d \in membership[m]

\* Inserted, or refused: the names and codes of units are unique, and a child
\* needs its department.
Insert(x) == unit' = unit \cup {x}

CreateDepartment(q) ==
  /\ Serving(q, "department", "sent")
  /\ \/ \E x \in Department \ unit, m \in User \cup {NoUser} : ActiveManager(m) /\ Insert(x)
     \/ UNCHANGED unit
  /\ Done(q)
  /\ UNCHANGED <<organizationVars, memberVars, membership, session, ownershipVars,
                 sent, loginVars>>

CreateTeam(q) ==
  /\ Serving(q, "team", "sent")
  /\ \/ \E x \in Team \ unit, m \in User \cup {NoUser} :
          DepartmentOf[x] \in unit /\ DepartmentManager(m, DepartmentOf[x]) /\ Insert(x)
     \/ UNCHANGED unit
  /\ Done(q)
  /\ UNCHANGED <<organizationVars, memberVars, membership, session, ownershipVars,
                 sent, loginVars>>

CreateProject(q) ==
  /\ Serving(q, "project", "sent")
  /\ \/ \E x \in Project \ unit, m \in User \cup {NoUser} :
          DepartmentOf[x] \in unit /\ ActiveManager(m) /\ Insert(x)
     \/ UNCHANGED unit
  /\ Done(q)
  /\ UNCHANGED <<organizationVars, memberVars, membership, session, ownershipVars,
                 sent, loginVars>>

\* assign_membership: a row that exists already fails on its primary key.
MayJoin(u, x) ==
  /\ member[u] = "active"
  /\ x \in unit \ membership[u]
  /\ x \in Team => DepartmentOf[x] \in membership[u]

AssignMembership(q) ==
  /\ Serving(q, "membership", "sent")
  /\ \/ \E u \in User, x \in Unit :
          MayJoin(u, x) /\ membership' = [membership EXCEPT ![u] = @ \cup {x}]
     \/ UNCHANGED membership
  /\ Done(q)
  /\ UNCHANGED <<organizationVars, memberVars, unit, session, ownershipVars,
                 sent, loginVars>>

-----------------------------------------------------------------------------
(* Invitations.                                                            *)

create_company_invitation(q, s) == ByAdmin(q, s, "invite")

CreateInvitation(q) ==
  /\ Serving(q, "invite", "sent")
  /\ \/ \E i \in Invitation, d \in Department \cap unit :
          /\ invitation[i] = NoInvite
          /\ invitation' = [invitation EXCEPT ![i] =
               [status |-> "pending", department |-> {d}, lapsed |-> FALSE]]
     \/ UNCHANGED invitation
  /\ Done(q)
  /\ UNCHANGED <<rowVars, ownershipVars, sent, accepted, attempt>>

\* The 72 hours of an invitation are over.
Lapse(i) ==
  /\ invitation[i].status = "pending" /\ ~invitation[i].lapsed
  /\ invitation' = [invitation EXCEPT ![i].lapsed = TRUE]
  /\ UNCHANGED <<vars, accepted, attempt>>

revoke_company_invitation(q, s) == \E i \in Invitation :
  /\ invitation[i] # NoInvite
  /\ IsAdmin(Context(s))
  /\ Send(q, s, "uninvite", <<i>>)

\* revoke reads the pending row without a lock ...
ReadInvitation(q) ==
  /\ Serving(q, "uninvite", "sent")
  /\ IF invitation[req[q].arg[1]].status = "pending" THEN Keep(q, "pending") ELSE Done(q)
  /\ UNCHANGED <<rowVars, ownershipVars, sent, loginVars>>

InvitationLocked(i) == \E t \in Attempt : attempt[t].step = "read" /\ attempt[t].link = i

\* ... and writes once nobody holds it, whatever it has become meanwhile.
RevokeInvitation(q) ==
  /\ Serving(q, "uninvite", "read")
  /\ ~InvitationLocked(req[q].arg[1])
  /\ invitation' = [invitation EXCEPT ![req[q].arg[1]].status = "revoked"]
  /\ Done(q)
  /\ UNCHANGED <<rowVars, ownershipVars, sent, accepted, attempt>>

-----------------------------------------------------------------------------
(* Logins.                                                                 *)

Valid(i) == invitation[i].status = "pending" /\ ~invitation[i].lapsed

\* oidc_login, or accept_invitation_login after inspect.
StartLogin(t, s, link) ==
  /\ attempt[t] = NoAttempt
  /\ session[s] = NoSession
  /\ link # NoInvitation => Valid(link) /\ orgStatus = "active"
  /\ attempt' = [attempt EXCEPT ![t] = [step |-> "started", token |-> s, link |-> link]]
  /\ UNCHANGED <<vars, invitation, accepted>>

\* The state has expired, the exchange fails or verify_id_token refuses.
LoginFails(t) ==
  /\ attempt[t].step = "started"
  /\ attempt' = [attempt EXCEPT ![t] = NoAttempt]
  /\ UNCHANGED <<vars, invitation, accepted>>

\* issue takes the invitation FOR UPDATE, evaluating its predicate after any
\* wait, and reads the member without a lock.
Admissible(s, link) ==
  IF link = NoInvitation THEN member[UserOf[s]] = "active"
  ELSE Valid(link) /\ member[UserOf[s]] # "suspended"

\* The invitation is read without FOR UPDATE.
ReadLogin_Unlocked(t) ==
  /\ attempt[t].step = "started"
  /\ LET s == attempt[t].token  link == attempt[t].link
     IN attempt' = [attempt EXCEPT ![t] =
             IF Admissible(s, link)
             THEN [step |-> "read", token |-> s, link |-> link,
                   member |-> member[UserOf[s]], units |-> membership[UserOf[s]]]
             ELSE NoAttempt]
  /\ UNCHANGED <<vars, invitation, accepted>>
ReadLogin(t) ==
  /\ attempt[t].step = "started"
  /\ LET s == attempt[t].token  link == attempt[t].link
     IN /\ link # NoInvitation => ~InvitationLocked(link)
        /\ attempt' = [attempt EXCEPT ![t] =
             IF Admissible(s, link)
             THEN [step |-> "read", token |-> s, link |-> link,
                   member |-> member[UserOf[s]], units |-> membership[UserOf[s]]]
             ELSE NoAttempt]
  /\ UNCHANGED <<vars, invitation, accepted>>

\* A member or department row that somebody else has inserted since it was
\* read, or a session of the same ID token, fails the whole transaction.
Conflict(t) ==
  LET s == attempt[t].token  u == UserOf[s]
  IN \/ session[s] # NoSession
     \/ /\ attempt[t].link # NoInvitation
        /\ \/ attempt[t].member = "absent" /\ member[u] # "absent"
           \/ ~(invitation[attempt[t].link].department \cap membership[u]
                  \subseteq attempt[t].units)

Issue(t) ==
  /\ attempt[t].step = "read"
  /\ ~Conflict(t)
  /\ LET s == attempt[t].token  u == UserOf[s]  link == attempt[t].link
     IN /\ session' = [session EXCEPT ![s] = [NoSession EXCEPT !.state = "live"]]
        /\ IF link = NoInvitation
           THEN UNCHANGED <<member, role, membership, invitation, accepted>>
           ELSE /\ invitation' = [invitation EXCEPT ![link].status = "accepted"]
                /\ accepted' = [accepted EXCEPT ![link] = @ + 1]
                /\ LET d == CHOOSE x \in invitation[link].department : TRUE
                   IN IF attempt[t].member = "absent" THEN AdmitMember(u, d)
                      ELSE /\ membership' = [membership EXCEPT ![u] = @ \cup {d}]
                           /\ UNCHANGED memberVars
  /\ attempt' = [attempt EXCEPT ![t] = NoAttempt]
  /\ UNCHANGED <<organizationVars, unit, ownershipVars, req, sent>>

Rollback(t) ==
  /\ attempt[t].step = "read"
  /\ Conflict(t)
  /\ attempt' = [attempt EXCEPT ![t] = NoAttempt]
  /\ UNCHANGED <<vars, invitation, accepted>>

-----------------------------------------------------------------------------
(* Sessions.                                                               *)

\* The end of a session passes.
ExpireSession(s) ==
  /\ Live(s) /\ ~session[s].expired
  /\ session' = [session EXCEPT ![s].expired = TRUE]
  /\ UNCHANGED <<organizationVars, memberVars, unitVars, ownershipVars, req, sent,
                 loginVars>>

refresh_auth_session(q, s) == Send(q, s, "refresh", <<s>>)

revoke_auth_session(q, s) == \E other \in Session :
  session[other] # NoSession /\ Send(q, s, "logout", <<other>>)

\* The row is found by its identifier alone.
Refreshable_ById(s) == session[s] # NoSession
\* refresh: one UPDATE under its predicates; the end moves into the future.
Refreshable(s) == Live(s) /\ ~session[s].expired

Refresh(q) ==
  /\ Serving(q, "refresh", "sent")
  /\ LET s == req[q].arg[1]
     IN session' = IF Refreshable(s)
                   THEN [session EXCEPT ![s].secret = @ + 1, ![s].expired = FALSE]
                   ELSE session
  /\ Done(q)
  /\ UNCHANGED <<organizationVars, memberVars, unitVars, ownershipVars, sent, loginVars>>

\* revoke: the session must be the caller's and live.
RevokeSession(q) ==
  /\ Serving(q, "logout", "sent")
  /\ LET s == req[q].arg[1]
     IN session' = IF Live(s) /\ UserOf[s] = req[q].context.actor
                   THEN [session EXCEPT ![s].state = "revoked"] ELSE session
  /\ Done(q)
  /\ UNCHANGED <<organizationVars, memberVars, unitVars, ownershipVars, sent, loginVars>>

-----------------------------------------------------------------------------
(* Specification.                                                          *)

Ask(q, s) ==
  \/ create_department(q, s)
  \/ create_team(q, s)
  \/ create_project(q, s)
  \/ assign_unit_membership(q, s)
  \/ create_company_invitation(q, s)
  \/ revoke_company_invitation(q, s)
  \/ refresh_auth_session(q, s)
  \/ revoke_auth_session(q, s)
  \/ set_company_member_status(q, s)

SessionsNext ==
  \/ Provision
  \/ \E q \in Request :
       \/ \E s \in Session : Ask(q, s) /\ UNCHANGED loginVars
       \/ SetMemberStatus(q) /\ UNCHANGED loginVars
       \/ CreateDepartment(q)
       \/ CreateTeam(q)
       \/ CreateProject(q)
       \/ AssignMembership(q)
       \/ CreateInvitation(q)
       \/ ReadInvitation(q)
       \/ RevokeInvitation(q)
       \/ Refresh(q)
       \/ RevokeSession(q)
  \/ \E i \in Invitation : Lapse(i)
  \/ \E s \in Session : ExpireSession(s)
  \/ \E t \in Attempt :
       \/ \E s \in Session, link \in Invitation \cup {NoInvitation} : StartLogin(t, s, link)
       \/ LoginFails(t)
       \/ ReadLogin(t)
       \/ Issue(t)
       \/ Rollback(t)

SessionsSpec == SessionsInit /\ [][SessionsNext]_sessionsVars

-----------------------------------------------------------------------------
(* Properties.                                                             *)

\* However logins with one link race with each other and with a revocation,
\* an invitation lets one login in, nobody but the founder becomes a member
\* without one, and who does is an employee with a department from then on
\* (issue takes the invitation FOR UPDATE; F9: "single-use").
InvitationsAdmitOnce ==
  [][/\ \A i \in Invitation : /\ accepted'[i] <= 1
                              /\ invitation'[i].status = "accepted" => accepted'[i] = 1
     /\ \A u \in User \ {Founder} :
          member[u] = "absent" /\ member'[u] # "absent" =>
            /\ \E i \in Invitation : accepted'[i] = accepted[i] + 1
            /\ membership'[u] \cap Department # {}
            /\ role'[u]["employee"] > 0]_sessionsVars

\* A session that was revoked or has run out never comes back, although a
\* refresh resolved its context before that (refresh repeats the predicates
\* in its UPDATE).
EndedSessionsStayEnded ==
  [][\A s \in Session :
       session[s].state = "revoked" \/ session[s].expired =>
         /\ session'[s].secret = session[s].secret
         /\ session'[s].state = "revoked" \/ session'[s].expired]_sessionsVars

=============================================================================
