--------------------------- MODULE TenantOwnership ---------------------------
(***************************************************************************)
(* The privileged operations of an organization: suspension of members,    *)
(* role grants, and the four-eyes lifecycle requests, among them the       *)
(* transfer of ownership (identity/application and identity/infrastructure *)
(* administration.py and lifecycle.py, and their routes).                  *)
(*                                                                         *)
(* A request resolves its context, is judged on it by the service, and     *)
(* only then opens its transaction: whatever commits in between is not     *)
(* seen by the judgement.  A transaction that reads rows it has not locked *)
(* takes two steps, one that locks the organization takes one.             *)
(*                                                                         *)
(* X_Y is X with one plausible bug; no specification uses it.              *)
(***************************************************************************)
EXTENDS TenantRows

CONSTANTS
  Request,        \* requests that may be in flight together
  Lifecycle,      \* rows of tenant_lifecycle_requests
  NoUser,         \* a lifecycle request that names no target
  Grantable,      \* roles the instance grants
  MaxRequests     \* bound on the requests sent

ASSUME NoUserAssumption == NoUser \notin User
ASSUME GrantableAssumption ==
  Grantable \subseteq {"organization_admin", "integration_manager"}
ASSUME MaxRequestsAssumption == MaxRequests \in Nat

VARIABLES
  req,          \* the requests in flight
  lifecycle,    \* tenant_lifecycle_requests
  applied,      \* history: times the transition of a row was applied
  sent          \* requests sent so far

ownershipVars == <<lifecycle, applied>>
vars == <<rowVars, ownershipVars, req, sent>>

LifecycleAction == {"owner_transfer", "suspend", "export", "delete"}
NoFile == [status |-> "none", action |-> "export", target |-> NoUser,
           by |-> NoUser, approver |-> NoUser]

Idle == [step |-> "idle"]

\* An organization in which everybody has a session and some are admins.
Init ==
  /\ orgStatus = "active"
  /\ owner = Founder
  /\ member = [u \in User |-> "active"]
  /\ \E admins \in SUBSET (User \ {Founder}) :
       role = [u \in User |->
                [NoRole EXCEPT !["owner"] = IF u = Founder THEN 1 ELSE 0,
                               !["organization_admin"] = IF u \in admins THEN 1 ELSE 0,
                               !["employee"] = IF u = Founder THEN 0 ELSE 1]]
  /\ unit = Unit
  /\ membership = [u \in User |-> IF u = Founder THEN {} ELSE Department]
  /\ session = [s \in Session |-> [NoSession EXCEPT !.state = "live"]]
  /\ req = [q \in Request |-> Idle]
  /\ lifecycle = [l \in Lifecycle |-> NoFile]
  /\ applied = [l \in Lifecycle |-> 0]
  /\ sent = 0

-----------------------------------------------------------------------------
(* Requests: _context, then the guard of the service on that context.      *)

Send(q, s, op, arg) ==
  /\ req[q] = Idle
  /\ sent < MaxRequests
  /\ Resolves(s, session[s].secret)
  /\ req' = [req EXCEPT ![q] = [step |-> "sent", op |-> op, arg |-> arg,
                                context |-> Context(s)]]
  /\ sent' = sent + 1
  /\ UNCHANGED <<rowVars, ownershipVars>>

Serving(q, op, step) == req[q] # Idle /\ req[q].op = op /\ req[q].step = step

Done(q) == req' = [req EXCEPT ![q] = Idle]

\* The transaction keeps what it read, and the locks it took, until it writes.
Keep(q, seen) ==
  req' = [req EXCEPT ![q] = [step |-> "read", op |-> @.op, arg |-> @.arg,
                             context |-> @.context, seen |-> seen]]

MaySetStatus(c, u) == IsOwner(c) /\ StepUp(c) /\ c.actor # u
MayRevokeRole(c) == IsOwner(c) /\ StepUp(c)
MayGrant(c, u) == IsOwner(c) /\ StepUp(c) /\ c.actor # u
MayFile(c, action, target) ==
  /\ IsOwner(c)
  /\ StepUp(c)
  /\ target # c.actor
  /\ (action = "owner_transfer") <=> (target # NoUser)
MayApprove(c) == IsAdmin(c) /\ StepUp(c)

set_company_member_status(q, s) == \E u \in User, st \in {"active", "suspended"} :
  MaySetStatus(Context(s), u) /\ Send(q, s, "status", <<u, st>>)

revoke_company_role(q, s) == \E u \in User, r \in Grantable \cup {"owner"} :
  Holds(u, r) /\ MayRevokeRole(Context(s)) /\ Send(q, s, "revoke", <<u, r>>)

assign_privileged_role(q, s) == \E u \in User, r \in Grantable :
  MayGrant(Context(s), u) /\ Send(q, s, "grant", <<u, r>>)

request_tenant_lifecycle(q, s) ==
  \E action \in LifecycleAction, target \in User \cup {NoUser} :
    MayFile(Context(s), action, target) /\ Send(q, s, "file", <<action, target>>)

approve_tenant_lifecycle(q, s) == \E l \in Lifecycle :
  /\ lifecycle[l] # NoFile
  /\ MayApprove(Context(s))
  /\ Send(q, s, "approve", <<l>>)

-----------------------------------------------------------------------------
(* Transactions.                                                           *)

\* set_member_status and revoke_role hold the organization row FOR UPDATE.
LastActiveOwner(u) == ActiveOwners = {u}

\* The status is written without counting the owners.
StatusChanges_NoCount(u, st) == member[u] \notin {"absent", st}
StatusChanges(u, st) ==
  /\ member[u] \notin {"absent", st}
  /\ st = "suspended" => ~LastActiveOwner(u)

SetMemberStatus(q) ==
  /\ Serving(q, "status", "sent")
  /\ LET u == req[q].arg[1]  st == req[q].arg[2]
     IN \/ /\ StatusChanges(u, st)
           /\ member' = [member EXCEPT ![u] = st]
           /\ session' = IF st = "suspended" THEN RevokedFor({u}) ELSE session
        \/ ~StatusChanges(u, st) /\ UNCHANGED <<member, session>>
  /\ Done(q)
  /\ UNCHANGED <<organizationVars, role, unitVars, ownershipVars, sent>>

\* Owner rows are protected only while their holder counts as an owner.
Revocable(u, r) == Holds(u, r) /\ (r = "owner" => ~LastActiveOwner(u))

RevokeRole(q) ==
  /\ Serving(q, "revoke", "sent")
  /\ LET u == req[q].arg[1]  r == req[q].arg[2]
     IN role' = [role EXCEPT ![u][r] = IF Revocable(u, r) THEN @ - 1 ELSE @]
  /\ Done(q)
  /\ UNCHANGED <<organizationVars, member, unitVars, session, ownershipVars, sent>>

\* assign_role looks for the member and for a live assignment, unlocked ...
ReadAssignment(q) ==
  /\ Serving(q, "grant", "sent")
  /\ LET u == req[q].arg[1]  r == req[q].arg[2]
     IN IF member[u] = "active" /\ ~Holds(u, r) THEN Keep(q, r) ELSE Done(q)
  /\ UNCHANGED <<rowVars, ownershipVars, sent>>

\* ... and inserts one: nothing in the table forbids a second.
AssignRole(q) ==
  /\ Serving(q, "grant", "read")
  /\ role' = [role EXCEPT ![req[q].arg[1]][req[q].arg[2]] = @ + 1]
  /\ Done(q)
  /\ UNCHANGED <<organizationVars, member, unitVars, session, ownershipVars, sent>>

CreateRequest(q) ==
  /\ Serving(q, "file", "sent")
  /\ LET target == req[q].arg[2]
     IN \/ /\ orgStatus = "active"
           /\ target \in User => member[target] = "active"
           /\ \E l \in Lifecycle :
                /\ lifecycle[l] = NoFile
                /\ lifecycle' = [lifecycle EXCEPT ![l] =
                     [status |-> "pending", action |-> req[q].arg[1],
                      target |-> target, by |-> req[q].context.actor,
                      approver |-> NoUser]]
        \/ UNCHANGED lifecycle
  /\ Done(q)
  /\ UNCHANGED <<rowVars, applied, sent>>

\* approve_request locks the row of the request, not the organization, and
\* reads the owner of record and the target as they are now.
RowLocked(l) == \E q \in Request : Serving(q, "approve", "read") /\ req[q].arg[1] = l

Approvable(l, by) ==
  /\ lifecycle[l].status = "pending"
  /\ lifecycle[l].by # by
  /\ lifecycle[l].action = "owner_transfer" => member[lifecycle[l].target] = "active"

\* The request is read without FOR UPDATE.
ReadRequest_Unlocked(q) ==
  /\ Serving(q, "approve", "sent")
  /\ LET l == req[q].arg[1]
     IN IF Approvable(l, req[q].context.actor) THEN Keep(q, owner) ELSE Done(q)
  /\ UNCHANGED <<rowVars, ownershipVars, sent>>
ReadRequest(q) ==
  /\ Serving(q, "approve", "sent")
  /\ LET l == req[q].arg[1]
     IN /\ ~RowLocked(l)
        /\ IF Approvable(l, req[q].context.actor) THEN Keep(q, owner) ELSE Done(q)
  /\ UNCHANGED <<rowVars, ownershipVars, sent>>

\* _transfer_owner: the owner of record that was read loses the role.
TransferOwner(old, target) ==
  LET kept == [role EXCEPT ![old]["owner"] = 0]
  IN /\ owner' = target
     /\ role' = [kept EXCEPT ![target]["owner"] = IF @ > 0 THEN @ ELSE 1]
     /\ UNCHANGED <<orgStatus, session>>

ApplyAction(l, seen) ==
  CASE lifecycle[l].action = "owner_transfer" -> TransferOwner(seen, lifecycle[l].target)
    [] lifecycle[l].action = "suspend" -> /\ orgStatus' = "suspended"
                                          /\ session' = RevokedFor(User)
                                          /\ UNCHANGED <<owner, role>>
    [] lifecycle[l].action = "delete" -> /\ orgStatus' = "deletion_pending"
                                         /\ UNCHANGED <<owner, role, session>>
    [] lifecycle[l].action = "export" -> UNCHANGED <<organizationVars, role, session>>

ApproveRequest(q) ==
  /\ Serving(q, "approve", "read")
  /\ LET l == req[q].arg[1]
     IN /\ ApplyAction(l, req[q].seen)
        /\ lifecycle' = [lifecycle EXCEPT ![l].status = "approved",
                                          ![l].approver = req[q].context.actor]
        /\ applied' = [applied EXCEPT ![l] = @ + 1]
  /\ Done(q)
  /\ UNCHANGED <<member, unitVars, sent>>

-----------------------------------------------------------------------------
(* Specification.                                                          *)

Administer(q) ==
  \/ \E s \in Session :
       \/ set_company_member_status(q, s)
       \/ revoke_company_role(q, s)
       \/ assign_privileged_role(q, s)
       \/ request_tenant_lifecycle(q, s)
       \/ approve_tenant_lifecycle(q, s)
  \/ SetMemberStatus(q)
  \/ RevokeRole(q)
  \/ ReadAssignment(q)
  \/ AssignRole(q)
  \/ CreateRequest(q)
  \/ ReadRequest(q)
  \/ ApproveRequest(q)

Next == \E q \in Request : Administer(q)

Spec == Init /\ [][Next]_vars

-----------------------------------------------------------------------------
(* Properties.                                                             *)

File == [status : {"none", "pending", "approved"}, action : LifecycleAction,
         target : User \cup {NoUser}, by : User \cup {NoUser},
         approver : User \cup {NoUser}]
SessionRow == [state : SessionState, expired : BOOLEAN, secret : Nat]

\* The rows have the columns and the values of identity/infrastructure/tables.py.
TypeOK ==
  /\ orgStatus \in OrgStatus
  /\ owner \in User
  /\ member \in [User -> MemberStatus]
  /\ role \in [User -> [Role -> Nat]]
  /\ unit \subseteq Unit
  /\ membership \in [User -> SUBSET Unit]
  /\ session \in [Session -> SessionRow]
  /\ lifecycle \in [Lifecycle -> File]
  /\ applied \in [Lifecycle -> Nat]
  /\ sent \in Nat

\* Suspending a member and revoking a role, however they interleave with each
\* other and with stale requests, never take the last active owner: only the
\* approval of a transfer can (set_member_status and revoke_role count the
\* owners under the lock of the organization).
OwnerLossOnlyByTransfer ==
  [][ActiveOwners # {} /\ ActiveOwners' = {} =>
       \E q \in Request : /\ Serving(q, "approve", "read")
                          /\ lifecycle[req[q].arg[1]].action = "owner_transfer"
                          /\ req'[q] = Idle]_vars

\* A lifecycle transition is applied at most once however many approvals are
\* in flight, and by somebody else than the owner who asked for it
\* (approve_request locks the pending row and compares the two users).
FourEyesOnce ==
  \A l \in Lifecycle :
    /\ applied[l] <= 1
    /\ applied[l] = 1 <=> lifecycle[l].status = "approved"
    /\ lifecycle[l].status = "approved" =>
         lifecycle[l].approver \in User \ {lifecycle[l].by}

\* docs/plans/F9_IMPLEMENTATION.md: "Concurrent owner changes lock the tenant
\* row; the final active Owner cannot be suspended".
SomeActiveOwner == orgStatus # "absent" => ActiveOwners # {}

=============================================================================
