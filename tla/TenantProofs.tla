----------------------------- MODULE TenantProofs -----------------------------
(***************************************************************************)
(* Machine-checked proofs about TenantOwnership and TenantSessions, for    *)
(* every set of people, sessions, requests, lifecycle rows, invitations    *)
(* and logins and every number of requests.                                *)
(***************************************************************************)
EXTENDS TenantSessions, TLAPS

-----------------------------------------------------------------------------
(* Type correctness *)

ContextRow == [actor : User, roles : SUBSET Role,
               assurance : {"standard", "mfa", "step_up"}, session : Session]

Sent(op, args) ==
  [step : {"sent"}, op : {op}, arg : args, context : ContextRow]

Read(op, args, seen) ==
  [step : {"read"}, op : {op}, arg : args, context : ContextRow, seen : seen]

\* A transfer names whom it is to, and nothing else does.
FileArg == {x \in LifecycleAction \X (User \cup {NoUser}) :
              x[1] = "owner_transfer" => x[2] \in User}

LifecycleArg == {<<l>> : l \in Lifecycle}

\* What a request carries, by its operation.
RequestRow ==
  {Idle}
  \cup Sent("status", User \X {"active", "suspended"})
  \cup Sent("revoke", User \X Role)
  \cup Sent("grant", User \X Role)
  \cup Read("grant", User \X Role, Role)
  \cup Sent("file", FileArg)
  \cup Sent("approve", LifecycleArg)
  \cup Read("approve", LifecycleArg, User)

\* The row of a transfer names whom it is to.
Targeted ==
  \A l \in Lifecycle :
    lifecycle[l].action = "owner_transfer" => lifecycle[l].target \in User

\* The types of the rows and of the requests in flight.
Typed == TypeOK /\ Targeted /\ req \in [Request -> RequestRow]

\* What a request in its step is about.
LEMMA Carried ==
  ASSUME Typed, NEW q \in Request
  PROVE  /\ Serving(q, "status", "sent") =>
              /\ req[q].arg[1] \in User
              /\ req[q].arg[2] \in {"active", "suspended"}
         /\ Serving(q, "revoke", "sent") =>
              req[q].arg[1] \in User /\ req[q].arg[2] \in Role
         /\ Serving(q, "grant", "sent") =>
              /\ req[q].arg[1] \in User /\ req[q].arg[2] \in Role
              /\ req[q] \in Sent("grant", User \X Role)
         /\ Serving(q, "grant", "read") =>
              req[q].arg[1] \in User /\ req[q].arg[2] \in Role
         /\ Serving(q, "file", "sent") =>
              /\ req[q].arg[1] \in LifecycleAction
              /\ req[q].arg[2] \in User \cup {NoUser}
              /\ req[q].arg[1] = "owner_transfer" => req[q].arg[2] \in User
              /\ req[q].context.actor \in User
         /\ Serving(q, "approve", "sent") =>
              /\ req[q].arg[1] \in Lifecycle /\ req[q].context.actor \in User
              /\ req[q] \in Sent("approve", LifecycleArg)
         /\ Serving(q, "approve", "read") =>
              /\ req[q].arg[1] \in Lifecycle /\ req[q].context.actor \in User
              /\ req[q].seen \in User
<1>1. req[q] \in RequestRow
  BY DEF Typed
<1>2. CASE req[q] = Idle
  BY <1>2 DEF Serving
<1>3. CASE req[q] \in Sent("status", User \X {"active", "suspended"})
  BY <1>3 DEF Serving, Sent
<1>4. CASE req[q] \in Sent("revoke", User \X Role)
  BY <1>4 DEF Serving, Sent
<1>5. CASE req[q] \in Sent("grant", User \X Role)
  BY <1>5 DEF Serving, Sent
<1>6. CASE req[q] \in Read("grant", User \X Role, Role)
  BY <1>6 DEF Serving, Read
<1>7. CASE req[q] \in Sent("file", FileArg)
  BY <1>7 DEF Serving, Sent, ContextRow, FileArg
<1>8. CASE req[q] \in Sent("approve", LifecycleArg)
  BY <1>8 DEF Serving, Sent, ContextRow, LifecycleArg
<1>9. CASE req[q] \in Read("approve", LifecycleArg, User)
  BY <1>9 DEF Serving, Read, ContextRow, LifecycleArg
<1> QED
  BY <1>1, <1>2, <1>3, <1>4, <1>5, <1>6, <1>7, <1>8, <1>9 DEF RequestRow

\* The context of a session is in its type.
LEMMA ContextType == ASSUME NEW s \in Session PROVE Context(s) \in ContextRow
BY UserOfAssumption, AssuranceAssumption DEF Context, ContextRow

\* A request that is sent carries what its operation carries.
LEMMA SendType ==
  ASSUME Typed, NEW q \in Request, NEW s \in Session, NEW op, NEW arg, NEW args,
         arg \in args, Sent(op, args) \subseteq RequestRow, Send(q, s, op, arg)
  PROVE  Typed'
<1> DEFINE row == [step |-> "sent", op |-> op, arg |-> arg, context |-> Context(s)]
<1>1. row \in Sent(op, args)
  BY ContextType DEF Sent
<1>2. req' = [req EXCEPT ![q] = row]
  BY DEF Send
<1>3. row \in RequestRow
  BY <1>1
<1> HIDE DEF row
<1>4. req' \in [Request -> RequestRow]
  BY <1>2, <1>3 DEF Typed
<1> QED
  BY <1>4 DEF Send, Typed, Targeted, TypeOK, rowVars, organizationVars, memberVars,
              unitVars, ownershipVars

\* A request that ends leaves the others alone.
LEMMA DoneType ==
  ASSUME Typed, NEW q \in Request, Done(q)
  PROVE  req' \in [Request -> RequestRow]
BY DEF Done, Typed, RequestRow

\* A transaction that has read keeps what the request carried, and what it saw.
LEMMA KeepType ==
  ASSUME Typed, NEW q \in Request, NEW op, NEW args, NEW seens, NEW seen \in seens,
         req[q] \in Sent(op, args), Keep(q, seen),
         Read(op, args, seens) \subseteq RequestRow
  PROVE  req' \in [Request -> RequestRow]
<1> DEFINE row == [step |-> "read", op |-> req[q].op, arg |-> req[q].arg,
                   context |-> req[q].context, seen |-> seen]
<1>1. row \in Read(op, args, seens)
  BY DEF Sent, Read
<1>2. req' = [req EXCEPT ![q] = row]
  BY DEF Keep, Typed
<1> HIDE DEF row
<1> QED
  BY <1>1, <1>2 DEF Typed

\* Revoking sessions changes their state only.
LEMMA RevokedType ==
  ASSUME session \in [Session -> SessionRow], NEW users
  PROVE  RevokedFor(users) \in [Session -> SessionRow]
<1>1. ASSUME NEW s \in Session PROVE RevokedFor(users)[s] \in SessionRow
  <2>1. session[s] \in SessionRow
    OBVIOUS
  <2>2. [session[s] EXCEPT !.state = "revoked"] \in SessionRow
    BY <2>1 DEF SessionRow, SessionState
  <2> QED
    BY <2>1, <2>2 DEF RevokedFor
<1> QED
  BY <1>1 DEF RevokedFor

\* The founded organization is in its types.
LEMMA InitTyped == Init => Typed
<1> SUFFICES ASSUME Init PROVE Typed
  OBVIOUS
<1>1. role \in [User -> [Role -> Nat]]
  BY DEF Init, NoRole, Role
<1>2. session \in [Session -> SessionRow]
  BY DEF Init, NoSession, SessionRow, SessionState
<1>3. lifecycle \in [Lifecycle -> File]
  BY DEF Init, NoFile, File, LifecycleAction
<1>4. req \in [Request -> RequestRow]
  BY DEF Init, RequestRow
<1> QED
  BY <1>1, <1>2, <1>3, <1>4, FounderAssumption
  DEF Init, Typed, Targeted, NoFile, TypeOK, OrgStatus, MemberStatus, Unit

\* A request enters with what its operation carries.
LEMMA AskTyped ==
  ASSUME Typed, NEW q \in Request, NEW s \in Session,
         \/ set_company_member_status(q, s) \/ revoke_company_role(q, s)
         \/ assign_privileged_role(q, s) \/ request_tenant_lifecycle(q, s)
         \/ approve_tenant_lifecycle(q, s)
  PROVE  Typed'
<1>1. CASE set_company_member_status(q, s)
  <2>1. Sent("status", User \X {"active", "suspended"}) \subseteq RequestRow
    BY DEF RequestRow
  <2>2. PICK u \in User, st \in {"active", "suspended"} :
               Send(q, s, "status", <<u, st>>)
    BY <1>1 DEF set_company_member_status
  <2> QED
    BY <2>1, <2>2, SendType
<1>2. CASE revoke_company_role(q, s)
  <2>1. Sent("revoke", User \X Role) \subseteq RequestRow
    BY DEF RequestRow
  <2>2. PICK u \in User, r \in Role : Send(q, s, "revoke", <<u, r>>)
    BY <1>2, GrantableAssumption DEF revoke_company_role, Role
  <2> QED
    BY <2>1, <2>2, SendType
<1>3. CASE assign_privileged_role(q, s)
  <2>1. Sent("grant", User \X Role) \subseteq RequestRow
    BY DEF RequestRow
  <2>2. PICK u \in User, r \in Role : Send(q, s, "grant", <<u, r>>)
    BY <1>3, GrantableAssumption DEF assign_privileged_role, Role
  <2> QED
    BY <2>1, <2>2, SendType
<1>4. CASE request_tenant_lifecycle(q, s)
  <2>1. Sent("file", FileArg) \subseteq RequestRow
    BY DEF RequestRow
  <2>2. PICK action \in LifecycleAction, target \in User \cup {NoUser} :
               MayFile(Context(s), action, target) /\
               Send(q, s, "file", <<action, target>>)
    BY <1>4 DEF request_tenant_lifecycle
  <2>3. <<action, target>> \in FileArg
    BY <2>2 DEF MayFile, FileArg
  <2> QED
    BY <2>1, <2>2, <2>3, SendType
<1>5. CASE approve_tenant_lifecycle(q, s)
  <2>1. Sent("approve", LifecycleArg) \subseteq RequestRow
    BY DEF RequestRow
  <2>2. PICK l \in Lifecycle : Send(q, s, "approve", <<l>>)
    BY <1>5 DEF approve_tenant_lifecycle
  <2>3. <<l>> \in LifecycleArg
    BY DEF LifecycleArg
  <2> QED
    BY <2>1, <2>2, <2>3, SendType
<1> QED
  BY <1>1, <1>2, <1>3, <1>4, <1>5

\* The rows stay in their types when they stand still.
LEMMA StillTyped ==
  ASSUME Typed, req' \in [Request -> RequestRow], UNCHANGED <<rowVars, ownershipVars, sent>>
  PROVE  Typed'
BY DEF Typed, Targeted, TypeOK, rowVars, organizationVars, memberVars, unitVars,
       ownershipVars

\* The types are inductive.
LEMMA NextTyped == Typed /\ [Next]_vars => Typed'
<1> SUFFICES ASSUME Typed, [Next]_vars PROVE Typed'
  OBVIOUS
<1>0. /\ member \in [User -> MemberStatus] /\ role \in [User -> [Role -> Nat]]
      /\ session \in [Session -> SessionRow] /\ lifecycle \in [Lifecycle -> File]
      /\ applied \in [Lifecycle -> Nat] /\ owner \in User /\ orgStatus \in OrgStatus
      /\ req \in [Request -> RequestRow] /\ Targeted
  BY DEF Typed, TypeOK
<1>1. ASSUME NEW q \in Request, Administer(q) PROVE Typed'
  <2>1. CASE \E s \in Session :
               \/ set_company_member_status(q, s) \/ revoke_company_role(q, s)
               \/ assign_privileged_role(q, s) \/ request_tenant_lifecycle(q, s)
               \/ approve_tenant_lifecycle(q, s)
    BY <2>1, AskTyped
  <2>2. CASE SetMemberStatus(q)
    <3>1. req[q].arg[1] \in User /\ req[q].arg[2] \in {"active", "suspended"}
      BY <2>2, Carried DEF SetMemberStatus
    <3>2. member' \in [User -> MemberStatus]
      BY <1>0, <2>2, <3>1 DEF SetMemberStatus, MemberStatus
    <3>3. session' \in [Session -> SessionRow]
      BY <1>0, <2>2, RevokedType DEF SetMemberStatus
    <3>4. req' \in [Request -> RequestRow]
      BY <2>2, DoneType DEF SetMemberStatus
    <3> QED
      BY <2>2, <3>2, <3>3, <3>4
      DEF SetMemberStatus, Typed, Targeted, TypeOK, organizationVars, unitVars, ownershipVars
  <2>3. CASE RevokeRole(q)
    <3>1. req[q].arg[1] \in User /\ req[q].arg[2] \in Role
      BY <2>3, Carried DEF RevokeRole
    <3>2. role' \in [User -> [Role -> Nat]]
      BY <1>0, <2>3, <3>1 DEF RevokeRole, Revocable, Holds
    <3>3. req' \in [Request -> RequestRow]
      BY <2>3, DoneType DEF RevokeRole
    <3> QED
      BY <2>3, <3>2, <3>3
      DEF RevokeRole, Typed, Targeted, TypeOK, organizationVars, unitVars, ownershipVars
  <2>4. CASE ReadAssignment(q)
    <3>1. req[q] \in Sent("grant", User \X Role) /\ req[q].arg[2] \in Role
      BY <2>4, Carried DEF ReadAssignment
    <3>2. Read("grant", User \X Role, Role) \subseteq RequestRow
      BY DEF RequestRow
    <3>3. req' \in [Request -> RequestRow]
      BY <2>4, <3>1, <3>2, DoneType, KeepType DEF ReadAssignment
    <3> QED
      BY <2>4, <3>3, StillTyped DEF ReadAssignment
  <2>5. CASE AssignRole(q)
    <3>1. req[q].arg[1] \in User /\ req[q].arg[2] \in Role
      BY <2>5, Carried DEF AssignRole
    <3>2. role' \in [User -> [Role -> Nat]]
      BY <1>0, <2>5, <3>1 DEF AssignRole
    <3>3. req' \in [Request -> RequestRow]
      BY <2>5, DoneType DEF AssignRole
    <3> QED
      BY <2>5, <3>2, <3>3
      DEF AssignRole, Typed, Targeted, TypeOK, organizationVars, unitVars, ownershipVars
  <2>6. CASE CreateRequest(q)
    <3>1. /\ req[q].arg[1] \in LifecycleAction
          /\ req[q].arg[2] \in User \cup {NoUser}
          /\ req[q].arg[1] = "owner_transfer" => req[q].arg[2] \in User
          /\ req[q].context.actor \in User
      BY <2>6, Carried DEF CreateRequest
    <3>2. lifecycle' \in [Lifecycle -> File]
      BY <1>0, <2>6, <3>1 DEF CreateRequest, File
    <3>3. Targeted'
      BY <1>0, <2>6, <3>1 DEF CreateRequest, Targeted
    <3>4. req' \in [Request -> RequestRow]
      BY <2>6, DoneType DEF CreateRequest
    <3> QED
      BY <2>6, <3>2, <3>3, <3>4
      DEF CreateRequest, Typed, TypeOK, rowVars, organizationVars, memberVars, unitVars
  <2>7. CASE ReadRequest(q)
    <3>1. req[q] \in Sent("approve", LifecycleArg)
      BY <2>7, Carried DEF ReadRequest
    <3>2. Read("approve", LifecycleArg, User) \subseteq RequestRow
      BY DEF RequestRow
    <3>3. req' \in [Request -> RequestRow]
      BY <1>0, <2>7, <3>1, <3>2, DoneType, KeepType DEF ReadRequest
    <3> QED
      BY <2>7, <3>3, StillTyped DEF ReadRequest
  <2>8. CASE ApproveRequest(q)
    <3> DEFINE l == req[q].arg[1]
    <3>1. l \in Lifecycle /\ req[q].context.actor \in User /\ req[q].seen \in User
      BY <2>8, Carried DEF ApproveRequest
    <3>2. lifecycle[l] \in File
      BY <1>0, <3>1
    <3>3. /\ orgStatus' \in OrgStatus /\ owner' \in User
          /\ session' \in [Session -> SessionRow]
          /\ role' \in [User -> [Role -> Nat]]
      <4>1. ApplyAction(l, req[q].seen)
        BY <2>8 DEF ApproveRequest
      <4>2. CASE lifecycle[l].action = "owner_transfer"
        <5>1. TransferOwner(req[q].seen, lifecycle[l].target)
          BY <4>1, <4>2 DEF ApplyAction
        <5>2. lifecycle[l].target \in User
          BY <1>0, <3>1, <4>2 DEF Targeted
        <5>3. role' \in [User -> [Role -> Nat]]
          <6> DEFINE kept == [role EXCEPT ![req[q].seen]["owner"] = 0]
                     target == lifecycle[l].target
          <6>1. kept \in [User -> [Role -> Nat]]
            BY <1>0, <3>1 DEF Role
          <6>2. role' = [kept EXCEPT ![target]["owner"] = IF @ > 0 THEN @ ELSE 1]
            BY <5>1 DEF TransferOwner
          <6>3. target \in User /\ "owner" \in Role
            BY <5>2 DEF Role
          <6> HIDE DEF kept, target
          <6> QED
            BY <6>1, <6>2, <6>3
        <5> QED
          BY <1>0, <5>1, <5>2, <5>3 DEF TransferOwner
      <4>3. CASE lifecycle[l].action = "suspend"
        BY <1>0, <4>1, <4>3, RevokedType DEF ApplyAction, OrgStatus
      <4>4. CASE lifecycle[l].action = "delete"
        BY <1>0, <4>1, <4>4 DEF ApplyAction, OrgStatus
      <4>5. CASE lifecycle[l].action = "export"
        BY <1>0, <4>1, <4>5 DEF ApplyAction, organizationVars
      <4> QED
        BY <3>2, <4>2, <4>3, <4>4, <4>5 DEF File, LifecycleAction
    <3>4. lifecycle' \in [Lifecycle -> File] /\ applied' \in [Lifecycle -> Nat]
      <4> DEFINE row == [lifecycle[l] EXCEPT !.status = "approved",
                                             !.approver = req[q].context.actor]
      <4>1. row \in File
        BY <3>1, <3>2 DEF File
      <4>2. lifecycle' = [lifecycle EXCEPT ![l] = row]
        BY <2>8 DEF ApproveRequest
      <4>3. applied' = [applied EXCEPT ![l] = @ + 1]
        BY <2>8 DEF ApproveRequest
      <4> HIDE DEF row
      <4> QED
        BY <1>0, <3>1, <4>1, <4>2, <4>3
    <3>5. Targeted'
      BY <1>0, <2>8, <3>1 DEF ApproveRequest, Targeted, File
    <3>6. req' \in [Request -> RequestRow]
      BY <2>8, DoneType DEF ApproveRequest
    <3> QED
      BY <2>8, <3>3, <3>4, <3>5, <3>6 DEF ApproveRequest, Typed, TypeOK, unitVars
  <2> QED
    BY <1>1, <2>1, <2>2, <2>3, <2>4, <2>5, <2>6, <2>7, <2>8 DEF Administer
<1>2. ASSUME UNCHANGED vars PROVE Typed'
  BY <1>2 DEF vars, Typed, Targeted, TypeOK, rowVars, organizationVars, memberVars,
              unitVars, ownershipVars
<1> QED
  BY <1>1, <1>2 DEF Next

\* Every row and every request keeps its type (columns of identity/
\* infrastructure/tables.py, arguments and contexts of the routes).
THEOREM TypeCorrect == Spec => []TypeOK
<1>1. Typed => TypeOK
  BY DEF Typed
<1> QED
  BY <1>1, InitTyped, NextTyped, PTL DEF Spec

-----------------------------------------------------------------------------
(* Four eyes *)

\* A transaction that has read a pending row holds it alone, for somebody other
\* than the one who filed it.
Judged ==
  /\ \A q \in Request : Serving(q, "approve", "read") =>
       /\ lifecycle[req[q].arg[1]].status = "pending"
       /\ lifecycle[req[q].arg[1]].by # req[q].context.actor
  /\ \A p, q \in Request :
       /\ Serving(p, "approve", "read") /\ Serving(q, "approve", "read")
       /\ req[p].arg[1] = req[q].arg[1]
       => p = q

FourEyes == FourEyesOnce /\ Judged

\* Nothing is filed in the beginning.
LEMMA InitFourEyes == Init => FourEyes
BY DEF Init, FourEyes, FourEyesOnce, Judged, NoFile, Serving

\* Requests that do not arrive at an approval's write keep what is judged.
LEMMA FourEyesStill ==
  ASSUME Typed, FourEyes, UNCHANGED ownershipVars,
         \A q \in Request : \/ req'[q] = req[q]
                            \/ ~Serving(q, "approve", "read")'
  PROVE  FourEyes'
<1>1. FourEyesOnce'
  BY DEF FourEyes, FourEyesOnce, ownershipVars
<1>2. \A q \in Request : Serving(q, "approve", "read")' =>
        Serving(q, "approve", "read") /\ req'[q] = req[q]
  BY DEF Serving
<1>3. Judged'
  BY <1>2 DEF FourEyes, Judged, ownershipVars
<1> QED
  BY <1>1, <1>3 DEF FourEyes

\* A request that is sent, or done, has not read anything.
LEMMA OthersStill ==
  ASSUME Typed, NEW q \in Request,
         \/ Done(q)
         \/ \E s, op, arg : Send(q, s, op, arg)
         \/ \E seen : req[q].op = "grant" /\ req[q] # Idle /\ Keep(q, seen)
  PROVE  \A p \in Request : \/ req'[p] = req[p]
                            \/ ~Serving(p, "approve", "read")'
<1>0. req \in [Request -> RequestRow]
  BY DEF Typed
<1>1. CASE Done(q)
  BY <1>0, <1>1 DEF Done, Serving
<1>2. ASSUME NEW s, NEW op, NEW arg, Send(q, s, op, arg)
      PROVE  \A p \in Request : \/ req'[p] = req[p]
                                \/ ~Serving(p, "approve", "read")'
  <2> DEFINE row == [step |-> "sent", op |-> op, arg |-> arg, context |-> Context(s)]
  <2>1. row.step = "sent"
    OBVIOUS
  <2>2. req' = [req EXCEPT ![q] = row]
    BY <1>2 DEF Send
  <2> HIDE DEF row
  <2> QED
    BY <1>0, <2>1, <2>2 DEF Serving
<1>3. ASSUME NEW seen, req[q].op = "grant", Keep(q, seen)
      PROVE  \A p \in Request : \/ req'[p] = req[p]
                                \/ ~Serving(p, "approve", "read")'
  <2> DEFINE row == [step |-> "read", op |-> req[q].op, arg |-> req[q].arg,
                     context |-> req[q].context, seen |-> seen]
  <2>1. row.op = "grant"
    BY <1>3
  <2>2. req' = [req EXCEPT ![q] = row]
    BY <1>0, <1>3 DEF Keep
  <2> HIDE DEF row
  <2> QED
    BY <1>0, <2>1, <2>2 DEF Serving
<1> QED
  BY <1>1, <1>2, <1>3

\* Four eyes are inductive: the lock of the row keeps a second approval out, and
\* only its holder changes its status.
LEMMA NextFourEyes == Typed /\ FourEyes /\ [Next]_vars => FourEyes'
<1> SUFFICES ASSUME Typed, FourEyes, [Next]_vars PROVE FourEyes'
  OBVIOUS
<1>0. /\ lifecycle \in [Lifecycle -> File] /\ applied \in [Lifecycle -> Nat]
      /\ req \in [Request -> RequestRow] /\ NoUser \notin User
  BY NoUserAssumption DEF Typed, TypeOK
<1>1. ASSUME NEW q \in Request, Administer(q) PROVE FourEyes'
  <2>1. CASE \E s \in Session :
               \/ set_company_member_status(q, s) \/ revoke_company_role(q, s)
               \/ assign_privileged_role(q, s) \/ request_tenant_lifecycle(q, s)
               \/ approve_tenant_lifecycle(q, s)
    <3>1. \E s, op, arg : Send(q, s, op, arg)
      BY <2>1 DEF set_company_member_status, revoke_company_role,
                  assign_privileged_role, request_tenant_lifecycle,
                  approve_tenant_lifecycle
    <3>2. UNCHANGED ownershipVars
      BY <3>1 DEF Send
    <3> QED
      BY <3>1, <3>2, OthersStill, FourEyesStill
  <2>2. CASE SetMemberStatus(q) \/ RevokeRole(q) \/ AssignRole(q)
    BY <2>2, OthersStill, FourEyesStill DEF SetMemberStatus, RevokeRole, AssignRole
  <2>3. CASE ReadAssignment(q)
    <3>1. req[q].op = "grant" /\ req[q] # Idle
      BY <2>3 DEF ReadAssignment, Serving
    <3>2. Done(q) \/ \E seen : Keep(q, seen)
      BY <2>3 DEF ReadAssignment
    <3> QED
      BY <2>3, <3>1, <3>2, OthersStill, FourEyesStill DEF ReadAssignment
  <2>4. CASE CreateRequest(q)
    <3>0. /\ applied' = applied
          /\ \A p \in Request : \/ req'[p] = req[p]
                                \/ ~Serving(p, "approve", "read")'
      BY <2>4, OthersStill DEF CreateRequest
    <3>1. CASE UNCHANGED lifecycle
      BY <3>0, <3>1, FourEyesStill DEF ownershipVars
    <3>2. ASSUME NEW l \in Lifecycle, lifecycle[l] = NoFile,
                 lifecycle' = [lifecycle EXCEPT ![l] =
                   [status |-> "pending", action |-> req[q].arg[1],
                    target |-> req[q].arg[2], by |-> req[q].context.actor,
                    approver |-> NoUser]]
          PROVE  FourEyes'
      <4>1. /\ lifecycle[l].status = "none" /\ lifecycle'[l].status = "pending"
            /\ \A k \in Lifecycle \ {l} : lifecycle'[k] = lifecycle[k]
        BY <1>0, <3>2 DEF NoFile
      <4>2. FourEyesOnce'
        BY <3>0, <4>1 DEF FourEyes, FourEyesOnce
      <4>3. ASSUME NEW p \in Request, Serving(p, "approve", "read")'
            PROVE  /\ Serving(p, "approve", "read") /\ req'[p] = req[p]
                   /\ req[p].arg[1] \in Lifecycle \ {l}
        <5>1. Serving(p, "approve", "read") /\ req'[p] = req[p]
          BY <3>0, <4>3 DEF Serving
        <5> QED
          BY <4>1, <5>1, Carried DEF FourEyes, Judged
      <4>4. Judged'
        BY <4>1, <4>3 DEF FourEyes, Judged
      <4> QED
        BY <4>2, <4>4 DEF FourEyes
    <3> QED
      BY <2>4, <3>1, <3>2 DEF CreateRequest
  <2>5. CASE ReadRequest(q)
    <3> DEFINE l == req[q].arg[1]
    <3>0. UNCHANGED ownershipVars /\ Serving(q, "approve", "sent")
      BY <2>5 DEF ReadRequest
    <3>1. CASE Done(q)
      BY <3>0, <3>1, OthersStill, FourEyesStill
    <3>2. CASE Approvable(l, req[q].context.actor) /\ ~RowLocked(l) /\ Keep(q, owner)
      <4> DEFINE row == [step |-> "read", op |-> req[q].op, arg |-> req[q].arg,
                         context |-> req[q].context, seen |-> owner]
      <4>1. req' = [req EXCEPT ![q] = row]
        BY <1>0, <3>2 DEF Keep
      <4>2. row.arg = req[q].arg /\ row.context = req[q].context
        OBVIOUS
      <4> HIDE DEF row
      <4>3. /\ req'[q].arg[1] = l /\ req'[q].context.actor = req[q].context.actor
            /\ \A p \in Request \ {q} : req'[p] = req[p]
        BY <1>0, <4>1, <4>2
      <4>4. \A p \in Request \ {q} : Serving(p, "approve", "read")' =>
              /\ Serving(p, "approve", "read")
              /\ req[p].arg[1] # l
        BY <3>2, <4>3 DEF Serving, RowLocked
      <4>5. lifecycle[l].status = "pending" /\ lifecycle[l].by # req[q].context.actor
        BY <3>2 DEF Approvable
      <4>6. Judged'
        <5>1. ASSUME NEW p \in Request, Serving(p, "approve", "read")'
              PROVE  /\ lifecycle'[req'[p].arg[1]].status = "pending"
                     /\ lifecycle'[req'[p].arg[1]].by # req'[p].context.actor
          BY <3>0, <4>3, <4>4, <4>5, <5>1 DEF FourEyes, Judged, ownershipVars
        <5>2. ASSUME NEW p \in Request, NEW r \in Request,
                     Serving(p, "approve", "read")', Serving(r, "approve", "read")',
                     req'[p].arg[1] = req'[r].arg[1]
              PROVE  p = r
          BY <4>3, <4>4, <5>2 DEF FourEyes, Judged
        <5> QED
          BY <5>1, <5>2 DEF Judged
      <4> QED
        BY <3>0, <4>6 DEF FourEyes, FourEyesOnce, ownershipVars
    <3> QED
      BY <2>5, <3>1, <3>2 DEF ReadRequest
  <2>6. CASE ApproveRequest(q)
    <3> DEFINE l == req[q].arg[1]
               actor == req[q].context.actor
    <3>0. /\ Serving(q, "approve", "read") /\ Done(q)
          /\ lifecycle' = [lifecycle EXCEPT ![l].status = "approved",
                                            ![l].approver = actor]
          /\ applied' = [applied EXCEPT ![l] = @ + 1]
      BY <2>6 DEF ApproveRequest
    <3>1. l \in Lifecycle /\ actor \in User
      BY <3>0, Carried
    <3>2. lifecycle[l].status = "pending" /\ lifecycle[l].by # actor
      BY <3>0 DEF FourEyes, Judged
    <3>3. applied[l] = 0
      BY <1>0, <3>1, <3>2 DEF FourEyes, FourEyesOnce
    <3>4. /\ lifecycle'[l].status = "approved" /\ lifecycle'[l].approver = actor
          /\ lifecycle'[l].by = lifecycle[l].by /\ applied'[l] = 1
          /\ \A k \in Lifecycle \ {l} : /\ lifecycle'[k] = lifecycle[k]
                                        /\ applied'[k] = applied[k]
      BY <1>0, <3>0, <3>1, <3>3 DEF File
    <3>5. FourEyesOnce'
      BY <3>1, <3>2, <3>4 DEF FourEyes, FourEyesOnce
    <3>6. ASSUME NEW p \in Request, Serving(p, "approve", "read")'
          PROVE  /\ Serving(p, "approve", "read") /\ req'[p] = req[p]
                 /\ req[p].arg[1] \in Lifecycle \ {l}
      <4>1. p # q /\ req'[p] = req[p]
        BY <1>0, <3>0, <3>6 DEF Done, Serving
      <4>2. Serving(p, "approve", "read")
        BY <3>6, <4>1 DEF Serving
      <4> QED
        BY <3>0, <4>1, <4>2, Carried DEF FourEyes, Judged
    <3>7. Judged'
      BY <3>4, <3>6 DEF FourEyes, Judged
    <3> QED
      BY <3>5, <3>7 DEF FourEyes
  <2> QED
    BY <1>1, <2>1, <2>2, <2>3, <2>4, <2>5, <2>6 DEF Administer
<1>2. CASE UNCHANGED vars
  BY <1>2, FourEyesStill DEF vars
<1> QED
  BY <1>1, <1>2 DEF Next

\* However many approvals race for it, a lifecycle transition is applied at most
\* once, and by somebody else than the one who asked for it.
THEOREM FourEyesCorrect == Spec => []FourEyesOnce
<1>1. FourEyes => FourEyesOnce
  BY DEF FourEyes
<1>2. Typed /\ FourEyes /\ [Next]_vars => (Typed /\ FourEyes)'
  BY NextTyped, NextFourEyes
<1> QED
  BY <1>1, <1>2, InitTyped, InitFourEyes, PTL DEF Spec

-----------------------------------------------------------------------------
(* Owners *)

\* Taking one of several owners leaves another.
LEMMA OwnerLeft ==
  ASSUME NEW u \in User, ActiveOwners # {}, ~LastActiveOwner(u),
         \A v \in User \ {u} : /\ member'[v] = member[v]
                               /\ role'[v]["owner"] >= role[v]["owner"],
         \A v \in User : role[v]["owner"] \in Nat /\ role'[v]["owner"] \in Nat
  PROVE  ActiveOwners' # {}
<1>1. PICK v \in ActiveOwners : v # u
  BY DEF LastActiveOwner
<1>2. v \in ActiveOwners'
  BY <1>1 DEF ActiveOwners, Holds
<1> QED
  BY <1>2

\* Only the approval of a transfer ever takes the last active owner: suspensions
\* and revocations count the owners that are left under the organization's lock.
THEOREM OwnersStay == Spec => OwnerLossOnlyByTransfer
<1> DEFINE Loss ==
      ActiveOwners # {} /\ ActiveOwners' = {} =>
       \E q \in Request : /\ Serving(q, "approve", "read")
                          /\ lifecycle[req[q].arg[1]].action = "owner_transfer"
                          /\ req'[q] = Idle
<1>1. ASSUME Typed, [Next]_vars PROVE Loss
  <2>0. /\ member \in [User -> MemberStatus] /\ role \in [User -> [Role -> Nat]]
        /\ role' \in [User -> [Role -> Nat]] /\ "owner" \in Role
        /\ lifecycle \in [Lifecycle -> File] /\ req \in [Request -> RequestRow]
    BY <1>1, NextTyped DEF Typed, TypeOK, Role
  <2>1. ASSUME UNCHANGED <<member, role>> PROVE Loss
    BY <2>1 DEF ActiveOwners, Holds
  <2>2. ASSUME NEW q \in Request, SetMemberStatus(q) PROVE Loss
    <3> DEFINE u == req[q].arg[1]
    <3>1. u \in User /\ req[q].arg[2] \in {"active", "suspended"}
      BY <1>1, <2>2, Carried DEF SetMemberStatus
    <3>2. CASE StatusChanges(u, "suspended") /\ req[q].arg[2] = "suspended"
      BY <2>0, <2>2, <3>1, <3>2, OwnerLeft DEF SetMemberStatus, StatusChanges
    <3>3. CASE StatusChanges(u, "active") /\ req[q].arg[2] = "active"
      BY <2>0, <2>2, <3>1, <3>3 DEF SetMemberStatus, ActiveOwners, Holds
    <3>4. CASE UNCHANGED member
      BY <2>1, <2>2, <3>4 DEF SetMemberStatus
    <3> QED
      BY <2>2, <3>1, <3>2, <3>3, <3>4 DEF SetMemberStatus
  <2>3. ASSUME NEW q \in Request, RevokeRole(q) PROVE Loss
    <3> DEFINE u == req[q].arg[1]
               r == req[q].arg[2]
    <3>1. u \in User /\ r \in Role
      BY <1>1, <2>3, Carried DEF RevokeRole
    <3>2. /\ member' = member
          /\ role' = [role EXCEPT ![u][r] = IF Revocable(u, r) THEN @ - 1 ELSE @]
      BY <2>3 DEF RevokeRole
    <3>3. CASE r = "owner" /\ Revocable(u, r)
      BY <2>0, <3>1, <3>2, <3>3, OwnerLeft DEF Revocable
    <3>4. CASE r # "owner" \/ ~Revocable(u, r)
      <4>1. \A v \in User : role'[v]["owner"] = role[v]["owner"]
        BY <2>0, <3>1, <3>2, <3>4
      <4> QED
        BY <3>2, <4>1 DEF ActiveOwners, Holds
    <3> QED
      BY <3>3, <3>4
  <2>4. ASSUME NEW q \in Request, AssignRole(q) PROVE Loss
    <3>1. req[q].arg[1] \in User /\ req[q].arg[2] \in Role
      BY <1>1, <2>4, Carried DEF AssignRole
    <3>2. \A v \in User : role'[v]["owner"] >= role[v]["owner"]
      BY <2>0, <2>4, <3>1 DEF AssignRole
    <3> QED
      BY <2>0, <2>4, <3>2 DEF AssignRole, ActiveOwners, Holds
  <2>5. ASSUME NEW q \in Request, ApproveRequest(q) PROVE Loss
    <3> DEFINE l == req[q].arg[1]
    <3>1. l \in Lifecycle
      BY <1>1, <2>5, Carried DEF ApproveRequest
    <3>2. CASE lifecycle[l].action = "owner_transfer"
      BY <2>0, <2>5, <3>2 DEF ApproveRequest, Done
    <3>3. CASE lifecycle[l].action \in {"suspend", "delete", "export"}
      BY <2>1, <2>5, <3>3 DEF ApproveRequest, ApplyAction
    <3> QED
      BY <2>0, <3>1, <3>2, <3>3 DEF File, LifecycleAction
  <2> QED
    BY <1>1, <2>1, <2>2, <2>3, <2>4, <2>5
    DEF Next, Administer, set_company_member_status, revoke_company_role,
        assign_privileged_role, request_tenant_lifecycle, approve_tenant_lifecycle,
        Send, ReadAssignment, CreateRequest, ReadRequest, rowVars, memberVars, vars
<1>2. ASSUME UNCHANGED vars PROVE Loss
  BY <1>2 DEF vars, rowVars, memberVars, ActiveOwners, Holds
<1> QED
  BY <1>1, <1>2, InitTyped, NextTyped, PTL DEF Spec, OwnerLossOnlyByTransfer

-----------------------------------------------------------------------------
(* Sessions: a revoked or expired one never comes back                     *)

USE InvitationAssumption

SessionsTyped == session \in [Session -> SessionRow]

\* A step in which ended sessions stay as they ended.
SessionsEnd ==
  \A s \in Session :
    session[s].state = "revoked" \/ session[s].expired =>
      /\ session'[s].secret = session[s].secret
      /\ session'[s].state = "revoked" \/ session'[s].expired

\* Steps that change sessions.
LEMMA SessionSteps ==
  ASSUME SessionsNext
  PROVE  \/ UNCHANGED session
         \/ \E q \in Request : SetMemberStatus(q) \/ Refresh(q) \/ RevokeSession(q)
         \/ \E s \in Session : ExpireSession(s)
         \/ \E t \in Attempt : Issue(t)
<1>1. ASSUME NEW q \in Request, NEW s \in Session, Ask(q, s) PROVE UNCHANGED session
  BY <1>1 DEF Ask, create_department, create_team, create_project, assign_unit_membership,
     create_company_invitation, revoke_company_invitation, refresh_auth_session,
     revoke_auth_session, set_company_member_status, ByAdmin, Send, rowVars
<1>2. ASSUME NEW q \in Request,
             \/ CreateDepartment(q) \/ CreateTeam(q) \/ CreateProject(q) \/ AssignMembership(q)
             \/ CreateInvitation(q) \/ ReadInvitation(q) \/ RevokeInvitation(q)
      PROVE  UNCHANGED session
  BY <1>2 DEF CreateDepartment, CreateTeam, CreateProject, AssignMembership,
     CreateInvitation, ReadInvitation, RevokeInvitation, rowVars
<1>3. ASSUME NEW i \in Invitation, Lapse(i) PROVE UNCHANGED session
  BY <1>3 DEF Lapse, vars, rowVars
<1>4. ASSUME NEW t \in Attempt,
             \/ \E s \in Session, link \in Invitation \cup {NoInvitation} : StartLogin(t, s, link)
             \/ LoginFails(t) \/ ReadLogin(t) \/ Rollback(t)
      PROVE  UNCHANGED session
  BY <1>4 DEF StartLogin, LoginFails, ReadLogin, Rollback, vars, rowVars
<1>5. CASE Provision
  BY <1>5 DEF Provision
<1> QED
  BY <1>1, <1>2, <1>3, <1>4, <1>5 DEF SessionsNext

\* A step on sessions gives rows, and leaves ended ones ended.
LEMMA NextSessions ==
  ASSUME SessionsTyped, [SessionsNext]_sessionsVars
  PROVE  SessionsTyped' /\ SessionsEnd
<1>1. CASE UNCHANGED session
  BY <1>1 DEF SessionsTyped, SessionsEnd
<1>2. CASE UNCHANGED sessionsVars
  BY <1>1, <1>2 DEF sessionsVars, vars, rowVars
<1>3. ASSUME NEW s \in Session PROVE session[s] \in SessionRow
  BY DEF SessionsTyped
<1>4. ASSUME NEW q \in Request, SetMemberStatus(q) PROVE SessionsTyped' /\ SessionsEnd
  <2>1. CASE session' = RevokedFor({req[q].arg[1]})
    <3>1. SessionsTyped'
      BY <2>1, RevokedType DEF SessionsTyped
    <3>2. ASSUME NEW s \in Session
          PROVE  session'[s] = session[s] \/ session'[s] = [session[s] EXCEPT !.state = "revoked"]
      BY <2>1 DEF RevokedFor
    <3>3. SessionsEnd
      BY <1>3, <3>2 DEF SessionsEnd, SessionRow
    <3> QED
      BY <3>1, <3>3
  <2> QED
    BY <1>1, <1>4, <2>1 DEF SetMemberStatus
<1>5. ASSUME NEW q \in Request, Refresh(q) PROVE SessionsTyped' /\ SessionsEnd
  <2> DEFINE s == req[q].arg[1]
  <2>1. CASE Refreshable(s) /\ s \in Session
    <3> DEFINE new == [session[s] EXCEPT !.secret = @ + 1, !.expired = FALSE]
    <3>1. session' = [session EXCEPT ![s] = new]
      BY <1>5, <2>1 DEF Refresh, SessionsTyped
    <3>2. new \in SessionRow
      <4>1. /\ session[s].secret + 1 \in Nat
            /\ session[s].state \in SessionState
        BY <1>3, <2>1 DEF SessionRow
      <4>2. new = [session[s] EXCEPT !.secret = session[s].secret + 1, !.expired = FALSE]
        OBVIOUS
      <4> QED
        BY <1>3, <2>1, <4>1, <4>2 DEF SessionRow
    <3> HIDE DEF new
    <3>3. SessionsTyped'
      BY <3>1, <3>2 DEF SessionsTyped
    <3>4. \A x \in Session \ {s} : session'[x] = session[x]
      BY <3>1 DEF SessionsTyped
    <3> QED
      BY <2>1, <3>3, <3>4 DEF SessionsEnd, Refreshable, Live
  <2>2. CASE ~(Refreshable(s) /\ s \in Session)
    <3>1. session' = session
      BY <1>5, <2>2 DEF Refresh, SessionsTyped
    <3> QED
      BY <1>1, <3>1
  <2> QED
    BY <2>1, <2>2
<1>6. ASSUME NEW q \in Request, RevokeSession(q) PROVE SessionsTyped' /\ SessionsEnd
  <2> DEFINE s == req[q].arg[1]
  <2>1. CASE session' = [session EXCEPT ![s].state = "revoked"] /\ s \in Session
    <3> DEFINE new == [session[s] EXCEPT !.state = "revoked"]
    <3>1. session' = [session EXCEPT ![s] = new]
      BY <2>1
    <3>2. /\ new \in SessionRow /\ new.state = "revoked"
          /\ new.secret = session[s].secret
      BY <1>3, <2>1 DEF SessionRow, SessionState
    <3> HIDE DEF new
    <3>3. SessionsTyped'
      BY <3>1, <3>2 DEF SessionsTyped
    <3>4. session'[s] = new /\ \A x \in Session \ {s} : session'[x] = session[x]
      BY <2>1, <3>1 DEF SessionsTyped
    <3> QED
      BY <2>1, <3>2, <3>3, <3>4 DEF SessionsEnd
  <2>2. CASE session' = session \/ s \notin Session
    <3>1. session' = session
      BY <1>6, <2>2 DEF RevokeSession, SessionsTyped
    <3> QED
      BY <1>1, <3>1
  <2> QED
    BY <1>6, <2>1, <2>2 DEF RevokeSession
<1>7. ASSUME NEW s \in Session, ExpireSession(s) PROVE SessionsTyped' /\ SessionsEnd
  <2> DEFINE new == [session[s] EXCEPT !.expired = TRUE]
  <2>1. session' = [session EXCEPT ![s] = new]
    BY <1>7 DEF ExpireSession
  <2>2. new \in SessionRow
    BY <1>3, <1>7 DEF SessionRow
  <2> HIDE DEF new
  <2>3. SessionsTyped'
    BY <2>1, <2>2 DEF SessionsTyped
  <2>4. \A x \in Session \ {s} : session'[x] = session[x]
    BY <2>1 DEF SessionsTyped
  <2> QED
    BY <1>7, <2>3, <2>4 DEF SessionsEnd, ExpireSession, Live
<1>8. ASSUME NEW t \in Attempt, Issue(t) PROVE SessionsTyped' /\ SessionsEnd
  <2> DEFINE s == attempt[t].token
             new == [NoSession EXCEPT !.state = "live"]
  <2>1. session' = [session EXCEPT ![s] = new] /\ session[s] = NoSession
    BY <1>8 DEF Issue, Conflict
  <2>2. new \in SessionRow
    BY DEF NoSession, SessionRow, SessionState
  <2> HIDE DEF new
  <2>3. SessionsTyped'
    BY <2>1, <2>2 DEF SessionsTyped
  <2>4. \A x \in Session \ {s} : session'[x] = session[x]
    BY <2>1 DEF SessionsTyped
  <2> QED
    BY <2>1, <2>3, <2>4 DEF SessionsEnd, NoSession
<1> QED
  BY <1>1, <1>2, <1>4, <1>5, <1>6, <1>7, <1>8, SessionSteps

LEMMA SessionsAlways == SessionsSpec => []SessionsTyped
<1>1. SessionsInit => SessionsTyped
  BY DEF SessionsInit, SessionsTyped, NoSession, SessionRow, SessionState
<1> QED
  BY <1>1, NextSessions, PTL DEF SessionsSpec

\* Refreshes, logins, logouts and suspensions, in whatever order, leave a session
\* that was revoked or has run out as it is (issue, refresh, revoke).
THEOREM SessionsStayEnded == SessionsSpec => EndedSessionsStayEnded
<1>1. SessionsTyped /\ [SessionsNext]_sessionsVars => [SessionsEnd]_sessionsVars
  BY NextSessions
<1> QED
  BY <1>1, SessionsAlways, PTL DEF SessionsSpec, EndedSessionsStayEnded, SessionsEnd

-----------------------------------------------------------------------------
(* Invitations: each lets one login in, and nobody joins without one       *)

admissionVars == <<member, role, membership, invitation, accepted, attempt>>

InvitationRow ==
  [status : {"none", "pending", "accepted", "revoked"},
   department : SUBSET Department, lapsed : BOOLEAN]

AdmissionTyped ==
  /\ member = [u \in User |-> member[u]]
  /\ role \in [User -> [Role -> Nat]]
  /\ membership \in [User -> SUBSET Unit]
  /\ invitation \in [Invitation -> InvitationRow]
  /\ accepted \in [Invitation -> Nat]
  /\ attempt = [t \in Attempt |-> attempt[t]]
  /\ \A t \in Attempt : attempt[t] # NoAttempt =>
       attempt[t].token \in Session /\ attempt[t].link \in Invitation \cup {NoInvitation}

\* An invitation has let somebody in once it is accepted, and not before.
Counted ==
  \A i \in Invitation :
    /\ accepted[i] <= 1
    /\ invitation[i].status \in {"none", "pending"} => accepted[i] = 0
    /\ invitation[i].status = "accepted" => accepted[i] = 1

\* An invitation that is open names one department.
Addressed ==
  \A i \in Invitation :
    invitation[i].status = "pending" => \E d \in Department : invitation[i].department = {d}

\* The login that holds an invitation found it open, and is the only one.
Held ==
  /\ \A t \in Attempt :
       attempt[t].step = "read" /\ attempt[t].link \in Invitation =>
         invitation[attempt[t].link].status = "pending"
  /\ \A t1, t2 \in Attempt :
       /\ attempt[t1].step = "read" /\ attempt[t2].step = "read"
       /\ attempt[t1].link \in Invitation /\ attempt[t1].link = attempt[t2].link
       => t1 = t2

SingleUse == AdmissionTyped /\ Counted /\ Addressed /\ Held

\* A step in which invitations admit as they should.
Admits ==
  /\ \A i \in Invitation : /\ accepted'[i] <= 1
                           /\ invitation'[i].status = "accepted" => accepted'[i] = 1
  /\ \A u \in User \ {Founder} :
       member[u] = "absent" /\ member'[u] # "absent" =>
         /\ \E i \in Invitation : accepted'[i] = accepted[i] + 1
         /\ membership'[u] \cap Department # {}
         /\ role'[u]["employee"] > 0

\* Where nobody joins, the count of the next state is all there is to show.
LEMMA NobodyJoins ==
  ASSUME Counted', \A u \in User \ {Founder} : member[u] = "absent" => member'[u] = "absent"
  PROVE  Admits
BY DEF Counted, Admits

LEMMA InitSingleUse == SessionsInit => SingleUse
<1> SUFFICES ASSUME SessionsInit PROVE SingleUse
  OBVIOUS
<1>1. /\ NoRole \in [Role -> Nat]
      /\ NoInvite \in InvitationRow /\ NoInvite.status = "none"
      /\ NoAttempt.step = "idle"
  BY DEF NoRole, NoInvite, InvitationRow, NoAttempt
<1>2. AdmissionTyped
  BY <1>1 DEF SessionsInit, LoginsInit, AdmissionTyped
<1>3. Counted /\ Addressed /\ Held
  BY <1>1 DEF SessionsInit, LoginsInit, Counted, Addressed, Held
<1> QED
  BY <1>2, <1>3 DEF SingleUse

\* Steps that neither admit anybody nor touch an invitation or a login.
LEMMA AdmissionSteps ==
  ASSUME SessionsNext
  PROVE  \/ UNCHANGED admissionVars
         \/ Provision
         \/ \E q \in Request : \/ SetMemberStatus(q) /\ UNCHANGED loginVars
                               \/ AssignMembership(q)
                               \/ CreateInvitation(q)
                               \/ RevokeInvitation(q)
         \/ \E i \in Invitation : Lapse(i)
         \/ \E t \in Attempt :
              \/ \E s \in Session, link \in Invitation \cup {NoInvitation} :
                   StartLogin(t, s, link)
              \/ LoginFails(t) \/ ReadLogin(t) \/ Issue(t) \/ Rollback(t)
<1>1. ASSUME NEW q \in Request, NEW s \in Session, Ask(q, s), UNCHANGED loginVars
      PROVE  UNCHANGED admissionVars
  BY <1>1 DEF Ask, create_department, create_team, create_project, assign_unit_membership,
     create_company_invitation, revoke_company_invitation, refresh_auth_session,
     revoke_auth_session, set_company_member_status, ByAdmin, Send, rowVars, memberVars,
     unitVars, loginVars, admissionVars
<1>2. ASSUME NEW q \in Request,
             \/ CreateDepartment(q) \/ CreateTeam(q) \/ CreateProject(q)
             \/ ReadInvitation(q) \/ Refresh(q) \/ RevokeSession(q)
      PROVE  UNCHANGED admissionVars
  BY <1>2 DEF CreateDepartment, CreateTeam, CreateProject, ReadInvitation, Refresh,
     RevokeSession, rowVars, memberVars, unitVars, loginVars, admissionVars
<1>3. ASSUME NEW s \in Session, ExpireSession(s) PROVE UNCHANGED admissionVars
  BY <1>3 DEF ExpireSession, memberVars, unitVars, loginVars, admissionVars
<1> QED
  BY <1>1, <1>2, <1>3 DEF SessionsNext

LEMMA NextSingleUse ==
  ASSUME SingleUse, [SessionsNext]_sessionsVars
  PROVE  SingleUse' /\ Admits
<1> USE DEF SingleUse
<1>1. ASSUME UNCHANGED admissionVars PROVE SingleUse' /\ Admits
  <2>1. SingleUse'
    BY <1>1 DEF admissionVars, AdmissionTyped, Counted, Addressed, Held
  <2> QED
    BY <1>1, <2>1, NobodyJoins DEF admissionVars
<1>2. ASSUME UNCHANGED sessionsVars PROVE SingleUse' /\ Admits
  BY <1>1, <1>2 DEF sessionsVars, vars, rowVars, memberVars, unitVars, loginVars, admissionVars
\* Only rows of people change, and nobody joins.
<1>3. ASSUME UNCHANGED <<invitation, accepted, attempt>>,
             member' = [u \in User |-> member'[u]],
             role' \in [User -> [Role -> Nat]],
             membership' \in [User -> SUBSET Unit],
             \A u \in User \ {Founder} : member[u] = "absent" => member'[u] = "absent"
      PROVE  SingleUse' /\ Admits
  <2>1. AdmissionTyped'
    BY <1>3 DEF AdmissionTyped
  <2>2. Counted' /\ Addressed' /\ Held'
    BY <1>3 DEF Counted, Addressed, Held
  <2> QED
    BY <1>3, <2>1, <2>2, NobodyJoins
\* Only logins change, and none takes an invitation.
<1>4. ASSUME UNCHANGED <<member, role, membership, invitation, accepted>>,
             NEW t \in Attempt, NEW new, attempt' = [attempt EXCEPT ![t] = new],
             \/ new = NoAttempt
             \/ /\ new.token \in Session /\ new.link \in Invitation \cup {NoInvitation}
                /\ new.step = "read" /\ new.link \in Invitation =>
                     /\ invitation[new.link].status = "pending"
                     /\ ~InvitationLocked(new.link)
      PROVE  SingleUse' /\ Admits
  <2>1. /\ attempt'[t] = new
        /\ \A x \in Attempt \ {t} : attempt'[x] = attempt[x]
    BY <1>4 DEF AdmissionTyped
  <2>2. NoAttempt.step = "idle"
    BY DEF NoAttempt
  <2>3. AdmissionTyped'
    BY <1>4, <2>1 DEF AdmissionTyped
  <2>4. Counted' /\ Addressed'
    BY <1>4 DEF Counted, Addressed
  <2>5. Held'
    BY <1>4, <2>1, <2>2 DEF Held, InvitationLocked
  <2> QED
    BY <1>4, <2>3, <2>4, <2>5, NobodyJoins
\* One invitation changes, which no login holds and which lets nobody in.
<1>5. ASSUME UNCHANGED <<member, role, membership, accepted, attempt>>,
             NEW i \in Invitation, NEW new \in InvitationRow,
             invitation' = [invitation EXCEPT ![i] = new],
             new.status = "accepted" => invitation[i].status = "accepted",
             new.status \in {"none", "pending"} => invitation[i].status \in {"none", "pending"},
             new.status = "pending" => \E d \in Department : new.department = {d},
             new.status = "pending" \/ ~InvitationLocked(i)
      PROVE  SingleUse' /\ Admits
  <2>1. /\ invitation'[i] = new
        /\ \A x \in Invitation \ {i} : invitation'[x] = invitation[x]
    BY <1>5 DEF AdmissionTyped
  <2>2. AdmissionTyped'
    BY <1>5 DEF AdmissionTyped
  <2>3. Counted'
    BY <1>5, <2>1 DEF Counted
  <2>4. Addressed'
    BY <1>5, <2>1 DEF Addressed
  <2>5. Held'
    BY <1>5, <2>1 DEF Held, InvitationLocked
  <2> QED
    BY <1>5, <2>2, <2>3, <2>4, <2>5, NobodyJoins
<1>6. ASSUME Provision PROVE SingleUse' /\ Admits
  <2>1. /\ role' = [role EXCEPT ![Founder] =
                      [role[Founder] EXCEPT !["owner"] = role[Founder]["owner"] + 1]]
        /\ member' = [member EXCEPT ![Founder] = "active"]
        /\ UNCHANGED <<membership, invitation, accepted, attempt>>
    BY <1>6 DEF Provision, unitVars, loginVars
  <2>2. role[Founder] \in [Role -> Nat] /\ "owner" \in Role
    BY FounderAssumption DEF AdmissionTyped, Role
  <2>3. role' \in [User -> [Role -> Nat]]
    <3> DEFINE new == [role[Founder] EXCEPT !["owner"] = role[Founder]["owner"] + 1]
    <3>1. new \in [Role -> Nat] /\ role' = [role EXCEPT ![Founder] = new]
      BY <2>1, <2>2
    <3> HIDE DEF new
    <3> QED
      BY <3>1 DEF AdmissionTyped
  <2>4. /\ member' = [u \in User |-> member'[u]]
        /\ \A u \in User \ {Founder} : member'[u] = member[u]
    BY <2>1 DEF AdmissionTyped
  <2> QED
    BY <1>3, <2>1, <2>3, <2>4 DEF AdmissionTyped
<1>7. ASSUME NEW q \in Request, SetMemberStatus(q), UNCHANGED loginVars
      PROVE  SingleUse' /\ Admits
  <2> DEFINE u == req[q].arg[1]
             st == req[q].arg[2]
  <2>1. UNCHANGED <<role, membership, invitation, accepted, attempt>>
    BY <1>7 DEF SetMemberStatus, unitVars, loginVars
  <2>2. CASE member' = [member EXCEPT ![u] = st] /\ member[u] # "absent"
    <3>1. /\ member' = [v \in User |-> member'[v]]
          /\ \A v \in User : member[v] = "absent" => member'[v] = "absent"
      BY <2>2 DEF AdmissionTyped
    <3> QED
      BY <1>3, <2>1, <3>1 DEF AdmissionTyped
  <2>3. CASE UNCHANGED member
    BY <1>1, <2>1, <2>3 DEF admissionVars
  <2> QED
    BY <1>7, <2>2, <2>3 DEF SetMemberStatus, StatusChanges
<1>8. ASSUME NEW q \in Request, AssignMembership(q) PROVE SingleUse' /\ Admits
  <2>1. UNCHANGED <<member, role, invitation, accepted, attempt>>
    BY <1>8 DEF AssignMembership, memberVars, loginVars
  <2>2. membership' \in [User -> SUBSET Unit]
    <3>1. ASSUME NEW u \in User, NEW x \in Unit,
                 membership' = [membership EXCEPT ![u] = @ \cup {x}]
          PROVE  membership' \in [User -> SUBSET Unit]
      BY <3>1 DEF AdmissionTyped
    <3> QED
      BY <1>8, <3>1 DEF AssignMembership, AdmissionTyped
  <2> QED
    BY <1>3, <2>1, <2>2 DEF AdmissionTyped
<1>9. ASSUME NEW q \in Request, CreateInvitation(q) PROVE SingleUse' /\ Admits
  <2>1. UNCHANGED <<member, role, membership, accepted, attempt>>
    BY <1>9 DEF CreateInvitation, rowVars, memberVars, unitVars
  <2>2. ASSUME NEW i \in Invitation, NEW d \in Department, invitation[i] = NoInvite,
               invitation' = [invitation EXCEPT ![i] =
                 [status |-> "pending", department |-> {d}, lapsed |-> FALSE]]
        PROVE  SingleUse' /\ Admits
    <3> DEFINE new == [status |-> "pending", department |-> {d}, lapsed |-> FALSE]
    <3>1. /\ new \in InvitationRow /\ new.status = "pending" /\ new.department = {d}
          /\ invitation[i].status = "none"
      BY <2>2 DEF InvitationRow, NoInvite
    <3>2. invitation' = [invitation EXCEPT ![i] = new]
      BY <2>2
    <3> HIDE DEF new
    <3> QED
      BY <1>5, <2>1, <3>1, <3>2
  <2>3. CASE UNCHANGED invitation
    BY <1>1, <2>1, <2>3 DEF admissionVars
  <2> QED
    BY <1>9, <2>2, <2>3 DEF CreateInvitation
<1>10. ASSUME NEW q \in Request, RevokeInvitation(q) PROVE SingleUse' /\ Admits
  <2> DEFINE i == req[q].arg[1]
             new == [invitation[i] EXCEPT !.status = "revoked"]
  <2>1. UNCHANGED <<member, role, membership, accepted, attempt>>
    BY <1>10 DEF RevokeInvitation, rowVars, memberVars, unitVars
  <2>2. CASE i \in Invitation
    <3>1. /\ invitation' = [invitation EXCEPT ![i] = new]
          /\ ~InvitationLocked(i)
      BY <1>10 DEF RevokeInvitation
    <3>2. new \in InvitationRow /\ new.status = "revoked"
      BY <2>2 DEF InvitationRow, AdmissionTyped
    <3> HIDE DEF new
    <3> QED
      BY <1>5, <2>1, <2>2, <3>1, <3>2
  <2>3. CASE i \notin Invitation
    <3>1. UNCHANGED invitation
      BY <1>10, <2>3 DEF RevokeInvitation, AdmissionTyped
    <3> QED
      BY <1>1, <2>1, <3>1 DEF admissionVars
  <2> QED
    BY <2>2, <2>3
<1>11. ASSUME NEW i \in Invitation, Lapse(i) PROVE SingleUse' /\ Admits
  <2> DEFINE new == [invitation[i] EXCEPT !.lapsed = TRUE]
  <2>1. UNCHANGED <<member, role, membership, accepted, attempt>>
    BY <1>11 DEF Lapse, vars, rowVars, memberVars, unitVars
  <2>2. /\ invitation' = [invitation EXCEPT ![i] = new]
        /\ invitation[i].status = "pending"
    BY <1>11 DEF Lapse
  <2>3. /\ new \in InvitationRow /\ new.status = "pending"
        /\ new.department = invitation[i].department
    BY <2>2 DEF InvitationRow, AdmissionTyped
  <2>4. \E d \in Department : new.department = {d}
    BY <2>2, <2>3 DEF Addressed
  <2> HIDE DEF new
  <2> QED
    BY <1>5, <2>1, <2>2, <2>3, <2>4
<1>12. ASSUME NEW t \in Attempt, NEW s \in Session, NEW link \in Invitation \cup {NoInvitation},
              StartLogin(t, s, link)
       PROVE  SingleUse' /\ Admits
  <2> DEFINE new == [step |-> "started", token |-> s, link |-> link]
  <2>1. UNCHANGED <<member, role, membership, invitation, accepted>>
    BY <1>12 DEF StartLogin, vars, rowVars, memberVars, unitVars
  <2>2. attempt' = [attempt EXCEPT ![t] = new]
    BY <1>12 DEF StartLogin
  <2>3. new.step = "started" /\ new.token = s /\ new.link = link
    OBVIOUS
  <2> HIDE DEF new
  <2> QED
    BY <1>4, <2>1, <2>2, <2>3
<1>13. ASSUME NEW t \in Attempt, LoginFails(t) \/ Rollback(t) PROVE SingleUse' /\ Admits
  <2>1. /\ UNCHANGED <<member, role, membership, invitation, accepted>>
        /\ attempt' = [attempt EXCEPT ![t] = NoAttempt]
    BY <1>13 DEF LoginFails, Rollback, vars, rowVars, memberVars, unitVars
  <2> QED
    BY <1>4, <2>1
<1>14. ASSUME NEW t \in Attempt, ReadLogin(t) PROVE SingleUse' /\ Admits
  <2> DEFINE s == attempt[t].token
             link == attempt[t].link
             read == [step |-> "read", token |-> s, link |-> link,
                      member |-> member[UserOf[s]], units |-> membership[UserOf[s]]]
  <2>1. /\ UNCHANGED <<member, role, membership, invitation, accepted>>
        /\ link # NoInvitation => ~InvitationLocked(link)
        /\ attempt[t] # NoAttempt
    BY <1>14 DEF ReadLogin, vars, rowVars, memberVars, unitVars, NoAttempt
  <2>2. s \in Session /\ link \in Invitation \cup {NoInvitation}
    BY <2>1 DEF AdmissionTyped
  <2>3. CASE Admissible(s, link)
    <3>1. attempt' = [attempt EXCEPT ![t] = read]
      BY <1>14, <2>3 DEF ReadLogin
    <3>2. read.step = "read" /\ read.token = s /\ read.link = link
      OBVIOUS
    <3>3. link \in Invitation => invitation[link].status = "pending" /\ ~InvitationLocked(link)
      BY <2>1, <2>3 DEF Admissible, Valid
    <3> HIDE DEF read
    <3> QED
      BY <1>4, <2>1, <2>2, <3>1, <3>2, <3>3
  <2>4. CASE ~Admissible(s, link)
    <3>1. attempt' = [attempt EXCEPT ![t] = NoAttempt]
      BY <1>14, <2>4 DEF ReadLogin
    <3> QED
      BY <1>4, <2>1, <3>1
  <2> QED
    BY <2>3, <2>4
<1>15. ASSUME NEW t \in Attempt, Issue(t) PROVE SingleUse' /\ Admits
  <2> DEFINE s == attempt[t].token
             link == attempt[t].link
             u == UserOf[s]
             d == CHOOSE x \in invitation[link].department : TRUE
             new == [invitation[link] EXCEPT !.status = "accepted"]
  <2>1. /\ attempt[t].step = "read" /\ attempt[t] # NoAttempt
        /\ attempt' = [attempt EXCEPT ![t] = NoAttempt]
    BY <1>15 DEF Issue, NoAttempt
  <2>2. /\ s \in Session /\ u \in User
        /\ link \in Invitation \cup {NoInvitation}
    BY <2>1, UserOfAssumption DEF AdmissionTyped
  <2>3. CASE link = NoInvitation
    <3>1. UNCHANGED <<member, role, membership, invitation, accepted>>
      BY <1>15, <2>3 DEF Issue
    <3> QED
      BY <1>4, <2>1, <3>1
  <2>4. CASE link # NoInvitation
    <3>1. /\ link \in Invitation /\ invitation[link].status = "pending"
          /\ accepted[link] = 0
      BY <2>1, <2>2, <2>4 DEF Held, Counted
    <3>2. d \in Department /\ invitation[link].department = {d}
      BY <3>1 DEF Addressed
    <3>3. /\ invitation' = [invitation EXCEPT ![link] = new]
          /\ accepted' = [accepted EXCEPT ![link] = accepted[link] + 1]
      BY <1>15, <2>4 DEF Issue
    <3>4. new \in InvitationRow /\ new.status = "accepted"
      BY <3>1 DEF InvitationRow, AdmissionTyped
    <3> HIDE DEF new
    <3>5. /\ invitation'[link] = new /\ accepted'[link] = 1
          /\ \A i \in Invitation \ {link} :
               invitation'[i] = invitation[i] /\ accepted'[i] = accepted[i]
      BY <3>1, <3>3 DEF AdmissionTyped
    <3>6. /\ attempt'[t] = NoAttempt /\ NoAttempt.step = "idle"
          /\ \A x \in Attempt \ {t} : attempt'[x] = attempt[x]
      BY <2>1 DEF AdmissionTyped, NoAttempt
    <3>7. /\ member' = [v \in User |-> member'[v]]
          /\ role' \in [User -> [Role -> Nat]]
          /\ membership' \in [User -> SUBSET Unit]
          /\ \A v \in User : member[v] = "absent" /\ member'[v] # "absent" =>
               d \in membership'[v] /\ role'[v]["employee"] > 0
      <4>1. CASE AdmitMember(u, d)
        <5>1. role[u] \in [Role -> Nat] /\ "employee" \in Role /\ d \in Unit
          BY <2>2, <3>2 DEF AdmissionTyped, Role, Unit
        <5>2. role' = [role EXCEPT ![u] =
                        [role[u] EXCEPT !["employee"] = role[u]["employee"] + 1]]
          BY <4>1 DEF AdmitMember
        <5>3. role' \in [User -> [Role -> Nat]] /\ role'[u]["employee"] > 0
          BY <2>2, <5>1, <5>2 DEF AdmissionTyped
        <5>4. membership' \in [User -> SUBSET Unit] /\ d \in membership'[u]
          <6> HIDE DEF d
          <6>1. membership' = [membership EXCEPT ![u] = membership[u] \cup {d}]
            BY <4>1 DEF AdmitMember
          <6> QED
            BY <2>2, <5>1, <6>1 DEF AdmissionTyped
        <5>5. /\ member' = [v \in User |-> member'[v]]
              /\ \A v \in User \ {u} : member'[v] = member[v]
          BY <4>1 DEF AdmitMember, AdmissionTyped
        <5> QED
          BY <5>3, <5>4, <5>5
      <4>2. CASE /\ membership' = [membership EXCEPT ![u] = @ \cup {d}]
                 /\ UNCHANGED memberVars
        <5>1. d \in Unit
          BY <3>2 DEF Unit
        <5>2. membership' \in [User -> SUBSET Unit]
          BY <2>2, <4>2, <5>1 DEF AdmissionTyped
        <5> QED
          BY <4>2, <5>2 DEF AdmissionTyped, memberVars
      <4> QED
        BY <1>15, <2>4, <4>1, <4>2 DEF Issue
    <3>8. AdmissionTyped'
      <4>1. invitation' \in [Invitation -> InvitationRow] /\ accepted' \in [Invitation -> Nat]
        BY <3>1, <3>3, <3>4 DEF AdmissionTyped
      <4>2. attempt' = [x \in Attempt |-> attempt'[x]]
        BY <2>1 DEF AdmissionTyped
      <4> QED
        BY <3>6, <3>7, <4>1, <4>2 DEF AdmissionTyped
    <3>9. Counted'
      BY <3>4, <3>5 DEF Counted
    <3>10. Addressed'
      BY <3>4, <3>5 DEF Addressed
    <3>11. Held'
      BY <2>1, <3>1, <3>5, <3>6 DEF Held
    <3>12. Admits
      <4> HIDE DEF d
      <4>1. accepted'[link] = accepted[link] + 1
        BY <3>1, <3>5
      <4>2. ASSUME NEW v \in User, member[v] = "absent", member'[v] # "absent"
            PROVE  /\ \E i \in Invitation : accepted'[i] = accepted[i] + 1
                   /\ membership'[v] \cap Department # {}
                   /\ role'[v]["employee"] > 0
        BY <3>1, <3>2, <3>7, <4>1, <4>2
      <4> QED
        BY <3>9, <4>2 DEF Admits, Counted
    <3> QED
      BY <3>8, <3>9, <3>10, <3>11, <3>12
  <2> QED
    BY <2>3, <2>4
<1> QED
  BY <1>1, <1>2, <1>6, <1>7, <1>8, <1>9, <1>10, <1>11, <1>12, <1>13, <1>14, <1>15,
     AdmissionSteps

\* However logins and a revocation race for one link, it lets one person in, who
\* is an employee with a department from then on, and nobody else joins (issue).
THEOREM AdmissionIsSingle == SessionsSpec => InvitationsAdmitOnce
<1>1. SingleUse /\ [SessionsNext]_sessionsVars => SingleUse' /\ [Admits]_sessionsVars
  BY NextSingleUse
<1> QED
  BY <1>1, InitSingleUse, PTL DEF SessionsSpec, InvitationsAdmitOnce, Admits

=============================================================================
