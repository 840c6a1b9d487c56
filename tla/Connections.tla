----------------------------- MODULE Connections -----------------------------
(***************************************************************************)
(* Provider connections of one organization: their rows and grants         *)
(* (integrations/infrastructure/repository.py), the operations of their    *)
(* managers (integrations/application/service.py), the OAuth flow and the  *)
(* refresh of expiring tokens (infrastructure/oauth.py), and the gateway   *)
(* that every tool call composes anew (infrastructure/gateway.py).         *)
(*                                                                         *)
(* Every operation reads the rows it may see, and writes in a later        *)
(* transaction.  The provider and its tokens are external: tokens of a     *)
(* connection are numbered as they are issued, and a provider in Rotating  *)
(* takes back a refresh token when it issues the next.                     *)
(*                                                                         *)
(* X_Y is X with one plausible bug; no specification uses it.              *)
(***************************************************************************)
EXTENDS Naturals, FiniteSets, Functions

CONSTANTS
  Actor,
  Manager,       \* actors with a role of _INTEGRATION_MANAGER_ROLES
  Subject,       \* subjects of grants
  SubjectsOf,    \* the subjects an actor's context matches
  Connection,    \* rows of integration_connections
  Rotating,      \* connections whose provider rotates refresh tokens
  Tool,          \* tools the providers offer
  ReadOnly,      \* those annotated read-only
  AnyTool,       \* the wildcard of a grant
  Granted,       \* permissions that managers grant
  Call,          \* requests that may be in flight together
  MaxTokens      \* bound on the tokens issued for a connection

ASSUME ConnectionsAssumption ==
  /\ Manager \subseteq Actor
  /\ SubjectsOf \in [Actor -> SUBSET Subject]
  /\ Rotating \subseteq Connection
  /\ ReadOnly \subseteq Tool
  /\ AnyTool \notin Tool
  /\ Granted \subseteq {"read", "draft", "execute", "administer"}
  /\ MaxTokens \in Nat

VARIABLES
  conn,       \* integration_connections
  grant,      \* connection_tool_grants
  consent,    \* OAuth states that browsers hold, with the row they may become
  call,       \* the requests in flight
  issued,     \* tokens the provider has issued, the latest is the number
  expired,    \* the access tokens up to this number have expired
  lost        \* history: connections one of whose tokens never came to be stored

providerVars == <<issued, expired, lost>>
connectionVars == <<conn, grant, consent, call, providerVars>>

Scope == {"organization", "personal"}
ConnectionStatus == {"active", "disabled", "error", "expired", "revoked"}

\* encrypted_authorization: erased, a header given by hand, or OAuth material.
Erased == [kind |-> "erased"]
Manual == [kind |-> "manual"]
NoToken == 0
OAuth(access, refresh) == [kind |-> "oauth", access |-> access, refresh |-> refresh]

Absent == [status |-> "absent"]
Resting == [step |-> "resting"]

Exists(c) == conn[c] # Absent
Active(c) == conn[c].status = "active"

ConnectionsTypeOK ==
  /\ \A c \in Connection : Exists(c) =>
       /\ conn[c].status \in ConnectionStatus
       /\ conn[c].scope \in Scope
       /\ conn[c].cred.kind = "oauth" => conn[c].cred.access \in 1..issued[c]
  /\ \A g, h \in grant : g.key = h.key => g = h
  /\ \A q \in Call : call[q] # Resting => call[q].actor \in Actor

ConnectionsInit ==
  /\ conn = [c \in Connection |-> Absent]
  /\ grant = {}
  /\ consent = {}
  /\ call = [q \in Call |-> Resting]
  /\ issued = [c \in Connection |-> 0]
  /\ expired = [c \in Connection |-> 0]
  /\ lost = {}

-----------------------------------------------------------------------------
(* Who may see and manage.                                                 *)

\* _visible: rows of the organization, and the actor's own.
Visible(c, a) == Exists(c) /\ (conn[c].scope = "organization" \/ a \in conn[c].owner)

require_manager(scope, a) == scope = "organization" => a \in Manager

At(q, step) == call[q].step = step
Rest(q) == call' = [call EXCEPT ![q] = Resting]
Goto(q, step) == call' = [call EXCEPT ![q].step = step]

-----------------------------------------------------------------------------
(* Creation, by hand and by OAuth.                                         *)

Unclaimed(c) == ~Exists(c) /\ \A s \in consent : s.row # c

\* create of the service, and of the repository.
create(c, a, scope, cred) ==
  /\ require_manager(scope, a)
  /\ conn' = [conn EXCEPT ![c] =
       [status |-> "active", scope |-> scope, cred |-> cred,
        owner |-> IF scope = "personal" THEN {a} ELSE {}]]

create_integration_connection(a) == \E c \in Connection, scope \in Scope :
  /\ Unclaimed(c)
  /\ create(c, a, scope, Manual)
  /\ UNCHANGED <<grant, consent, call, providerVars>>

\* start: the state goes to the browser and nothing is stored.
start_integration_oauth(a) == \E c \in Connection, scope \in Scope :
  /\ require_manager(scope, a)
  /\ Unclaimed(c)
  /\ consent' = consent \cup {[row |-> c, actor |-> a, scope |-> scope]}
  /\ UNCHANGED <<conn, grant, call, providerVars>>

\* _exchange: the provider issues the first token of the connection, to be
\* renewed or not.
Exchange(c, renewable) == OAuth(1, IF renewable THEN 1 ELSE NoToken)

\* callback: the state of the same actor, its code exchanged, a row inserted.
finish_integration_oauth(a) == \E s \in consent, renewable \in BOOLEAN :
  /\ s.actor = a
  /\ create(s.row, a, s.scope, Exchange(s.row, renewable))
  /\ issued' = [issued EXCEPT ![s.row] = 1]
  /\ consent' = consent \ {s}
  /\ UNCHANGED <<grant, call, expired, lost>>

\* The state is ten minutes old, or the callback fails on its way.
ConsentFails == \E s \in consent :
  /\ consent' = consent \ {s}
  /\ UNCHANGED <<conn, grant, call, providerVars>>

-----------------------------------------------------------------------------
(* Operations of managers: a look at the visible rows, then a transaction. *)

Look(q, a, op) == \E c \in Connection :
  /\ call[q] = Resting
  /\ Visible(c, a)
  /\ require_manager(conn[c].scope, a)
  /\ call' = [call EXCEPT ![q] = [step |-> op, actor |-> a, conn |-> c]]
  /\ UNCHANGED <<conn, grant, consent, providerVars>>

disable_integration_connection(q, a) == Look(q, a, "disable")
revoke_integration_connection(q, a) == Look(q, a, "revoke")
reconnect_integration_connection(q, a) == Look(q, a, "reconnect")
set_connection_grant(q, a) == Look(q, a, "grant")

\* mark_status: whatever the status was; the erasing ones erase.
mark_status(c, status) ==
  conn' = [conn EXCEPT ![c].status = status,
                       ![c].cred = IF status \in {"revoked", "disabled"} THEN Erased ELSE @]

\* disable, revoke.
Disable(q) ==
  /\ At(q, "disable")
  /\ mark_status(call[q].conn, "disabled")
  /\ Rest(q)
  /\ UNCHANGED <<grant, consent, providerVars>>

Revoke(q) ==
  /\ At(q, "revoke")
  /\ mark_status(call[q].conn, "revoked")
  /\ Rest(q)
  /\ UNCHANGED <<grant, consent, providerVars>>

\* The look at the visible rows is taken to be enough.
Replaceable_AnyStatus(c) == Exists(c)
\* replace_credential finds the row only while it is active.
Replaceable(c) == Active(c)

replace_credential(c, cred) ==
  conn' = IF Replaceable(c) THEN [conn EXCEPT ![c].status = "active", ![c].cred = cred]
          ELSE conn

\* reconnect: when the transaction finds no row, the caller is told so.
Reconnect(q) ==
  /\ At(q, "reconnect")
  /\ replace_credential(call[q].conn, Manual)
  /\ IF Replaceable(call[q].conn) THEN Rest(q) ELSE Goto(q, "not found")
  /\ UNCHANGED <<grant, consent, providerVars>>

NotFound(q) ==
  /\ At(q, "not found")
  /\ Rest(q)
  /\ UNCHANGED <<conn, grant, consent, providerVars>>

\* A personal connection is granted to its owner only.
Grantable(c, a, subject) ==
  conn[c].scope = "personal" => subject \in SubjectsOf[a] \cap conn[c].owner

\* upsert_grant: one row for a subject and a tool.
upsert_grant(c, subject, tool, permission) ==
  LET key == [conn |-> c, subject |-> subject, tool |-> tool]
  IN grant' = {g \in grant : g.key # key} \cup {[key |-> key, permission |-> permission]}

SetGrant(q) ==
  /\ At(q, "grant")
  /\ \E subject \in Subject, tool \in Tool \cup {AnyTool}, permission \in Granted :
       /\ Grantable(call[q].conn, call[q].actor, subject)
       /\ upsert_grant(call[q].conn, subject, tool, permission)
  /\ Rest(q)
  /\ UNCHANGED <<conn, consent, providerVars>>

-----------------------------------------------------------------------------
(* The gateway: list_tools and call_tool of a member, verify of a manager. *)

Compose(q, a, verify, rows) ==
  /\ call[q] = Resting
  /\ call' = [call EXCEPT ![q] =
       [step |-> "composing", actor |-> a, verify |-> verify, gateways |-> {}, entry |-> {},
        todo |-> {[conn |-> c, cred |-> conn[c].cred] : c \in rows}]]
  /\ UNCHANGED <<conn, grant, consent, providerVars>>

\* list_active: the snapshot the composition works through.
list_active(q, a) ==
  Compose(q, a, FALSE, {c \in Connection : Visible(c, a) /\ Active(c)})

\* verify: get_active takes a row of any status; nothing erased decrypts.
verify_integration_connection(q, a) == \E c \in Connection :
  /\ Visible(c, a)
  /\ require_manager(conn[c].scope, a)
  /\ conn[c].cred # Erased
  /\ Compose(q, a, TRUE, {c})

\* effective_grants: of subjects the context of the actor matches.
effective_grants(c, a) == {g \in grant : g.key.conn = c /\ g.key.subject \in SubjectsOf[a]}

Gateway(q, entry) ==
  [conn |-> entry.conn,
   grants |-> {<<g.key.tool, g.permission>> : g \in effective_grants(entry.conn, call[q].actor)}]

\* A header, or a token with more than a minute to go.
Usable(entry) == entry.cred = Manual \/ entry.cred.access > expired[entry.conn]

\* _composite, one connection at a time: without a grant it is left out.  The
\* gateway is of no use to anyone before its authorization is resolved.
ComposeOne(q) ==
  /\ At(q, "composing")
  /\ \E entry \in call[q].todo :
       LET gateway == Gateway(q, entry)
           rest == [call[q] EXCEPT !.todo = @ \ {entry}]
       IN call' = [call EXCEPT ![q] =
            IF ~call[q].verify /\ gateway.grants = {} THEN rest
            ELSE IF Usable(entry) THEN [rest EXCEPT !.gateways = @ \cup {gateway}]
            ELSE [rest EXCEPT !.gateways = @ \cup {gateway}, !.entry = {entry},
                              !.step = IF entry.cred.refresh = NoToken
                                       THEN "mark expired" ELSE "refresh"]]
  /\ UNCHANGED <<conn, grant, consent, providerVars>>

\* External: a provider that rotates takes only its latest refresh token.
Accepts(c, token) == c \in Rotating => token = issued[c]

\* Only the access token is taken over.
Renewed_AccessOnly(c, cred, token) == OAuth(token, cred.refresh)
\* material.update: the refresh token stays when the provider sent none.
Renewed(c, cred, token) == OAuth(token, IF c \in Rotating THEN token ELSE cred.refresh)

\* _refresh: the provider issues a token, and its answer arrives or does not.
Refresh(q) ==
  /\ At(q, "refresh")
  /\ \E entry \in call[q].entry, arrives \in BOOLEAN :
       LET c == entry.conn
           token == issued[c] + 1
       IN /\ issued[c] < MaxTokens
          /\ Accepts(c, entry.cred.refresh)
          /\ issued' = [issued EXCEPT ![c] = token]
          /\ IF arrives
             THEN /\ call' = [call EXCEPT ![q].step = "store",
                       ![q].entry = {[conn |-> c, cred |-> Renewed(c, entry.cred, token)]}]
                  /\ UNCHANGED lost
             ELSE /\ Goto(q, "mark error")
                  /\ lost' = lost \cup {c}
  /\ UNCHANGED <<conn, grant, consent, expired>>

\* The provider says no.  An HTTP status or a broken connection leads to ERROR;
\* a refusal in the body is an OAuthFlowError and passes the handler by.
RefreshRefused(q) ==
  /\ At(q, "refresh")
  /\ \/ Goto(q, "mark error")
     \/ Rest(q)
  /\ UNCHANGED <<conn, grant, consent, providerVars>>

Mark(q) ==
  /\ \/ At(q, "mark error") /\ \E e \in call[q].entry : mark_status(e.conn, "error")
     \/ At(q, "mark expired") /\ \E e \in call[q].entry : mark_status(e.conn, "expired")
  /\ Rest(q)
  /\ UNCHANGED <<grant, consent, providerVars>>

\* The refreshed material is stored; the request fails if the row is not
\* active any more.
StoreRefreshed(q) ==
  /\ At(q, "store")
  /\ \E e \in call[q].entry :
       /\ replace_credential(e.conn, e.cred)
       /\ IF Replaceable(e.conn)
          THEN call' = [call EXCEPT ![q].step = "composing", ![q].entry = {}]
          ELSE Rest(q)
  /\ UNCHANGED <<grant, consent, providerVars>>

\* The tool of a grant is not looked at.
Permissions_OfConnection(gateway, tool) == {g[2] : g \in gateway.grants}
\* _permissions of the gateway: grants of the tool or of every tool.
Permissions(gateway, tool) == {g[2] : g \in {x \in gateway.grants : x[1] \in {AnyTool, tool}}}

\* call_tool: reading takes any permission, the rest the stronger ones.
MayCall(gateway, tool) ==
  LET permissions == Permissions(gateway, tool)
  IN /\ permissions # {}
     /\ tool \in ReadOnly \/ permissions \cap {"execute", "administer"} # {}

call_tool(q) ==
  /\ At(q, "composing") /\ call[q].todo = {} /\ ~call[q].verify
  /\ \E gateway \in call[q].gateways, tool \in Tool :
       /\ MayCall(gateway, tool)
       /\ call' = [call EXCEPT ![q] =
            [step |-> "calling", actor |-> call[q].actor, conn |-> gateway.conn, tool |-> tool]]
  /\ UNCHANGED <<conn, grant, consent, providerVars>>

\* The provider answers; or tools were only listed, nothing was permitted.
Respond(q) ==
  /\ \/ At(q, "calling")
     \/ At(q, "composing") /\ call[q].todo = {}
  /\ Rest(q)
  /\ UNCHANGED <<conn, grant, consent, providerVars>>

-----------------------------------------------------------------------------
(* Around the requests.                                                    *)

TokensExpire(c) ==
  /\ expired[c] < issued[c]
  /\ expired' = [expired EXCEPT ![c] = issued[c]]
  /\ UNCHANGED <<conn, grant, consent, call, issued, lost>>

\* A token of the provider that is not stored yet is lost with its request.
Unstored(q) == At(q, "store")

\* A request fails or is cancelled where it waits, by the timeout of the graph
\* for one, and passes its handlers by.
Abandon(q) ==
  /\ call[q] # Resting
  /\ lost' = IF Unstored(q) THEN lost \cup {e.conn : e \in call[q].entry} ELSE lost
  /\ Rest(q)
  /\ UNCHANGED <<conn, grant, consent, issued, expired>>

\* The API process dies, and all of them with it.
ApiRestarts ==
  /\ \E q \in Call : call[q] # Resting
  /\ lost' = lost \cup {e.conn : e \in UNION {call[q].entry : q \in {x \in Call : Unstored(x)}}}
  /\ call' = [q \in Call |-> Resting]
  /\ UNCHANGED <<conn, grant, consent, issued, expired>>

ConnectionsNext ==
  \/ \E a \in Actor :
       \/ create_integration_connection(a)
       \/ start_integration_oauth(a)
       \/ finish_integration_oauth(a)
  \/ \E q \in Call, a \in Actor :
       \/ disable_integration_connection(q, a)
       \/ revoke_integration_connection(q, a)
       \/ reconnect_integration_connection(q, a)
       \/ set_connection_grant(q, a)
       \/ verify_integration_connection(q, a)
       \/ list_active(q, a)
  \/ \E q \in Call :
       \/ Disable(q)
       \/ Revoke(q)
       \/ Reconnect(q)
       \/ NotFound(q)
       \/ SetGrant(q)
       \/ ComposeOne(q)
       \/ Refresh(q)
       \/ RefreshRefused(q)
       \/ Mark(q)
       \/ StoreRefreshed(q)
       \/ call_tool(q)
       \/ Respond(q)
       \/ Abandon(q)
  \/ \E c \in Connection : TokensExpire(c)
  \/ ConsentFails
  \/ ApiRestarts

ConnectionsSpec == ConnectionsInit /\ [][ConnectionsNext]_connectionVars

-----------------------------------------------------------------------------
(* Properties.                                                             *)

\* Whoever ends a connection can rely on it: nothing but a manager's reconnect
\* may bring a disabled, revoked, expired or broken one back, or erased material.
\* A refresh that began before and ends after it does not (replace_credential,
\* mark_status).
OnlyReconnectReactivates ==
  [][\A c \in Connection :
       Exists(c) /\ ~(\E q \in Call : Reconnect(q) /\ call[q].conn = c) =>
         /\ ~Active(c) => conn'[c].status # "active"
         /\ conn[c].cred = Erased => conn'[c].cred = Erased]_connectionVars

\* The stored refresh token of an active connection is one its provider still
\* takes, however many requests refresh it at once: unless the provider's
\* answer was lost, or the request that had it died or gave up, or a request is
\* about to store the new one (authorization_for, _refresh).
StoredTokenWorks ==
  \A c \in Connection :
    (/\ Exists(c) /\ Active(c) /\ conn[c].cred.kind = "oauth"
     /\ conn[c].cred.refresh # NoToken /\ c \notin lost)
    => \/ Accepts(c, conn[c].cred.refresh)
       \/ \E q \in Call : Unstored(q) /\ \E e \in call[q].entry :
            e.conn = c /\ Accepts(c, e.cred.refresh)

\* A tool call that reaches a provider goes through a connection its actor
\* may see, and for which someone granted the actor that very tool or all of
\* them; nothing done while it composes its gateways changes that
\* (_composite, GrantFilteredToolGateway).
CallsAreGranted ==
  \A q \in Call : At(q, "calling") =>
    /\ Visible(call[q].conn, call[q].actor)
    /\ \E g \in effective_grants(call[q].conn, call[q].actor) :
         g.key.tool \in {AnyTool, call[q].tool}

\* "PUT .../{id}/credential performs a write-only reconnect or rotation and
\* returns the connection to active state": a manager who reconnects one they
\* can see is told that there is no such connection whenever it has expired, is
\* broken, disabled or revoked.
ReconnectReactivates == \A q \in Call : ~At(q, "not found")

=============================================================================
