--------------------------- MODULE ConnectionsProofs ---------------------------
(***************************************************************************)
(* Proofs about Connections for every set of actors, connections, tools,   *)
(* permissions and requests, and every number of tokens.                   *)
(*                                                                         *)
(* Three inductive invariants: Typed has the shapes of the tables, and     *)
(* that requests work through rows that exist; Backed adds the grants      *)
(* behind every gateway that is being composed; Tokens adds that a token   *)
(* which is not stored yet is the latest and carried by one request only.  *)
(***************************************************************************)
EXTENDS Connections, TLAPS

-----------------------------------------------------------------------------
(* The shape of rows and requests *)

Material == [kind : {"oauth"}, access : Nat, refresh : Nat]
Credential == {Erased, Manual} \cup Material

Row == [status : ConnectionStatus, scope : Scope, cred : Credential,
        owner : SUBSET Actor]

GrantRow == [key : [conn : Connection, subject : Subject,
                    tool : Tool \cup {AnyTool}],
             permission : Granted]

ConsentRow == [row : Connection, actor : Actor, scope : Scope]

\* What a composition works through is a usable credential of a connection.
Entry == [conn : Connection, cred : Credential \ {Erased}]

Filtered == [conn : Connection, grants : SUBSET ((Tool \cup {AnyTool}) \X Granted)]

Looking == [step : {"disable", "revoke", "reconnect", "grant", "not found"},
            actor : Actor, conn : Connection]

Composing == [step : {"composing", "mark expired", "mark error", "refresh", "store"},
              actor : Actor, verify : BOOLEAN, gateways : SUBSET Filtered,
              entry : SUBSET Entry, todo : SUBSET Entry]

Calling == [step : {"calling"}, actor : Actor, conn : Connection, tool : Tool]

CallRow == {Resting} \cup Looking \cup Composing \cup Calling

\* The types of the tables and of the requests in flight.
Shapes ==
  /\ conn \in [Connection -> {Absent} \cup Row]
  /\ grant \subseteq GrantRow
  /\ consent \subseteq ConsentRow
  /\ call \in [Call -> CallRow]
  /\ issued \in [Connection -> Nat]
  /\ expired \in [Connection -> Nat]
  /\ lost \subseteq Connection

\* What a request has looked up is there; what is about to be refreshed is OAuth
\* material.
FoundBy(x) ==
  /\ x \in Looking \cup Calling => Exists(x.conn)
  /\ x \in Composing =>
       /\ \A e \in x.todo \cup x.entry \cup x.gateways : Exists(e.conn)
       /\ \A e \in x.entry : e.cred \in Material

\* An active row has something to authorize with.
Found ==
  /\ \A c \in Connection : Exists(c) /\ Active(c) => conn[c].cred # Erased
  /\ \A q \in Call : FoundBy(call[q])

\* The row a browser's consent may become is nobody's yet.
Claimed ==
  /\ \A s \in consent : ~Exists(s.row)
  /\ \A s, t \in consent : s.row = t.row => s = t

Typed == Shapes /\ Found /\ Claimed

\* The three shapes of a request are told apart by their steps.
LEMMA StepShapes ==
  ASSUME Shapes, NEW q \in Call
  PROVE  /\ call[q] = Resting => call[q].step = "resting"
         /\ call[q].step \in {"disable", "revoke", "reconnect", "grant", "not found"}
              <=> call[q] \in Looking
         /\ call[q].step \in {"composing", "mark expired", "mark error", "refresh",
                              "store"}
              <=> call[q] \in Composing
         /\ call[q].step = "calling" <=> call[q] \in Calling
<1>1. call[q] \in CallRow
  BY DEF Shapes
<1>2. Resting.step = "resting"
  BY DEF Resting
<1>3. \A x \in Looking :
        x.step \in {"disable", "revoke", "reconnect", "grant", "not found"}
  BY DEF Looking
<1>4. \A x \in Composing :
        x.step \in {"composing", "mark expired", "mark error", "refresh", "store"}
  BY DEF Composing
<1>5. \A x \in Calling : x.step = "calling"
  BY DEF Calling
<1> QED
  BY <1>1, <1>2, <1>3, <1>4, <1>5 DEF CallRow

\* Existing rows have the columns of a row.
LEMMA RowShape ==
  ASSUME Shapes, NEW c \in Connection
  PROVE  Exists(c) <=> conn[c] \in Row
BY DEF Shapes, Exists, Absent, Row, ConnectionStatus

\* The empty tables are in their types.
LEMMA InitTyped == ConnectionsInit => Typed
<1> SUFFICES ASSUME ConnectionsInit PROVE Typed
  OBVIOUS
<1>1. Shapes
  BY DEF ConnectionsInit, Shapes, CallRow
<1>2. Found
  BY DEF ConnectionsInit, Found, FoundBy, Exists, Resting, Looking, Composing, Calling
<1>3. Claimed
  BY DEF ConnectionsInit, Claimed
<1> QED
  BY <1>1, <1>2, <1>3 DEF Typed

-----------------------------------------------------------------------------
(* What a step does to the rows *)

\* A row is never deleted, and its scope and its owner never change.
RowsStay ==
  \A c \in Connection : Exists(c) =>
    /\ conn'[c] # Absent
    /\ conn'[c].scope = conn[c].scope /\ conn'[c].owner = conn[c].owner

\* A row of another status, and possibly erased, is still a row.
LEMMA MarkShape ==
  ASSUME Shapes, NEW c \in Connection, Exists(c), NEW status \in ConnectionStatus,
         mark_status(c, status)
  PROVE  /\ conn' \in [Connection -> {Absent} \cup Row]
         /\ RowsStay
         /\ \A b \in Connection \ {c} : conn'[b] = conn[b]
         /\ conn'[c].status = status
         /\ conn'[c].cred = IF status \in {"revoked", "disabled"} THEN Erased
                            ELSE conn[c].cred
<1> DEFINE row == [conn[c] EXCEPT !.status = status,
                     !.cred = IF status \in {"revoked", "disabled"} THEN Erased ELSE @]
<1>0. conn \in [Connection -> {Absent} \cup Row] /\ conn[c] \in Row
  BY RowShape DEF Shapes
<1>1. /\ row \in Row /\ row.scope = conn[c].scope /\ row.owner = conn[c].owner
      /\ row.status = status
      /\ row.cred = IF status \in {"revoked", "disabled"} THEN Erased ELSE conn[c].cred
  BY <1>0 DEF Row, Credential
<1>2. conn' = [conn EXCEPT ![c] = row]
  BY <1>0 DEF mark_status
<1>3. row # Absent
  BY <1>1 DEF Row, Absent, ConnectionStatus
<1> HIDE DEF row
<1> QED
  BY <1>0, <1>1, <1>2, <1>3 DEF RowsStay, Exists

\* A replaced credential belongs to a row that is active.
LEMMA ReplaceShape ==
  ASSUME Shapes, NEW c \in Connection, Exists(c), NEW cred \in Credential,
         replace_credential(c, cred)
  PROVE  /\ conn' \in [Connection -> {Absent} \cup Row]
         /\ RowsStay
         /\ \A b \in Connection \ {c} : conn'[b] = conn[b]
         /\ IF Active(c) THEN conn'[c].status = "active" /\ conn'[c].cred = cred
            ELSE conn'[c] = conn[c]
<1> DEFINE row == [conn[c] EXCEPT !.status = "active", !.cred = cred]
<1>0. conn \in [Connection -> {Absent} \cup Row] /\ conn[c] \in Row
  BY RowShape DEF Shapes
<1>1. /\ row \in Row /\ row.scope = conn[c].scope /\ row.owner = conn[c].owner
      /\ row.status = "active" /\ row.cred = cred
  BY <1>0 DEF Row, ConnectionStatus
<1>2. conn' = IF Active(c) THEN [conn EXCEPT ![c] = row] ELSE conn
  BY <1>0 DEF replace_credential, Replaceable
<1>3. row # Absent
  BY <1>1 DEF Row, Absent
<1> HIDE DEF row
<1> QED
  BY <1>0, <1>1, <1>2, <1>3 DEF RowsStay, Exists

\* A created row is an active one with a credential.
LEMMA CreateShape ==
  ASSUME Shapes, NEW c \in Connection, ~Exists(c), NEW a \in Actor, NEW scope \in Scope,
         NEW cred \in Credential \ {Erased}, create(c, a, scope, cred)
  PROVE  /\ conn' \in [Connection -> {Absent} \cup Row]
         /\ RowsStay
         /\ \A b \in Connection \ {c} : conn'[b] = conn[b]
         /\ conn'[c] \in Row /\ conn'[c].status = "active" /\ conn'[c].cred = cred
<1> DEFINE row == [status |-> "active", scope |-> scope, cred |-> cred,
                   owner |-> IF scope = "personal" THEN {a} ELSE {}]
<1>1. row \in Row /\ row.status = "active" /\ row.cred = cred
  BY DEF Row, ConnectionStatus
<1>2. conn' = [conn EXCEPT ![c] = row]
  BY DEF create
<1> HIDE DEF row
<1> QED
  BY <1>1, <1>2 DEF Shapes, RowsStay, Exists

-----------------------------------------------------------------------------
(* The types are inductive *)

\* What was found stays found.
LEMMA FoundByStays ==
  ASSUME RowsStay, NEW x \in CallRow, FoundBy(x)
  PROVE  FoundBy(x)'
<1>1. \A c \in Connection : Exists(c) => Exists(c)'
  BY DEF RowsStay, Exists
<1>2. /\ x \in Looking \cup Calling => x.conn \in Connection
      /\ x \in Composing =>
           \A e \in x.todo \cup x.entry \cup x.gateways : e.conn \in Connection
  BY DEF Looking, Calling, Composing, Entry, Filtered
<1> QED
  BY <1>1, <1>2 DEF FoundBy

\* One request gets something that was found, or everything rests.
NewCall(q, x) == /\ q \in Call /\ x \in CallRow /\ FoundBy(x)
                 /\ call' = [call EXCEPT ![q] = x]

LEMMA FoundStays ==
  ASSUME Typed, RowsStay,
         \A c \in Connection : Exists(c)' /\ Active(c)' => conn'[c].cred # Erased,
         \/ call' = call
         \/ \E q, x : NewCall(q, x)
         \/ call' = [q \in Call |-> Resting]
  PROVE  Found' /\ call' \in [Call -> CallRow]
<1>0. call \in [Call -> CallRow] /\ Found
  BY DEF Typed, Shapes
<1>1. Resting \in CallRow /\ FoundBy(Resting)
  BY DEF CallRow, FoundBy, Resting, Looking, Composing, Calling
<1>2. call' \in [Call -> CallRow]
  BY <1>0, <1>1 DEF NewCall
<1>3. ASSUME NEW p \in Call PROVE FoundBy(call[p])'
  <2>1. \E z \in CallRow : z = call'[p] /\ FoundBy(z)
    BY <1>0, <1>1 DEF Found, NewCall
  <2>2. PICK z \in CallRow : z = call'[p] /\ FoundBy(z)
    BY <2>1
  <2>3. FoundBy(z)'
    BY <2>2, FoundByStays
  <2> QED
    BY <2>2, <2>3
<1>4. Found'
  BY <1>3 DEF Found
<1> QED
  BY <1>2, <1>4

\* Without new rows and new consents there are no new claims.
LEMMA ClaimedStays ==
  ASSUME Typed, consent' \subseteq consent,
         \A c \in Connection : ~Exists(c) => conn'[c] = conn[c]
  PROVE  Claimed'
BY DEF Typed, Shapes, ConsentRow, Claimed, Exists

\* A request takes its next step, or rests.
LEMMA GotoShape ==
  ASSUME Typed, NEW q \in Call, NEW step, Goto(q, step),
         \/ /\ call[q] \in Composing
            /\ step \in {"composing", "mark expired", "mark error", "refresh", "store"}
         \/ call[q] \in Looking /\ step = "not found"
  PROVE  \E x : NewCall(q, x)
<1> DEFINE x == [call[q] EXCEPT !.step = step]
<1>0. call \in [Call -> CallRow] /\ FoundBy(call[q])
  BY DEF Typed, Shapes, Found
<1>1. call' = [call EXCEPT ![q] = x]
  BY <1>0 DEF Goto
<1>2. CASE call[q] \in Composing
  <2>1. /\ x \in Composing /\ x.todo = call[q].todo /\ x.entry = call[q].entry
        /\ x.gateways = call[q].gateways
    BY <1>2, StepShapes DEF Composing, Typed
  <2>2. x \notin Looking \cup Calling
    BY <2>1 DEF Composing, Looking, Calling
  <2>3. FoundBy(x)
    BY <1>0, <1>2, <2>1, <2>2 DEF FoundBy
  <2> HIDE DEF x
  <2> QED
    BY <1>1, <2>1, <2>3 DEF NewCall, CallRow
<1>3. CASE call[q] \in Looking
  <2>0. step = "not found"
    BY <1>3, StepShapes DEF Looking, Composing, Typed
  <2>1. x \in Looking /\ x.conn = call[q].conn
    BY <1>3, <2>0 DEF Looking
  <2>2. x \notin Composing
    BY <2>1 DEF Composing, Looking
  <2>3. FoundBy(x)
    BY <1>0, <1>3, <2>1, <2>2 DEF FoundBy
  <2> HIDE DEF x
  <2> QED
    BY <1>1, <2>1, <2>3 DEF NewCall, CallRow
<1> QED
  BY <1>2, <1>3

\* A request that rests has nothing to have found.
LEMMA RestShape ==
  ASSUME NEW q \in Call, Rest(q)
  PROVE  \E x : NewCall(q, x)
BY DEF Rest, NewCall, CallRow, FoundBy, Resting, Looking, Composing, Calling

\* Steps that write no row.
LEMMA NoRowTyped ==
  ASSUME Typed, conn' = conn, consent' \subseteq consent, grant' \subseteq GrantRow,
         issued' \in [Connection -> Nat], expired' \in [Connection -> Nat],
         lost' \subseteq Connection,
         \/ call' = call
         \/ \E q, x : NewCall(q, x)
         \/ call' = [q \in Call |-> Resting]
  PROVE  Typed' /\ RowsStay
<1>1. RowsStay
  BY DEF RowsStay, Exists
<1>2. \A c \in Connection : Exists(c)' /\ Active(c)' => conn'[c].cred # Erased
  BY DEF Exists, Active, Typed, Found
<1>3. Found' /\ call' \in [Call -> CallRow]
  BY <1>1, <1>2, FoundStays
<1>4. Claimed'
  BY ClaimedStays
<1>5. Shapes'
  BY <1>3 DEF Typed, Shapes
<1> QED
  BY <1>1, <1>3, <1>4, <1>5 DEF Typed

\* Steps that write an existing row.
LEMMA RowTyped ==
  ASSUME Typed, NEW c \in Connection, Exists(c),
         \/ \E status \in ConnectionStatus \ {"active"} :
               mark_status(c, status)
         \/ \E cred \in Credential \ {Erased} : replace_credential(c, cred),
         UNCHANGED <<grant, consent, providerVars>>,
         \E q, x : NewCall(q, x)
  PROVE  Typed' /\ RowsStay
<1>0. Shapes
  BY DEF Typed
<1>1. /\ conn' \in [Connection -> {Absent} \cup Row] /\ RowsStay
      /\ \A b \in Connection \ {c} : conn'[b] = conn[b]
      /\ conn'[c].status = "active" => conn'[c].cred # Erased
  <2>1. ASSUME NEW status \in ConnectionStatus \ {"active"}, mark_status(c, status)
        PROVE  /\ conn' \in [Connection -> {Absent} \cup Row] /\ RowsStay
               /\ \A b \in Connection \ {c} : conn'[b] = conn[b]
               /\ conn'[c].status = "active" => conn'[c].cred # Erased
    BY <1>0, <2>1, MarkShape
  <2>2. ASSUME NEW cred \in Credential \ {Erased}, replace_credential(c, cred)
        PROVE  /\ conn' \in [Connection -> {Absent} \cup Row] /\ RowsStay
               /\ \A b \in Connection \ {c} : conn'[b] = conn[b]
               /\ conn'[c].status = "active" => conn'[c].cred # Erased
    <3>1. /\ conn' \in [Connection -> {Absent} \cup Row] /\ RowsStay
          /\ \A b \in Connection \ {c} : conn'[b] = conn[b]
          /\ IF Active(c) THEN conn'[c].status = "active" /\ conn'[c].cred = cred
             ELSE conn'[c] = conn[c]
      BY <1>0, <2>2, ReplaceShape
    <3> QED
      BY <3>1 DEF Active
  <2> QED
    BY <2>1, <2>2
<1>2. \A b \in Connection : Exists(b)' /\ Active(b)' => conn'[b].cred # Erased
  BY <1>1 DEF Exists, Active, Typed, Found
<1>3. Found' /\ call' \in [Call -> CallRow]
  BY <1>1, <1>2, FoundStays
<1>4. Claimed'
  BY <1>1, ClaimedStays
<1>5. Shapes'
  BY <1>1, <1>3 DEF Typed, Shapes, providerVars
<1> QED
  BY <1>1, <1>3, <1>4, <1>5 DEF Typed

\* Steps that insert a row: the consent it came from is used up.
LEMMA InsertTyped ==
  ASSUME Typed, NEW c \in Connection, ~Exists(c), NEW a \in Actor, NEW scope \in Scope,
         NEW cred \in Credential \ {Erased}, create(c, a, scope, cred),
         UNCHANGED <<grant, call, expired, lost>>,
         issued' \in [Connection -> Nat],
         consent' \subseteq consent, \A s \in consent' : s.row # c
  PROVE  Typed' /\ RowsStay
<1>1. /\ conn' \in [Connection -> {Absent} \cup Row] /\ RowsStay
      /\ \A b \in Connection \ {c} : conn'[b] = conn[b]
      /\ conn'[c] \in Row /\ conn'[c].status = "active" /\ conn'[c].cred = cred
  BY CreateShape DEF Typed
<1>2. \A b \in Connection : Exists(b)' /\ Active(b)' => conn'[b].cred # Erased
  BY <1>1 DEF Exists, Active, Typed, Found
<1>3. Found' /\ call' \in [Call -> CallRow]
  BY <1>1, <1>2, FoundStays
<1>4. Claimed'
  BY <1>1 DEF Typed, Shapes, ConsentRow, Claimed, Exists
<1>5. Shapes'
  BY <1>1, <1>3 DEF Typed, Shapes
<1> QED
  BY <1>1, <1>3, <1>4, <1>5 DEF Typed

\* Each action keeps the types; those of managers first.
LEMMA ManagersTyped ==
  ASSUME Typed,
         \/ \E a \in Actor :
              \/ create_integration_connection(a)
              \/ start_integration_oauth(a)
              \/ finish_integration_oauth(a)
         \/ \E q \in Call, a \in Actor :
              \/ disable_integration_connection(q, a)
              \/ revoke_integration_connection(q, a)
              \/ reconnect_integration_connection(q, a)
              \/ set_connection_grant(q, a)
         \/ \E q \in Call :
              Disable(q) \/ Revoke(q) \/ Reconnect(q) \/ NotFound(q) \/ SetGrant(q)
         \/ ConsentFails
  PROVE  Typed' /\ RowsStay
<1>0. Shapes /\ Found /\ Claimed
  BY DEF Typed
<1>1. ASSUME NEW a \in Actor, create_integration_connection(a)
      PROVE  Typed' /\ RowsStay
  <2>1. PICK c \in Connection, scope \in Scope :
          /\ Unclaimed(c) /\ create(c, a, scope, Manual)
          /\ UNCHANGED <<grant, consent, call, providerVars>>
    BY <1>1 DEF create_integration_connection
  <2>2. Manual \in Credential \ {Erased}
    BY DEF Credential, Manual, Erased
  <2>3. issued' \in [Connection -> Nat]
    BY <1>0, <2>1 DEF Shapes, providerVars
  <2> QED
    BY <2>1, <2>2, <2>3, InsertTyped DEF Unclaimed, providerVars
<1>2. ASSUME NEW a \in Actor, start_integration_oauth(a)
      PROVE  Typed' /\ RowsStay
  <2>1. PICK c \in Connection, scope \in Scope :
          /\ Unclaimed(c)
          /\ consent' = consent \cup {[row |-> c, actor |-> a, scope |-> scope]}
          /\ UNCHANGED <<conn, grant, call, providerVars>>
    BY <1>2 DEF start_integration_oauth
  <2>2. RowsStay
    BY <2>1 DEF RowsStay, Exists
  <2>3. Found' /\ call' \in [Call -> CallRow]
    <3>1. \A b \in Connection : Exists(b)' /\ Active(b)' => conn'[b].cred # Erased
      BY <1>0, <2>1 DEF Exists, Active, Found
    <3> QED
      BY <2>1, <2>2, <3>1, FoundStays
  <2>4. [row |-> c, actor |-> a, scope |-> scope] \in ConsentRow
    BY DEF ConsentRow
  <2>5. Claimed'
    BY <1>0, <2>1 DEF Claimed, Unclaimed, Exists
  <2>6. Shapes'
    BY <1>0, <2>1, <2>3, <2>4 DEF Shapes, providerVars
  <2> QED
    BY <2>2, <2>3, <2>5, <2>6 DEF Typed
<1>3. ASSUME NEW a \in Actor, finish_integration_oauth(a)
      PROVE  Typed' /\ RowsStay
  <2>1. PICK s \in consent, renewable \in BOOLEAN :
          /\ create(s.row, a, s.scope, Exchange(s.row, renewable))
          /\ issued' = [issued EXCEPT ![s.row] = 1]
          /\ consent' = consent \ {s}
          /\ UNCHANGED <<grant, call, expired, lost>>
    BY <1>3 DEF finish_integration_oauth
  <2>2. s.row \in Connection /\ s.scope \in Scope /\ ~Exists(s.row)
    BY <1>0 DEF Shapes, ConsentRow, Claimed
  <2>3. Exchange(s.row, renewable) \in Credential \ {Erased}
    BY DEF Exchange, OAuth, NoToken, Credential, Material, Erased
  <2>4. issued' \in [Connection -> Nat]
    BY <1>0, <2>1, <2>2 DEF Shapes
  <2>5. \A t \in consent' : t.row # s.row
    BY <1>0, <2>1 DEF Claimed
  <2> QED
    BY <2>1, <2>2, <2>3, <2>4, <2>5, InsertTyped
<1>4. ASSUME NEW q \in Call, NEW a \in Actor,
             NEW op \in {"disable", "revoke", "reconnect", "grant"}, Look(q, a, op)
      PROVE  Typed' /\ RowsStay
  <2>1. PICK c \in Connection :
          /\ Visible(c, a)
          /\ call' = [call EXCEPT ![q] = [step |-> op, actor |-> a, conn |-> c]]
          /\ UNCHANGED <<conn, grant, consent, providerVars>>
    BY <1>4 DEF Look
  <2> DEFINE x == [step |-> op, actor |-> a, conn |-> c]
  <2>2. x \in Looking /\ x \notin Composing /\ Exists(x.conn)
    BY <2>1 DEF Looking, Composing, Visible
  <2>3. call' = [call EXCEPT ![q] = x]
    BY <2>1
  <2> HIDE DEF x
  <2>4. NewCall(q, x)
    BY <2>2, <2>3 DEF NewCall, CallRow, FoundBy
  <2> QED
    BY <1>0, <2>1, <2>4, NoRowTyped DEF providerVars, Shapes
<1>5. ASSUME NEW q \in Call,
             Disable(q) \/ Revoke(q) \/ Reconnect(q) \/ NotFound(q) \/ SetGrant(q)
      PROVE  Typed' /\ RowsStay
  <2>0. call[q] \in Looking /\ call[q].conn \in Connection /\ Exists(call[q].conn)
    <3>1. call[q] \in Looking
      BY <1>0, <1>5, StepShapes DEF Disable, Revoke, Reconnect, NotFound, SetGrant, At
    <3> QED
      BY <1>0, <3>1 DEF Looking, Found, FoundBy
  <2>1. CASE Disable(q) \/ Revoke(q)
    <3>1. \E status \in ConnectionStatus \ {"active"} : mark_status(call[q].conn, status)
      BY <2>1 DEF Disable, Revoke, ConnectionStatus
    <3>2. \E p, x : NewCall(p, x)
      BY <2>1, RestShape DEF Disable, Revoke
    <3> QED
      BY <2>0, <2>1, <3>1, <3>2, RowTyped DEF Disable, Revoke
  <2>2. CASE Reconnect(q)
    <3>1. Manual \in Credential \ {Erased} /\ replace_credential(call[q].conn, Manual)
      BY <2>2 DEF Reconnect, Credential, Manual, Erased
    <3>2. \E p, x : NewCall(p, x)
      BY <2>0, <2>2, RestShape, GotoShape DEF Reconnect
    <3> QED
      BY <2>0, <2>2, <3>1, <3>2, RowTyped DEF Reconnect
  <2>3. CASE NotFound(q)
    <3>1. \E p, x : NewCall(p, x)
      BY <2>3, RestShape DEF NotFound
    <3> QED
      BY <1>0, <2>3, <3>1, NoRowTyped DEF NotFound, providerVars, Shapes
  <2>4. CASE SetGrant(q)
    <3>1. \E p, x : NewCall(p, x)
      BY <2>4, RestShape DEF SetGrant
    <3>2. grant' \subseteq GrantRow
      BY <1>0, <2>0, <2>4 DEF SetGrant, upsert_grant, Shapes, GrantRow
    <3> QED
      BY <1>0, <2>4, <3>1, <3>2, NoRowTyped DEF SetGrant, providerVars, Shapes
  <2> QED
    BY <1>5, <2>1, <2>2, <2>3, <2>4
<1>6. ASSUME ConsentFails PROVE Typed' /\ RowsStay
  BY <1>0, <1>6, NoRowTyped DEF ConsentFails, providerVars, Shapes
<1> QED
  BY <1>1, <1>2, <1>3, <1>4, <1>5, <1>6
     DEF disable_integration_connection, revoke_integration_connection,
         reconnect_integration_connection, set_connection_grant

\* A composition takes one connection further: what it keeps it had, but for the
\* gateway of the connection and the material to be refreshed.
Composed(q, entry, x) ==
  /\ x \in Composing /\ x.actor = call[q].actor /\ x.verify = call[q].verify
  /\ x.todo \subseteq call[q].todo
  /\ x.entry = call[q].entry \/ (x.entry = {entry} /\ entry.cred \in Material)
  /\ x.gateways \in {call[q].gateways, call[q].gateways \cup {Gateway(q, entry)}}
  /\ x.step \in {"composing", "mark expired", "refresh"}
  /\ x.step # "composing" => x.entry = {entry}
  /\ x.step = "composing" => x.entry = call[q].entry
  /\ call' = [call EXCEPT ![q] = x]

LEMMA ComposeShape ==
  ASSUME Typed, NEW q \in Call, ComposeOne(q)
  PROVE  /\ call[q] \in Composing
         /\ \E entry \in call[q].todo, x \in Composing : Composed(q, entry, x)
<1>0. Shapes /\ call[q] \in Composing /\ call[q].step = "composing"
  BY StepShapes DEF Typed, ComposeOne, At
<1> DEFINE rest(entry) == [call[q] EXCEPT !.todo = @ \ {entry}]
           full(entry) == [rest(entry) EXCEPT !.gateways = @ \cup {Gateway(q, entry)}]
           stop(entry, step) == [rest(entry) EXCEPT
                      !.gateways = @ \cup {Gateway(q, entry)}, !.entry = {entry},
                      !.step = step]
<1>1. PICK entry \in call[q].todo :
        call' = [call EXCEPT ![q] =
            IF ~call[q].verify /\ Gateway(q, entry).grants = {} THEN rest(entry)
            ELSE IF Usable(entry) THEN full(entry)
            ELSE stop(entry, IF entry.cred.refresh = NoToken
                             THEN "mark expired" ELSE "refresh")]
  BY <1>0, Zenon DEF ComposeOne
<1>2. entry \in Entry
  BY <1>0 DEF Composing
<1>3. Gateway(q, entry) \in Filtered
  BY <1>0, <1>2 DEF Gateway, Filtered, effective_grants, Shapes, GrantRow, Entry
<1>4. ~Usable(entry) => entry.cred \in Material
  BY <1>2 DEF Usable, Entry, Credential
<1>5. /\ rest(entry) \in Composing
      /\ rest(entry).actor = call[q].actor /\ rest(entry).verify = call[q].verify
      /\ rest(entry).todo \subseteq call[q].todo
      /\ rest(entry).entry = call[q].entry
      /\ rest(entry).gateways = call[q].gateways
      /\ rest(entry).step = "composing"
  BY <1>0 DEF Composing
<1> HIDE DEF rest
<1>6. /\ full(entry) \in Composing
      /\ full(entry).actor = call[q].actor /\ full(entry).verify = call[q].verify
      /\ full(entry).todo \subseteq call[q].todo
      /\ full(entry).entry = call[q].entry
      /\ full(entry).gateways = call[q].gateways \cup {Gateway(q, entry)}
      /\ full(entry).step = "composing"
  BY <1>3, <1>5 DEF Composing
<1>7. ASSUME NEW step \in {"mark expired", "refresh"}
      PROVE  /\ stop(entry, step) \in Composing
             /\ stop(entry, step).actor = call[q].actor
             /\ stop(entry, step).verify = call[q].verify
             /\ stop(entry, step).todo \subseteq call[q].todo
             /\ stop(entry, step).entry = {entry}
             /\ stop(entry, step).gateways = call[q].gateways \cup {Gateway(q, entry)}
             /\ stop(entry, step).step = step
  BY <1>2, <1>3, <1>5 DEF Composing
<1> HIDE DEF full, stop
<1>8. \/ call' = [call EXCEPT ![q] = rest(entry)]
      \/ call' = [call EXCEPT ![q] = full(entry)]
      \/ ~Usable(entry) /\ \E step \in {"mark expired", "refresh"} :
            call' = [call EXCEPT ![q] = stop(entry, step)]
  BY <1>1
<1>9. CASE call' = [call EXCEPT ![q] = rest(entry)]
  <2>1. Composed(q, entry, rest(entry))
    BY <1>5, <1>9 DEF Composed
  <2> QED
    BY <1>0, <1>5, <2>1
<1>10. CASE call' = [call EXCEPT ![q] = full(entry)]
  <2>1. Composed(q, entry, full(entry))
    BY <1>6, <1>10 DEF Composed
  <2> QED
    BY <1>0, <1>6, <2>1
<1>11. CASE ~Usable(entry) /\ \E step \in {"mark expired", "refresh"} :
              call' = [call EXCEPT ![q] = stop(entry, step)]
  <2>1. PICK step \in {"mark expired", "refresh"} :
          call' = [call EXCEPT ![q] = stop(entry, step)]
    BY <1>11
  <2>2. Composed(q, entry, stop(entry, step))
    BY <1>4, <1>7, <1>11, <2>1 DEF Composed
  <2> QED
    BY <1>0, <1>7, <2>2
<1> QED
  BY <1>8, <1>9, <1>10, <1>11

\* The actions of the gateway and of its surroundings.
LEMMA GatewayTyped ==
  ASSUME Typed, ConnectionsAssumption,
         \/ \E q \in Call, a \in Actor :
              verify_integration_connection(q, a) \/ list_active(q, a)
         \/ \E q \in Call :
              \/ ComposeOne(q) \/ Refresh(q) \/ RefreshRefused(q) \/ Mark(q)
              \/ StoreRefreshed(q) \/ call_tool(q) \/ Respond(q) \/ Abandon(q)
         \/ \E c \in Connection : TokensExpire(c)
         \/ ApiRestarts
  PROVE  Typed' /\ RowsStay
<1>0. Shapes /\ Found /\ Claimed
  BY DEF Typed
<1>1. ASSUME NEW q \in Call, NEW a \in Actor, NEW verify \in BOOLEAN,
             NEW rows \in SUBSET Connection, Compose(q, a, verify, rows),
             \A c \in rows : Exists(c) /\ conn[c].cred # Erased
      PROVE  Typed' /\ RowsStay
  <2> DEFINE todo == {[conn |-> c, cred |-> conn[c].cred] : c \in rows}
             x == [step |-> "composing", actor |-> a, verify |-> verify,
                   gateways |-> {}, entry |-> {}, todo |-> todo]
  <2>1. todo \subseteq Entry /\ \A e \in todo : Exists(e.conn)
    <3>1. \A c \in rows : conn[c].cred \in Credential
      BY <1>0, <1>1, RowShape DEF Row
    <3> QED
      BY <1>1, <3>1 DEF Entry
  <2>2. call' = [call EXCEPT ![q] = x]
    BY <1>1 DEF Compose
  <2> HIDE DEF todo
  <2>3. /\ x \in Composing /\ x.todo = todo /\ x.entry = {} /\ x.gateways = {}
        /\ x.step = "composing"
    BY <2>1 DEF Composing
  <2> HIDE DEF x
  <2>4. x \notin Looking \cup Calling
    BY <2>3 DEF Looking, Calling
  <2>5. NewCall(q, x)
    BY <2>1, <2>2, <2>3, <2>4 DEF NewCall, CallRow, FoundBy
  <2> QED
    BY <1>0, <1>1, <2>5, NoRowTyped DEF Compose, providerVars, Shapes
<1>2. ASSUME NEW q \in Call, NEW a \in Actor,
             verify_integration_connection(q, a) \/ list_active(q, a)
      PROVE  Typed' /\ RowsStay
  <2>1. CASE verify_integration_connection(q, a)
    <3>1. PICK c \in Connection :
            Visible(c, a) /\ conn[c].cred # Erased /\ Compose(q, a, TRUE, {c})
      BY <2>1 DEF verify_integration_connection
    <3> QED
      BY <1>1, <3>1 DEF Visible
  <2>2. CASE list_active(q, a)
    <3>1. Compose(q, a, FALSE, {c \in Connection : Visible(c, a) /\ Active(c)})
      BY <2>2 DEF list_active
    <3>2. \A c \in {c \in Connection : Visible(c, a) /\ Active(c)} :
            Exists(c) /\ conn[c].cred # Erased
      BY <1>0 DEF Found, Visible
    <3> QED
      BY <1>1, <3>1, <3>2
  <2> QED
    BY <1>2, <2>1, <2>2
<1>3. ASSUME NEW q \in Call, ComposeOne(q) PROVE Typed' /\ RowsStay
  <2>1. PICK entry \in call[q].todo, x \in Composing : Composed(q, entry, x)
    BY <1>3, ComposeShape
  <2>2. call[q] \in Composing /\ FoundBy(call[q])
    BY <1>0, <1>3, ComposeShape DEF Found
  <2>3. x \notin Looking \cup Calling
    BY <2>1 DEF Composed, Composing, Looking, Calling
  <2>4. FoundBy(x)
    <3>1. Gateway(q, entry).conn = entry.conn
      BY DEF Gateway
    <3> QED
      BY <2>1, <2>2, <2>3, <3>1 DEF Composed, FoundBy
  <2>5. NewCall(q, x)
    BY <2>1, <2>4 DEF Composed, NewCall, CallRow
  <2> QED
    BY <1>0, <1>3, <2>5, NoRowTyped DEF ComposeOne, providerVars, Shapes
<1>4. ASSUME NEW q \in Call, Refresh(q) PROVE Typed' /\ RowsStay
  <2>0. call[q] \in Composing /\ FoundBy(call[q])
    BY <1>0, <1>4, StepShapes DEF Refresh, At, Found
  <2>1. PICK entry \in call[q].entry, arrives \in BOOLEAN :
          /\ issued' = [issued EXCEPT ![entry.conn] = issued[entry.conn] + 1]
          /\ IF arrives
             THEN /\ call' = [call EXCEPT ![q].step = "store",
                       ![q].entry = {[conn |-> entry.conn,
                            cred |-> Renewed(entry.conn, entry.cred,
                                             issued[entry.conn] + 1)]}]
                  /\ UNCHANGED lost
             ELSE Goto(q, "mark error") /\ lost' = lost \cup {entry.conn}
    BY <1>4 DEF Refresh
  <2>2. /\ entry \in Entry /\ entry.conn \in Connection /\ entry.cred \in Material
        /\ issued[entry.conn] \in Nat /\ Exists(entry.conn)
    BY <1>0, <2>0 DEF Composing, Entry, FoundBy, Shapes
  <2>3. issued' \in [Connection -> Nat]
    <3>1. issued' = [issued EXCEPT ![entry.conn] = issued[entry.conn] + 1]
      BY <2>1
    <3> QED
      BY <1>0, <2>2, <3>1 DEF Shapes
  <2>4. \E p, x : NewCall(p, x)
    <3> DEFINE new == [conn |-> entry.conn,
                       cred |-> Renewed(entry.conn, entry.cred, issued[entry.conn] + 1)]
               u == [call[q] EXCEPT !.step = "store"]
               x == [u EXCEPT !.entry = {new}]
    <3>1. CASE arrives
      <4>1. call' = [call EXCEPT ![q].step = "store", ![q].entry = {new}]
        BY <2>1, <3>1
      <4>2. new \in Entry /\ new.conn = entry.conn /\ new.cred \in Material
        BY <2>2 DEF Renewed, OAuth, Material, Entry, Credential, Erased
      <4> HIDE DEF new
      <4>3. call' = [call EXCEPT ![q] = x]
        BY <1>0, <4>1, Zenon DEF Shapes
      <4>4. u \in Composing /\ u.todo = call[q].todo /\ u.gateways = call[q].gateways
        BY <2>0 DEF Composing
      <4> HIDE DEF u
      <4>5. /\ x \in Composing /\ x.todo = call[q].todo /\ x.entry = {new}
            /\ x.gateways = call[q].gateways
        BY <4>2, <4>4 DEF Composing
      <4> HIDE DEF x
      <4>6. x \notin Looking \cup Calling
        BY <4>5 DEF Composing, Looking, Calling
      <4>7. FoundBy(x)
        BY <2>0, <2>2, <4>2, <4>5, <4>6 DEF FoundBy
      <4> QED
        BY <4>3, <4>5, <4>7 DEF NewCall, CallRow
    <3>2. CASE ~arrives
      BY <2>0, <2>1, <3>2, GotoShape
    <3> QED
      BY <3>1, <3>2
  <2>5. lost' \subseteq Connection
    BY <1>0, <2>1, <2>2 DEF Shapes
  <2> QED
    BY <1>0, <1>4, <2>3, <2>4, <2>5, NoRowTyped DEF Refresh, Shapes
<1>5. ASSUME NEW q \in Call, RefreshRefused(q) PROVE Typed' /\ RowsStay
  <2>0. call[q] \in Composing
    BY <1>0, <1>5, StepShapes DEF RefreshRefused, At
  <2>1. \E p, x : NewCall(p, x)
    BY <1>5, <2>0, GotoShape, RestShape DEF RefreshRefused
  <2> QED
    BY <1>0, <1>5, <2>1, NoRowTyped DEF RefreshRefused, providerVars, Shapes
<1>6. ASSUME NEW q \in Call, Mark(q) PROVE Typed' /\ RowsStay
  <2>0. call[q] \in Composing /\ FoundBy(call[q])
    BY <1>0, <1>6, StepShapes DEF Mark, At, Found
  <2>1. PICK e \in call[q].entry : mark_status(e.conn, "error") \/ mark_status(e.conn, "expired")
    BY <1>6 DEF Mark
  <2>2. e.conn \in Connection /\ Exists(e.conn)
    BY <2>0 DEF Composing, Entry, FoundBy
  <2>3. \E status \in ConnectionStatus \ {"active"} : mark_status(e.conn, status)
    BY <2>1 DEF ConnectionStatus
  <2>4. \E p, x : NewCall(p, x)
    BY <1>6, RestShape DEF Mark
  <2> QED
    BY <1>6, <2>2, <2>3, <2>4, RowTyped DEF Mark
<1>7. ASSUME NEW q \in Call, StoreRefreshed(q) PROVE Typed' /\ RowsStay
  <2>0. call[q] \in Composing /\ FoundBy(call[q])
    BY <1>0, <1>7, StepShapes DEF StoreRefreshed, At, Found
  <2>1. PICK e \in call[q].entry :
          /\ replace_credential(e.conn, e.cred)
          /\ IF Replaceable(e.conn)
             THEN call' = [call EXCEPT ![q].step = "composing", ![q].entry = {}]
             ELSE Rest(q)
    BY <1>7 DEF StoreRefreshed
  <2>2. e.conn \in Connection /\ Exists(e.conn) /\ e.cred \in Credential \ {Erased}
    BY <2>0 DEF Composing, Entry, FoundBy
  <2>3. \E p, x : NewCall(p, x)
    <3> DEFINE u == [call[q] EXCEPT !.step = "composing"]
               x == [u EXCEPT !.entry = {}]
    <3>1. CASE Replaceable(e.conn)
      <4>1. call' = [call EXCEPT ![q].step = "composing", ![q].entry = {}]
        BY <2>1, <3>1
      <4>2. call' = [call EXCEPT ![q] = x]
        BY <1>0, <4>1, Zenon DEF Shapes
      <4>3. u \in Composing /\ u.todo = call[q].todo /\ u.gateways = call[q].gateways
        BY <2>0 DEF Composing
      <4> HIDE DEF u
      <4>4. /\ x \in Composing /\ x.todo = call[q].todo /\ x.entry = {}
            /\ x.gateways = call[q].gateways
        BY <4>3 DEF Composing
      <4> HIDE DEF x
      <4>5. x \notin Looking \cup Calling
        BY <4>4 DEF Composing, Looking, Calling
      <4>6. FoundBy(x)
        BY <2>0, <4>4, <4>5 DEF FoundBy
      <4> QED
        BY <4>2, <4>4, <4>6 DEF NewCall, CallRow
    <3>2. CASE ~Replaceable(e.conn)
      BY <2>1, <3>2, RestShape
    <3> QED
      BY <3>1, <3>2
  <2> QED
    BY <1>7, <2>1, <2>2, <2>3, RowTyped DEF StoreRefreshed
<1>8. ASSUME NEW q \in Call, call_tool(q) PROVE Typed' /\ RowsStay
  <2>0. call[q] \in Composing /\ FoundBy(call[q])
    BY <1>0, <1>8, StepShapes DEF call_tool, At, Found
  <2>1. PICK gateway \in call[q].gateways, tool \in Tool :
          call' = [call EXCEPT ![q] = [step |-> "calling", actor |-> call[q].actor,
                                       conn |-> gateway.conn, tool |-> tool]]
    BY <1>8 DEF call_tool
  <2> DEFINE x == [step |-> "calling", actor |-> call[q].actor,
                   conn |-> gateway.conn, tool |-> tool]
  <2>2. x \in Calling /\ x \notin Composing /\ Exists(x.conn)
    BY <2>0, <2>1 DEF Calling, Composing, Filtered, FoundBy
  <2>3. call' = [call EXCEPT ![q] = x]
    BY <2>1
  <2> HIDE DEF x
  <2>4. NewCall(q, x)
    BY <2>2, <2>3 DEF NewCall, CallRow, FoundBy
  <2> QED
    BY <1>0, <1>8, <2>4, NoRowTyped DEF call_tool, providerVars, Shapes
<1>9. ASSUME NEW q \in Call, Respond(q) PROVE Typed' /\ RowsStay
  <2>1. \E p, x : NewCall(p, x)
    BY <1>9, RestShape DEF Respond
  <2> QED
    BY <1>0, <1>9, <2>1, NoRowTyped DEF Respond, providerVars, Shapes
<1>10. ASSUME NEW c \in Connection, TokensExpire(c) PROVE Typed' /\ RowsStay
  <2>1. expired' \in [Connection -> Nat]
    BY <1>0, <1>10 DEF TokensExpire, Shapes
  <2> QED
    BY <1>0, <1>10, <2>1, NoRowTyped DEF TokensExpire, Shapes
<1>11. ASSUME ApiRestarts PROVE Typed' /\ RowsStay
  <2>1. \A q \in Call : Unstored(q) => call[q] \in Composing
    BY <1>0, StepShapes DEF Unstored, At
  <2>2. \A q \in Call : Unstored(q) => \A e \in call[q].entry : e.conn \in Connection
    BY <2>1 DEF Composing, Entry
  <2>3. lost' \subseteq Connection
    BY <1>0, <1>11, <2>2 DEF ApiRestarts, Shapes
  <2> QED
    BY <1>0, <1>11, <2>3, NoRowTyped DEF ApiRestarts, Shapes
<1>12. ASSUME NEW q \in Call, Abandon(q) PROVE Typed' /\ RowsStay
  <2>1. Unstored(q) => call[q] \in Composing
    BY <1>0, StepShapes DEF Unstored, At
  <2>2. Unstored(q) => \A e \in call[q].entry : e.conn \in Connection
    BY <2>1 DEF Composing, Entry
  <2>3. lost' \subseteq Connection
    BY <1>0, <1>12, <2>2 DEF Abandon, Shapes
  <2>4. \E p, x : NewCall(p, x)
    BY <1>12, RestShape DEF Abandon
  <2> QED
    BY <1>0, <1>12, <2>3, <2>4, NoRowTyped DEF Abandon, Shapes
<1> QED
  BY <1>2, <1>3, <1>4, <1>5, <1>6, <1>7, <1>8, <1>9, <1>10, <1>11, <1>12

\* Every step keeps the types and the rows.
LEMMA NextTyped ==
  ASSUME Typed, ConnectionsAssumption, [ConnectionsNext]_connectionVars
  PROVE  Typed' /\ RowsStay
<1>1. CASE UNCHANGED connectionVars
  BY <1>1, NoRowTyped DEF connectionVars, providerVars, Typed, Shapes
<1>2. CASE ConnectionsNext
  BY <1>2, ManagersTyped, GatewayTyped DEF ConnectionsNext
<1> QED
  BY <1>1, <1>2

(***************************************************************************)
(* Rows, grants, consents and requests in flight keep their shape; what a  *)
(* request looked up exists, and active rows have a credential.            *)
(***************************************************************************)
THEOREM TypesCorrect == ConnectionsSpec => []Typed
<1>1. Typed /\ [ConnectionsNext]_connectionVars => Typed'
  BY NextTyped, ConnectionsAssumption
<1> QED
  BY <1>1, InitTyped, PTL DEF ConnectionsSpec

-----------------------------------------------------------------------------
(* Ended connections stay ended *)

\* As replace_credential stands, not even a reconnect does.
StayEnded ==
  \A c \in Connection : Exists(c) =>
    /\ ~Active(c) => conn'[c].status # "active"
    /\ conn[c].cred = Erased => conn'[c].cred = Erased

\* The three writers of rows, and everybody else.
LEMMA WritersOfRows ==
  ASSUME Typed, [ConnectionsNext]_connectionVars
  PROVE  \/ conn' = conn
         \/ \E c \in Connection :
              /\ Exists(c)
              /\ \/ \E status \in ConnectionStatus \ {"active"} : mark_status(c, status)
                 \/ \E cred \in Credential \ {Erased} : replace_credential(c, cred)
         \/ \E c \in Connection, a \in Actor, scope \in Scope,
               cred \in Credential \ {Erased} :
              ~Exists(c) /\ create(c, a, scope, cred)
<1>0. Shapes /\ Found /\ Claimed
  BY DEF Typed
<1> DEFINE Goal ==
         \/ conn' = conn
         \/ \E c \in Connection :
              /\ Exists(c)
              /\ \/ \E status \in ConnectionStatus \ {"active"} : mark_status(c, status)
                 \/ \E cred \in Credential \ {Erased} : replace_credential(c, cred)
         \/ \E c \in Connection, a \in Actor, scope \in Scope,
               cred \in Credential \ {Erased} :
              ~Exists(c) /\ create(c, a, scope, cred)
<1>1. Manual \in Credential \ {Erased}
  BY DEF Credential, Manual, Erased
<1>2. \A a \in Actor : create_integration_connection(a) => Goal
  BY <1>1 DEF create_integration_connection, Unclaimed
<1>3. \A a \in Actor : finish_integration_oauth(a) => Goal
  <2> SUFFICES ASSUME NEW a \in Actor, finish_integration_oauth(a) PROVE Goal
    OBVIOUS
  <2>1. PICK s \in consent, renewable \in BOOLEAN :
          create(s.row, a, s.scope, Exchange(s.row, renewable))
    BY DEF finish_integration_oauth
  <2>2. s.row \in Connection /\ s.scope \in Scope /\ ~Exists(s.row)
    BY <1>0 DEF Shapes, ConsentRow, Claimed
  <2>3. Exchange(s.row, renewable) \in Credential \ {Erased}
    BY DEF Exchange, OAuth, NoToken, Credential, Material, Erased
  <2> QED
    BY <2>1, <2>2, <2>3
<1>4. \A q \in Call : Disable(q) \/ Revoke(q) \/ Reconnect(q) => Goal
  <2> SUFFICES ASSUME NEW q \in Call, Disable(q) \/ Revoke(q) \/ Reconnect(q) PROVE Goal
    OBVIOUS
  <2>1. call[q] \in Looking
    BY <1>0, StepShapes DEF Disable, Revoke, Reconnect, At
  <2>2. call[q].conn \in Connection /\ Exists(call[q].conn)
    BY <1>0, <2>1 DEF Looking, Found, FoundBy
  <2>3. CASE Reconnect(q)
    BY <1>1, <2>2, <2>3 DEF Reconnect
  <2>4. CASE Disable(q) \/ Revoke(q)
    <3>1. \E status \in ConnectionStatus \ {"active"} : mark_status(call[q].conn, status)
      BY <2>4 DEF Disable, Revoke, ConnectionStatus
    <3> QED
      BY <2>2, <3>1
  <2> QED
    BY <2>3, <2>4
<1>5. \A q \in Call : Mark(q) \/ StoreRefreshed(q) => Goal
  <2> SUFFICES ASSUME NEW q \in Call, Mark(q) \/ StoreRefreshed(q) PROVE Goal
    OBVIOUS
  <2>1. call[q] \in Composing
    BY <1>0, StepShapes DEF Mark, StoreRefreshed, At
  <2>2. \A e \in call[q].entry :
          e.conn \in Connection /\ Exists(e.conn) /\ e.cred \in Credential \ {Erased}
    BY <1>0, <2>1 DEF Composing, Entry, Found, FoundBy
  <2>3. CASE Mark(q)
    <3>1. PICK e \in call[q].entry :
            mark_status(e.conn, "error") \/ mark_status(e.conn, "expired")
      BY <2>3 DEF Mark
    <3>2. \E status \in ConnectionStatus \ {"active"} : mark_status(e.conn, status)
      BY <3>1 DEF ConnectionStatus
    <3> QED
      BY <2>2, <3>2
  <2>4. CASE StoreRefreshed(q)
    <3>1. PICK e \in call[q].entry : replace_credential(e.conn, e.cred)
      BY <2>4 DEF StoreRefreshed
    <3> QED
      BY <2>2, <3>1
  <2> QED
    BY <2>3, <2>4
<1> HIDE DEF Goal
<1>6. UNCHANGED connectionVars => Goal
  BY DEF connectionVars, Goal
<1>7. conn' = conn => Goal
  BY DEF Goal
<1>8. ConnectionsNext => Goal
  BY <1>2, <1>3, <1>4, <1>5, <1>7
     DEF ConnectionsNext, start_integration_oauth, disable_integration_connection,
         revoke_integration_connection, reconnect_integration_connection,
         set_connection_grant, Look, verify_integration_connection, list_active,
         Compose, NotFound, SetGrant, ComposeOne, Refresh, RefreshRefused, call_tool,
         Respond, Abandon, TokensExpire, ConsentFails, ApiRestarts
<1>9. Goal
  BY <1>6, <1>8
<1> QED
  BY <1>9 DEF Goal

LEMMA NextEnded ==
  ASSUME Typed, [ConnectionsNext]_connectionVars
  PROVE  StayEnded
<1>0. Shapes
  BY DEF Typed
<1>1. CASE conn' = conn
  BY <1>1 DEF StayEnded, Active
<1>2. ASSUME NEW c \in Connection, Exists(c),
             NEW status \in ConnectionStatus \ {"active"}, mark_status(c, status)
      PROVE  StayEnded
  <2>1. /\ \A b \in Connection \ {c} : conn'[b] = conn[b]
        /\ conn'[c].status = status
        /\ conn'[c].cred = Erased \/ conn'[c].cred = conn[c].cred
    BY <1>0, <1>2, MarkShape
  <2> QED
    BY <2>1 DEF StayEnded, Active
<1>3. ASSUME NEW c \in Connection, Exists(c),
             NEW cred \in Credential \ {Erased}, replace_credential(c, cred)
      PROVE  StayEnded
  <2>1. /\ \A b \in Connection \ {c} : conn'[b] = conn[b]
        /\ ~Active(c) => conn'[c] = conn[c]
    BY <1>0, <1>3, ReplaceShape
  <2>2. Active(c) => conn[c].cred # Erased
    BY <1>3 DEF Typed, Found
  <2> QED
    BY <2>1, <2>2 DEF StayEnded, Active
<1>4. ASSUME NEW c \in Connection, NEW a \in Actor, NEW scope \in Scope,
             NEW cred \in Credential \ {Erased}, ~Exists(c), create(c, a, scope, cred)
      PROVE  StayEnded
  <2>1. \A b \in Connection \ {c} : conn'[b] = conn[b]
    BY <1>0, <1>4, CreateShape
  <2> QED
    BY <1>4, <2>1 DEF StayEnded, Active
<1> QED
  BY <1>1, <1>2, <1>3, <1>4, WritersOfRows

(***************************************************************************)
(* No run of requests, refreshes, failures and restarts but a manager's    *)
(* reconnect makes an ended connection active or brings erased material    *)
(* back (replace_credential, mark_status).                                 *)
(***************************************************************************)
THEOREM OthersStayEnded == ConnectionsSpec => OnlyReconnectReactivates
<1> DEFINE A == \A c \in Connection :
       Exists(c) /\ ~(\E q \in Call : Reconnect(q) /\ call[q].conn = c) =>
         /\ ~Active(c) => conn'[c].status # "active"
         /\ conn[c].cred = Erased => conn'[c].cred = Erased
<1>1. Typed /\ [ConnectionsNext]_connectionVars => [A]_connectionVars
  BY NextEnded DEF StayEnded
<1> QED
  BY <1>1, TypesCorrect, PTL DEF ConnectionsSpec, OnlyReconnectReactivates

-----------------------------------------------------------------------------
(* Calls are granted *)

\* There is a grant behind the permission a gateway carries.
Granting(c, a, tool) == \E g \in effective_grants(c, a) : g.key.tool = tool

\* What a request works through is visible to its actor, and granted.
BackedBy(x) ==
  /\ x \in Composing =>
       /\ \A e \in x.todo \cup x.entry \cup x.gateways : Visible(e.conn, x.actor)
       /\ \A e \in x.gateways : \A g \in e.grants : Granting(e.conn, x.actor, g[1])
  /\ x \in Calling =>
       /\ Visible(x.conn, x.actor)
       /\ \E tool \in {AnyTool, x.tool} : Granting(x.conn, x.actor, tool)

Backed == \A q \in Call : BackedBy(call[q])

\* Grants are replaced and never deleted.
GrantsStay == \A g \in grant : \E h \in grant' : h.key = g.key

LEMMA BackedByStays ==
  ASSUME Typed, RowsStay, GrantsStay, NEW x \in CallRow, FoundBy(x), BackedBy(x)
  PROVE  BackedBy(x)'
<1>1. \A c \in Connection : \A a : Visible(c, a) => Visible(c, a)'
  BY DEF RowsStay, Visible, Exists
<1>2. \A c, a, tool : Granting(c, a, tool) => Granting(c, a, tool)'
  BY DEF GrantsStay, Granting, effective_grants
<1>3. CASE x \in Composing
  <2>1. \A e \in x.todo \cup x.entry \cup x.gateways : e.conn \in Connection
    BY <1>3 DEF Composing, Entry, Filtered
  <2>2. x \notin Calling
    BY <1>3 DEF Composing, Calling
  <2> QED
    BY <1>1, <1>2, <1>3, <2>1, <2>2 DEF BackedBy
<1>4. CASE x \in Calling
  <2>1. x.conn \in Connection /\ x \notin Composing
    BY <1>4 DEF Composing, Calling
  <2> QED
    BY <1>1, <1>2, <1>4, <2>1 DEF BackedBy
<1>5. CASE x \notin Composing \cup Calling
  BY <1>5 DEF BackedBy
<1> QED
  BY <1>3, <1>4, <1>5

\* A request whose composition goes on with what it had, or with less.
LEMMA BackedByLess ==
  ASSUME NEW x, NEW y, x \in Composing, BackedBy(x), y \in Composing,
         y.actor = x.actor, y.todo \subseteq x.todo, y.gateways = x.gateways,
         \A e \in y.entry : \E d \in x.entry : e.conn = d.conn
  PROVE  BackedBy(y)
<1>1. y \notin Calling
  BY DEF Composing, Calling
<1> QED
  BY <1>1 DEF BackedBy

\* A request that does not compose and does not call needs no backing.
LEMMA BackedByNothing ==
  /\ BackedBy(Resting)
  /\ \A x \in Looking : BackedBy(x)
BY DEF BackedBy, Resting, Looking, Composing, Calling

\* Only set_connection_grant writes grants, and it keeps every key.
LEMMA NextGrants ==
  ASSUME [ConnectionsNext]_connectionVars
  PROVE  GrantsStay
<1>1. CASE UNCHANGED grant
  BY <1>1 DEF GrantsStay
<1>2. \A c, subject, tool, permission :
        upsert_grant(c, subject, tool, permission) => GrantsStay
  <2> SUFFICES ASSUME NEW c, NEW subject, NEW tool, NEW permission,
                      upsert_grant(c, subject, tool, permission)
               PROVE  GrantsStay
    OBVIOUS
  <2> DEFINE key == [conn |-> c, subject |-> subject, tool |-> tool]
             new == [key |-> key, permission |-> permission]
  <2>1. grant' = {g \in grant : g.key # key} \cup {new}
    BY DEF upsert_grant
  <2>2. new.key = key
    OBVIOUS
  <2> HIDE DEF key, new
  <2> QED
    BY <2>1, <2>2 DEF GrantsStay
<1> HIDE DEF GrantsStay
<1>3. \A q \in Call : SetGrant(q) => GrantsStay
  BY <1>2 DEF SetGrant
<1> QED
  BY <1>1, <1>3
     DEF ConnectionsNext, connectionVars, providerVars, create_integration_connection,
         start_integration_oauth, finish_integration_oauth,
         disable_integration_connection, revoke_integration_connection,
         reconnect_integration_connection, set_connection_grant, Look,
         verify_integration_connection, list_active, Compose, Disable, Revoke,
         Reconnect, NotFound, ComposeOne, Refresh, RefreshRefused, Mark,
         StoreRefreshed, call_tool, Respond, Abandon, TokensExpire, ConsentFails, ApiRestarts

\* What each step that changes a request leaves it with.
LEMMA CallsBacked ==
  ASSUME Typed, Backed, ConnectionsAssumption, ConnectionsNext
  PROVE  \/ call' = call
         \/ \E q \in Call, x \in CallRow : /\ FoundBy(x) /\ BackedBy(x)
                                         /\ call' = [call EXCEPT ![q] = x]
         \/ call' = [q \in Call |-> Resting]
<1>0. Shapes /\ Found
  BY DEF Typed
<1> DEFINE Next(x) == FoundBy(x) /\ BackedBy(x)
           Goal == \/ call' = call
                   \/ \E q \in Call, x \in CallRow :
                        Next(x) /\ call' = [call EXCEPT ![q] = x]
                   \/ call' = [q \in Call |-> Resting]
<1>1. ASSUME NEW q \in Call, Rest(q) PROVE Goal
  <2>1. FoundBy(Resting) /\ Resting \in CallRow
    BY DEF CallRow, FoundBy, Resting, Looking, Composing, Calling
  <2> QED
    BY <1>1, <2>1, BackedByNothing DEF Rest
<1>2. ASSUME NEW q \in Call, NEW a \in Actor,
             NEW op \in {"disable", "revoke", "reconnect", "grant"}, Look(q, a, op)
      PROVE  Goal
  <2>1. PICK c \in Connection :
          /\ Visible(c, a)
          /\ call' = [call EXCEPT ![q] = [step |-> op, actor |-> a, conn |-> c]]
    BY <1>2 DEF Look
  <2> DEFINE x == [step |-> op, actor |-> a, conn |-> c]
  <2>2. x \in Looking /\ x \notin Composing /\ Exists(x.conn)
    BY <2>1 DEF Looking, Composing, Visible
  <2>3. call' = [call EXCEPT ![q] = x]
    BY <2>1
  <2> HIDE DEF x
  <2>4. FoundBy(x) /\ x \in CallRow
    BY <2>2 DEF FoundBy, CallRow
  <2> QED
    BY <2>2, <2>3, <2>4, BackedByNothing
<1>3. ASSUME NEW q \in Call, NEW step, Goto(q, step), call[q] \in Composing,
             step \in {"composing", "mark expired", "mark error", "refresh", "store"}
      PROVE  Goal
  <2> DEFINE x == [call[q] EXCEPT !.step = step]
  <2>1. call' = [call EXCEPT ![q] = x]
    BY <1>3 DEF Goto
  <2>2. /\ x \in Composing /\ x.todo = call[q].todo /\ x.entry = call[q].entry
        /\ x.gateways = call[q].gateways /\ x.actor = call[q].actor
    BY <1>3 DEF Composing
  <2> HIDE DEF x
  <2>3. BackedBy(x)
    BY <1>3, <2>2, BackedByLess DEF Backed
  <2>4. FoundBy(x)
    <3>1. x \notin Looking \cup Calling
      BY <2>2 DEF Composing, Looking, Calling
    <3> QED
      BY <1>0, <1>3, <2>2, <3>1 DEF Found, FoundBy
  <2> QED
    BY <2>1, <2>2, <2>3, <2>4 DEF CallRow
<1>4. ASSUME NEW q \in Call, NEW a \in Actor, NEW verify \in BOOLEAN,
             NEW rows \in SUBSET Connection, Compose(q, a, verify, rows),
             \A c \in rows : Visible(c, a) /\ conn[c].cred # Erased
      PROVE  Goal
  <2> DEFINE todo == {[conn |-> c, cred |-> conn[c].cred] : c \in rows}
             x == [step |-> "composing", actor |-> a, verify |-> verify,
                   gateways |-> {}, entry |-> {}, todo |-> todo]
  <2>1. todo \subseteq Entry /\ \A e \in todo : Exists(e.conn) /\ Visible(e.conn, a)
    <3>1. \A c \in rows : conn[c].cred \in Credential /\ Exists(c)
      BY <1>0, <1>4, RowShape DEF Row, Visible
    <3> QED
      BY <1>4, <3>1 DEF Entry
  <2>2. call' = [call EXCEPT ![q] = x]
    BY <1>4 DEF Compose
  <2> HIDE DEF todo
  <2>3. /\ x \in Composing /\ x.todo = todo /\ x.entry = {} /\ x.gateways = {}
        /\ x.actor = a
    BY <2>1 DEF Composing
  <2> HIDE DEF x
  <2>4. x \notin Looking \cup Calling
    BY <2>3 DEF Composing, Looking, Calling
  <2>5. FoundBy(x) /\ BackedBy(x)
    BY <2>1, <2>3, <2>4 DEF FoundBy, BackedBy
  <2> QED
    BY <2>2, <2>3, <2>5 DEF CallRow
<1>5. ASSUME NEW q \in Call, NEW a \in Actor,
             verify_integration_connection(q, a) \/ list_active(q, a)
      PROVE  Goal
  <2>1. CASE verify_integration_connection(q, a)
    <3>1. PICK c \in Connection :
            Visible(c, a) /\ conn[c].cred # Erased /\ Compose(q, a, TRUE, {c})
      BY <2>1 DEF verify_integration_connection
    <3> DEFINE rows == {c}
    <3>2. rows \in SUBSET Connection /\ TRUE \in BOOLEAN
      OBVIOUS
    <3>3. \A b \in rows : Visible(b, a) /\ conn[b].cred # Erased
      BY <3>1
    <3>4. Compose(q, a, TRUE, rows)
      BY <3>1
    <3> HIDE DEF rows, Goal
    <3> QED
      BY <1>4, <3>2, <3>3, <3>4
  <2>2. CASE list_active(q, a)
    <3> DEFINE rows == {c \in Connection : Visible(c, a) /\ Active(c)}
    <3>1. Compose(q, a, FALSE, rows)
      BY <2>2 DEF list_active
    <3>2. \A c \in rows : Visible(c, a) /\ conn[c].cred # Erased
      BY <1>0 DEF Found, Visible
    <3>3. rows \in SUBSET Connection
      OBVIOUS
    <3> HIDE DEF rows, Goal
    <3> QED
      BY <1>4, <3>1, <3>2, <3>3
  <2> QED
    BY <1>5, <2>1, <2>2
<1>6. ASSUME NEW q \in Call, ComposeOne(q) PROVE Goal
  <2>1. PICK entry \in call[q].todo, x \in Composing : Composed(q, entry, x)
    BY <1>6, ComposeShape
  <2>2. /\ call[q] \in Composing /\ BackedBy(call[q]) /\ FoundBy(call[q])
        /\ entry.conn \in Connection
    BY <1>0, <1>6, <2>1, ComposeShape DEF Backed, Found, Composing, Entry
  <2>3. x \notin Looking \cup Calling /\ x \in Composing
    BY <2>1 DEF Composed, Composing, Looking, Calling
  <2>4. /\ Gateway(q, entry).conn = entry.conn
        /\ \A g \in Gateway(q, entry).grants : Granting(entry.conn, call[q].actor, g[1])
    BY DEF Gateway, Granting
  <2>5. FoundBy(x)
    BY <2>1, <2>2, <2>3, <2>4 DEF Composed, FoundBy
  <2>6. BackedBy(x)
    <3>1. \A e \in x.gateways : e \in call[q].gateways \/ e = Gateway(q, entry)
      BY <2>1 DEF Composed
    <3>2. \A e \in x.entry : e \in call[q].entry \/ e = entry
      BY <2>1 DEF Composed
    <3>3. x.actor = call[q].actor /\ x.todo \subseteq call[q].todo
      BY <2>1 DEF Composed
    <3>4. \A e \in x.todo \cup x.entry \cup x.gateways : Visible(e.conn, x.actor)
      BY <2>1, <2>2, <2>4, <3>1, <3>2, <3>3 DEF BackedBy
    <3>5. \A e \in x.gateways : \A g \in e.grants : Granting(e.conn, x.actor, g[1])
      BY <2>2, <2>4, <3>1, <3>3 DEF BackedBy
    <3> QED
      BY <2>3, <3>4, <3>5 DEF BackedBy
  <2> QED
    BY <2>1, <2>3, <2>5, <2>6 DEF Composed, CallRow
<1>7. ASSUME NEW q \in Call, Refresh(q) PROVE Goal
  <2>0. call[q] \in Composing /\ FoundBy(call[q]) /\ BackedBy(call[q])
    BY <1>0, <1>7, StepShapes DEF Refresh, At, Found, Backed
  <2>1. PICK entry \in call[q].entry, arrives \in BOOLEAN :
          IF arrives
          THEN call' = [call EXCEPT ![q].step = "store",
                       ![q].entry = {[conn |-> entry.conn,
                            cred |-> Renewed(entry.conn, entry.cred,
                                             issued[entry.conn] + 1)]}]
          ELSE Goto(q, "mark error")
    BY <1>7 DEF Refresh
  <2>2. /\ entry \in Entry /\ entry.conn \in Connection /\ entry.cred \in Material
        /\ issued[entry.conn] \in Nat /\ Exists(entry.conn)
    BY <1>0, <2>0 DEF Composing, Entry, FoundBy, Shapes
  <2> DEFINE new == [conn |-> entry.conn,
                     cred |-> Renewed(entry.conn, entry.cred, issued[entry.conn] + 1)]
             u == [call[q] EXCEPT !.step = "store"]
             x == [u EXCEPT !.entry = {new}]
  <2>3. CASE arrives
    <3>1. call' = [call EXCEPT ![q].step = "store", ![q].entry = {new}]
      BY <2>1, <2>3
    <3>2. new \in Entry /\ new.conn = entry.conn /\ new.cred \in Material
      BY <2>2 DEF Renewed, OAuth, Material, Entry, Credential, Erased
    <3> HIDE DEF new
    <3>3. call' = [call EXCEPT ![q] = x]
      BY <1>0, <3>1, Zenon DEF Shapes
    <3>4. /\ u \in Composing /\ u.todo = call[q].todo /\ u.gateways = call[q].gateways
          /\ u.actor = call[q].actor
      BY <2>0 DEF Composing
    <3> HIDE DEF u
    <3>5. /\ x \in Composing /\ x.todo = call[q].todo /\ x.entry = {new}
          /\ x.gateways = call[q].gateways /\ x.actor = call[q].actor
      BY <3>2, <3>4 DEF Composing
    <3> HIDE DEF x
    <3>6. x \notin Looking \cup Calling
      BY <3>5 DEF Composing, Looking, Calling
    <3>7. FoundBy(x)
      BY <2>0, <2>2, <3>2, <3>5, <3>6 DEF FoundBy
    <3>8. BackedBy(x)
      BY <2>0, <3>2, <3>5, BackedByLess
    <3> QED
      BY <3>3, <3>5, <3>7, <3>8 DEF CallRow
  <2>4. CASE ~arrives
    <3> HIDE DEF Goal
    <3> QED
      BY <1>3, <2>0, <2>1, <2>4
  <2> QED
    BY <2>3, <2>4
<1>8. ASSUME NEW q \in Call, StoreRefreshed(q) PROVE Goal
  <2>0. call[q] \in Composing /\ FoundBy(call[q]) /\ BackedBy(call[q])
    BY <1>0, <1>8, StepShapes DEF StoreRefreshed, At, Found, Backed
  <2>1. \/ call' = [call EXCEPT ![q].step = "composing", ![q].entry = {}]
        \/ Rest(q)
    BY <1>8 DEF StoreRefreshed
  <2> DEFINE u == [call[q] EXCEPT !.step = "composing"]
             x == [u EXCEPT !.entry = {}]
  <2>2. CASE call' = [call EXCEPT ![q].step = "composing", ![q].entry = {}]
    <3>1. call' = [call EXCEPT ![q] = x]
      BY <1>0, <2>2, Zenon DEF Shapes
    <3>2. /\ u \in Composing /\ u.todo = call[q].todo /\ u.gateways = call[q].gateways
          /\ u.actor = call[q].actor
      BY <2>0 DEF Composing
    <3> HIDE DEF u
    <3>3. /\ x \in Composing /\ x.todo = call[q].todo /\ x.entry = {}
          /\ x.gateways = call[q].gateways /\ x.actor = call[q].actor
      BY <3>2 DEF Composing
    <3> HIDE DEF x
    <3>4. x \notin Looking \cup Calling
      BY <3>3 DEF Composing, Looking, Calling
    <3>5. FoundBy(x)
      BY <2>0, <3>3, <3>4 DEF FoundBy
    <3>6. BackedBy(x)
      BY <2>0, <3>3, BackedByLess
    <3> QED
      BY <3>1, <3>3, <3>5, <3>6 DEF CallRow
  <2>3. CASE Rest(q)
    BY <1>1, <2>3
  <2> QED
    BY <2>1, <2>2, <2>3
<1>9. ASSUME NEW q \in Call, call_tool(q) PROVE Goal
  <2>0. call[q] \in Composing /\ FoundBy(call[q]) /\ BackedBy(call[q])
    BY <1>0, <1>9, StepShapes DEF call_tool, At, Found, Backed
  <2>1. PICK gateway \in call[q].gateways, tool \in Tool :
          /\ MayCall(gateway, tool)
          /\ call' = [call EXCEPT ![q] = [step |-> "calling", actor |-> call[q].actor,
                                       conn |-> gateway.conn, tool |-> tool]]
    BY <1>9 DEF call_tool
  <2> DEFINE x == [step |-> "calling", actor |-> call[q].actor,
                   conn |-> gateway.conn, tool |-> tool]
  <2>2. /\ x \in Calling /\ x.conn = gateway.conn /\ x.actor = call[q].actor
        /\ x.tool = tool /\ Exists(x.conn)
    BY <2>0, <2>1 DEF Calling, Composing, Filtered, FoundBy
  <2>3. call' = [call EXCEPT ![q] = x]
    BY <2>1
  <2>4. \E t \in {AnyTool, tool} : Granting(gateway.conn, call[q].actor, t)
    <3>1. PICK g \in gateway.grants : g[1] \in {AnyTool, tool}
      BY <2>1 DEF MayCall, Permissions
    <3> QED
      BY <2>0, <3>1 DEF BackedBy
  <2> HIDE DEF x
  <2>5. x \notin Looking \cup Composing
    BY <2>2 DEF Composing, Looking, Calling
  <2>6. FoundBy(x) /\ BackedBy(x)
    BY <2>0, <2>2, <2>4, <2>5 DEF FoundBy, BackedBy
  <2> QED
    BY <2>2, <2>3, <2>6 DEF CallRow
<1>10. ASSUME NEW q \in Call, Reconnect(q) PROVE Goal
  <2>1. Rest(q) \/ Goto(q, "not found")
    BY <1>10 DEF Reconnect
  <2>2. CASE Goto(q, "not found")
    <3> DEFINE x == [call[q] EXCEPT !.step = "not found"]
    <3>1. call[q] \in Looking /\ FoundBy(call[q])
      BY <1>0, <1>10, StepShapes DEF Reconnect, At, Found
    <3>2. x \in Looking /\ x.conn = call[q].conn /\ call' = [call EXCEPT ![q] = x]
      BY <2>2, <3>1 DEF Looking, Goto
    <3> HIDE DEF x
    <3>3. x \notin Composing
      BY <3>2 DEF Composing, Looking
    <3>4. FoundBy(x)
      BY <3>1, <3>2, <3>3 DEF FoundBy
    <3> QED
      BY <3>2, <3>4, BackedByNothing DEF CallRow
  <2> QED
    BY <1>1, <2>1, <2>2
<1>11. ASSUME NEW q \in Call, RefreshRefused(q) PROVE Goal
  <2>1. call[q] \in Composing
    BY <1>0, <1>11, StepShapes DEF RefreshRefused, At
  <2>2. Goto(q, "mark error") \/ Rest(q)
    BY <1>11 DEF RefreshRefused
  <2> HIDE DEF Goal
  <2> QED
    BY <1>1, <1>3, <2>1, <2>2
<1>12. call' = call => Goal
  OBVIOUS
<1>13. call' = [q \in Call |-> Resting] => Goal
  OBVIOUS
<1> HIDE DEF Goal
<1>14. Goal
  BY <1>1, <1>2, <1>5, <1>6, <1>7, <1>8, <1>9, <1>10, <1>11, <1>12, <1>13
     DEF ConnectionsNext, create_integration_connection, start_integration_oauth,
         finish_integration_oauth, disable_integration_connection,
         revoke_integration_connection, reconnect_integration_connection,
         set_connection_grant, Disable, Revoke, NotFound, SetGrant, Mark, Respond,
         Abandon, TokensExpire, ConsentFails, ApiRestarts
<1> QED
  BY <1>14 DEF Goal

LEMMA NextBacked ==
  ASSUME Typed, Backed, ConnectionsAssumption, [ConnectionsNext]_connectionVars
  PROVE  Backed'
<1>1. RowsStay /\ GrantsStay
  BY NextTyped, NextGrants
<1>2. call \in [Call -> CallRow] /\ \A q \in Call : FoundBy(call[q]) /\ BackedBy(call[q])
  BY DEF Typed, Shapes, Found, Backed
<1>3. Resting \in CallRow /\ FoundBy(Resting) /\ BackedBy(Resting)
  BY BackedByNothing DEF CallRow, FoundBy, Resting, Looking, Composing, Calling
<1>4. call' = call \/ ConnectionsNext
  BY DEF connectionVars
<1>5. ASSUME NEW p \in Call
      PROVE  \E z \in CallRow : z = call'[p] /\ FoundBy(z) /\ BackedBy(z)
  BY <1>2, <1>3, <1>4, CallsBacked
<1>6. ASSUME NEW p \in Call PROVE BackedBy(call[p])'
  <2>1. PICK z \in CallRow : z = call'[p] /\ FoundBy(z) /\ BackedBy(z)
    BY <1>5
  <2>2. BackedBy(z)'
    BY <1>1, <2>1, BackedByStays
  <2> QED
    BY <2>1, <2>2
<1> QED
  BY <1>6 DEF Backed

LEMMA BackedCalls == Typed /\ Backed => CallsAreGranted
<1> SUFFICES ASSUME Typed, Backed, NEW q \in Call, At(q, "calling")
             PROVE  /\ Visible(call[q].conn, call[q].actor)
                    /\ \E g \in effective_grants(call[q].conn, call[q].actor) :
                         g.key.tool \in {AnyTool, call[q].tool}
  BY DEF CallsAreGranted
<1>1. call[q] \in Calling
  BY StepShapes DEF Typed, At
<1>2. /\ Visible(call[q].conn, call[q].actor)
      /\ \E tool \in {AnyTool, call[q].tool} :
           Granting(call[q].conn, call[q].actor, tool)
  BY <1>1 DEF Backed, BackedBy
<1> QED
  BY <1>2 DEF Granting

(***************************************************************************)
(* Whatever is disabled, revoked, refreshed or granted while a request     *)
(* composes its gateways, the call it makes goes through a connection its  *)
(* actor may see and is granted that tool of (_composite,                  *)
(* GrantFilteredToolGateway).                                              *)
(***************************************************************************)
THEOREM CallsGranted == ConnectionsSpec => []CallsAreGranted
<1>1. ConnectionsInit => Backed
  BY BackedByNothing DEF ConnectionsInit, Backed
<1>2. Typed /\ Backed /\ [ConnectionsNext]_connectionVars => Backed'
  BY NextBacked, ConnectionsAssumption
<1> QED
  BY <1>1, <1>2, TypesCorrect, BackedCalls, PTL DEF ConnectionsSpec

-----------------------------------------------------------------------------
(* The stored token works *)

\* The credentials a request carries; the one it is refreshing; the one its
\* provider has just issued and that is not stored yet.
Carried(x) == IF x \in Composing THEN x.todo \cup x.entry ELSE {}
Chosen(x) == IF x \in Composing THEN x.entry ELSE {}
Fresh(x) == IF x \in Composing /\ x.step = "store" THEN x.entry ELSE {}

\* Tokens were issued before they are known; an older one is not the latest.
Known(c, m) == m \in Material => m.access \in 1..issued[c] /\ m.refresh \in 0..issued[c]
Older(c, m) == m \in Material => m.refresh < issued[c]

AllKnown ==
  /\ \A c \in Connection : Exists(c) => Known(c, conn[c].cred)
  /\ \A q \in Call : \A e \in Carried(call[q]) : Known(e.conn, e.cred)
  /\ \A q \in Call : \A d, e \in Chosen(call[q]) : d = e

\* What is not stored yet is the latest, and nobody else has it.
FreshIsAlone ==
  \A q \in Call : \A e \in Fresh(call[q]) : e.conn \in Rotating =>
    /\ e.cred.refresh = issued[e.conn]
    /\ Older(e.conn, conn[e.conn].cred)
    /\ \A p \in Call : \A d \in Carried(call[p]) : d.conn = e.conn =>
         Older(d.conn, d.cred) \/ (p = q /\ d = e)

\* The latest token is stored, about to be, or lost.
LatestKept ==
  \A c \in Rotating :
    (/\ Exists(c) /\ Active(c) /\ conn[c].cred \in Material
     /\ conn[c].cred.refresh # NoToken /\ c \notin lost)
    => \/ conn[c].cred.refresh = issued[c]
       \/ \E q \in Call : \E e \in Fresh(call[q]) : e.conn = c

Tokens == AllKnown /\ FreshIsAlone /\ LatestKept

\* Rows lose material and never become active with it.
QuietRows ==
  /\ \A c \in Connection : Exists(c)' =>
       /\ Exists(c) \/ conn'[c].cred \notin Material
       /\ Exists(c) => conn'[c].cred = conn[c].cred \/ conn'[c].cred \notin Material
       /\ Active(c)' /\ conn'[c].cred \in Material => Active(c)
  /\ \A c \in Connection : ~Exists(c)' => ~Exists(c)

\* A request that carries what it carried, or what is stored.
QuietCall(q, x) ==
  /\ call' = [call EXCEPT ![q] = x]
  /\ Fresh(call[q]) = {} /\ Fresh(x) = {}
  /\ \A e \in Carried(x) :
       \/ e \in Carried(call[q])
       \/ e.conn \in Connection /\ Exists(e.conn) /\ e.cred = conn[e.conn].cred
  /\ \A d, e \in Chosen(x) : d = e

\* Steps that do nothing to the tokens.
LEMMA QuietTokens ==
  ASSUME ConnectionsAssumption, Typed, Tokens, UNCHANGED <<issued, lost>>, QuietRows,
         call' = call \/ \E q \in Call, x \in CallRow : QuietCall(q, x)
  PROVE  Tokens'
<1>0. /\ AllKnown /\ FreshIsAlone /\ LatestKept
      /\ call \in [Call -> CallRow] /\ Rotating \subseteq Connection
  BY DEF Tokens, Typed, Shapes, ConnectionsAssumption
<1>1. ASSUME NEW p \in Call
      PROVE  /\ \A e \in Carried(call'[p]) :
                  \/ e \in Carried(call[p])
                  \/ e.conn \in Connection /\ Exists(e.conn) /\ e.cred = conn[e.conn].cred
             /\ \A d, e \in Chosen(call'[p]) : d = e
             /\ Fresh(call'[p]) = Fresh(call[p])
  BY <1>0 DEF QuietCall, AllKnown
<1>2. AllKnown'
  BY <1>0, <1>1 DEF AllKnown, Known, QuietRows
<1>3. FreshIsAlone'
  <2> SUFFICES ASSUME NEW q \in Call, NEW e \in Fresh(call[q]), e.conn \in Rotating
               PROVE  /\ e.cred.refresh = issued[e.conn]
                      /\ Older(e.conn, conn'[e.conn].cred)
                      /\ \A p \in Call : \A d \in Carried(call'[p]) : d.conn = e.conn =>
                           Older(d.conn, d.cred) \/ (p = q /\ d = e)
    BY <1>1 DEF FreshIsAlone, Older
  <2>1. /\ e.cred.refresh = issued[e.conn]
        /\ Older(e.conn, conn[e.conn].cred)
        /\ \A p \in Call : \A d \in Carried(call[p]) : d.conn = e.conn =>
             Older(d.conn, d.cred) \/ (p = q /\ d = e)
    BY <1>0 DEF FreshIsAlone
  <2>2. Exists(e.conn) /\ e.conn \in Connection
    BY <1>0 DEF Typed, Found, FoundBy, Fresh
  <2>3. Older(e.conn, conn'[e.conn].cred)
    BY <2>1, <2>2 DEF Older, QuietRows
  <2> QED
    BY <1>1, <2>1, <2>3
<1>4. LatestKept'
  BY <1>0, <1>1 DEF LatestKept, QuietRows
<1> QED
  BY <1>2, <1>3, <1>4 DEF Tokens

\* Resting and looking requests carry nothing.
LEMMA CarriesNothing ==
  \A x \in {Resting} \cup Looking \cup Calling :
    Carried(x) = {} /\ Chosen(x) = {} /\ Fresh(x) = {}
<1>1. Resting \notin Composing
  BY DEF Resting, Composing
<1>2. \A x \in Looking : x \notin Composing
  BY DEF Looking, Composing
<1>3. \A x \in Calling : x \notin Composing
  BY DEF Calling, Composing
<1> QED
  BY <1>1, <1>2, <1>3 DEF Carried, Chosen, Fresh

\* What writes no row is quiet about rows.
LEMMA SameRows == conn' = conn => QuietRows
BY DEF QuietRows, Exists, Active

\* Marks and credentials given by hand are quiet about rows.
LEMMA MarkedRows ==
  ASSUME Shapes, NEW c \in Connection, Exists(c),
         \/ \E status \in ConnectionStatus \ {"active"} : mark_status(c, status)
         \/ replace_credential(c, Manual)
  PROVE  QuietRows
<1>1. ASSUME NEW status \in ConnectionStatus \ {"active"}, mark_status(c, status)
      PROVE  QuietRows
  <2>1. /\ conn'[c].status = status /\ RowsStay
        /\ \A b \in Connection \ {c} : conn'[b] = conn[b]
        /\ conn'[c].cred = Erased \/ conn'[c].cred = conn[c].cred
    BY <1>1, MarkShape
  <2>2. Erased \notin Material
    BY DEF Erased, Material
  <2> QED
    BY <2>1, <2>2 DEF QuietRows, Exists, Active, RowsStay
<1>2. ASSUME replace_credential(c, Manual) PROVE QuietRows
  <2>1. Manual \in Credential /\ Manual \notin Material
    BY DEF Manual, Credential, Material
  <2>2. /\ RowsStay
        /\ \A b \in Connection \ {c} : conn'[b] = conn[b]
        /\ conn'[c].cred = Manual \/ conn'[c] = conn[c]
    BY <1>2, <2>1, ReplaceShape
  <2> QED
    BY <2>1, <2>2 DEF QuietRows, Exists, Active, RowsStay
<1> QED
  BY <1>1, <1>2

\* A request that comes to rest, or looks, is quiet unless it held a fresh token.
LEMMA RestingCall ==
  ASSUME NEW q \in Call, NEW x \in {Resting} \cup Looking \cup Calling,
         call' = [call EXCEPT ![q] = x], Fresh(call[q]) = {}
  PROVE  \E p \in Call, y \in CallRow : QuietCall(p, y)
<1>1. x \in CallRow
  BY DEF CallRow
<1>2. QuietCall(q, x)
  BY CarriesNothing DEF QuietCall
<1> QED
  BY <1>1, <1>2

\* The actions of managers but for the code exchange.
LEMMA ManagersQuiet ==
  ASSUME Typed, ConnectionsAssumption, Tokens,
         \/ \E a \in Actor : create_integration_connection(a) \/ start_integration_oauth(a)
         \/ \E q \in Call, a \in Actor :
              \/ disable_integration_connection(q, a)
              \/ revoke_integration_connection(q, a)
              \/ reconnect_integration_connection(q, a)
              \/ set_connection_grant(q, a)
         \/ \E q \in Call :
              Disable(q) \/ Revoke(q) \/ Reconnect(q) \/ NotFound(q) \/ SetGrant(q)
         \/ ConsentFails
  PROVE  Tokens'
<1>0. Shapes /\ Found /\ Claimed
  BY DEF Typed
<1>1. ASSUME NEW a \in Actor, create_integration_connection(a) PROVE Tokens'
  <2>1. PICK c \in Connection, scope \in Scope :
          Unclaimed(c) /\ create(c, a, scope, Manual)
    BY <1>1 DEF create_integration_connection
  <2>2. Manual \in Credential \ {Erased} /\ Manual \notin Material
    BY DEF Credential, Manual, Erased, Material
  <2>3. /\ RowsStay /\ conn'[c].cred = Manual
        /\ \A b \in Connection \ {c} : conn'[b] = conn[b]
    BY <1>0, <2>1, <2>2, CreateShape DEF Unclaimed
  <2>4. QuietRows
    BY <2>1, <2>2, <2>3 DEF QuietRows, Exists, Active, Unclaimed, RowsStay
  <2> QED
    BY <1>1, <2>4, QuietTokens DEF create_integration_connection, providerVars
<1>2. ASSUME NEW a \in Actor, start_integration_oauth(a) PROVE Tokens'
  BY <1>2, SameRows, QuietTokens DEF start_integration_oauth, providerVars
<1>3. ASSUME NEW q \in Call, NEW a \in Actor,
             NEW op \in {"disable", "revoke", "reconnect", "grant"}, Look(q, a, op)
      PROVE  Tokens'
  <2>1. PICK c \in Connection :
          call' = [call EXCEPT ![q] = [step |-> op, actor |-> a, conn |-> c]]
    BY <1>3 DEF Look
  <2>2. [step |-> op, actor |-> a, conn |-> c] \in Looking
    BY DEF Looking
  <2>3. Fresh(call[q]) = {}
    BY <1>3, CarriesNothing DEF Look
  <2>4. \E p \in Call, x \in CallRow : QuietCall(p, x)
    BY <2>1, <2>2, <2>3, RestingCall
  <2> QED
    BY <1>3, <2>4, SameRows, QuietTokens DEF Look, providerVars
<1>4. ASSUME NEW q \in Call,
             Disable(q) \/ Revoke(q) \/ Reconnect(q) \/ NotFound(q) \/ SetGrant(q)
      PROVE  Tokens'
  <2>1. call[q] \in Looking /\ Fresh(call[q]) = {}
    BY <1>0, <1>4, StepShapes, CarriesNothing
       DEF Disable, Revoke, Reconnect, NotFound, SetGrant, At
  <2>2. call[q].conn \in Connection /\ Exists(call[q].conn)
    BY <1>0, <2>1 DEF Looking, Found, FoundBy
  <2>3. \E p \in Call, x \in CallRow : QuietCall(p, x)
    <3>1. CASE Rest(q)
      BY <2>1, <3>1, RestingCall DEF Rest
    <3>2. CASE Goto(q, "not found")
      <4> DEFINE x == [call[q] EXCEPT !.step = "not found"]
      <4>1. x \in Looking /\ call' = [call EXCEPT ![q] = x]
        BY <2>1, <3>2 DEF Looking, Goto
      <4> HIDE DEF x
      <4> QED
        BY <2>1, <4>1, RestingCall
    <3> QED
      BY <1>4, <3>1, <3>2 DEF Disable, Revoke, Reconnect, NotFound, SetGrant
  <2>4. QuietRows
    <3>1. CASE NotFound(q) \/ SetGrant(q)
      BY <3>1, SameRows DEF NotFound, SetGrant
    <3>2. CASE Disable(q) \/ Revoke(q)
      <4>1. \E status \in ConnectionStatus \ {"active"} : mark_status(call[q].conn, status)
        BY <3>2 DEF Disable, Revoke, ConnectionStatus
      <4> QED
        BY <1>0, <2>2, <4>1, MarkedRows
    <3>3. CASE Reconnect(q)
      BY <1>0, <2>2, <3>3, MarkedRows DEF Reconnect
    <3> QED
      BY <1>4, <3>1, <3>2, <3>3
  <2>5. UNCHANGED <<issued, lost>>
    BY <1>4 DEF Disable, Revoke, Reconnect, NotFound, SetGrant, providerVars
  <2> QED
    BY <2>3, <2>4, <2>5, QuietTokens
<1>5. ASSUME ConsentFails PROVE Tokens'
  BY <1>5, SameRows, QuietTokens DEF ConsentFails, providerVars
<1> QED
  BY <1>1, <1>2, <1>3, <1>4, <1>5
     DEF disable_integration_connection, revoke_integration_connection,
         reconnect_integration_connection, set_connection_grant

\* The actions of the gateway that leave the tokens alone.
LEMMA GatewayQuiet ==
  ASSUME Typed, ConnectionsAssumption, Tokens,
         \/ \E q \in Call, a \in Actor :
              verify_integration_connection(q, a) \/ list_active(q, a)
         \/ \E q \in Call :
              \/ ComposeOne(q) \/ RefreshRefused(q) \/ Mark(q) \/ call_tool(q) \/ Respond(q)
         \/ \E c \in Connection : TokensExpire(c)
  PROVE  Tokens'
<1>0. Shapes /\ Found /\ AllKnown
  BY DEF Typed, Tokens
<1>1. ASSUME NEW q \in Call, NEW a \in Actor,
             verify_integration_connection(q, a) \/ list_active(q, a)
      PROVE  Tokens'
  <2>1. PICK verify \in BOOLEAN, rows \in SUBSET Connection :
          /\ Compose(q, a, verify, rows)
          /\ \A c \in rows : Exists(c) /\ conn[c].cred # Erased
    <3>1. CASE verify_integration_connection(q, a)
      <4>1. PICK c \in Connection :
              Visible(c, a) /\ conn[c].cred # Erased /\ Compose(q, a, TRUE, {c})
        BY <3>1 DEF verify_integration_connection
      <4> DEFINE rows == {c}
      <4>2. rows \in SUBSET Connection /\ TRUE \in BOOLEAN
        OBVIOUS
      <4>3. Compose(q, a, TRUE, rows) /\ \A b \in rows : Exists(b) /\ conn[b].cred # Erased
        BY <4>1 DEF Visible
      <4> HIDE DEF rows
      <4> QED
        BY <4>2, <4>3
    <3>2. CASE list_active(q, a)
      <4> DEFINE rows == {c \in Connection : Visible(c, a) /\ Active(c)}
      <4>1. Compose(q, a, FALSE, rows)
        BY <3>2 DEF list_active
      <4>2. \A c \in rows : Exists(c) /\ conn[c].cred # Erased
        BY <1>0 DEF Found, Visible
      <4>3. rows \in SUBSET Connection /\ FALSE \in BOOLEAN
        OBVIOUS
      <4> HIDE DEF rows
      <4> QED
        BY <4>1, <4>2, <4>3
    <3> QED
      BY <1>1, <3>1, <3>2
  <2> DEFINE todo == {[conn |-> c, cred |-> conn[c].cred] : c \in rows}
             x == [step |-> "composing", actor |-> a, verify |-> verify,
                   gateways |-> {}, entry |-> {}, todo |-> todo]
  <2>2. /\ todo \subseteq Entry
        /\ \A e \in todo : /\ e.conn \in Connection /\ Exists(e.conn)
                            /\ e.cred = conn[e.conn].cred
    <3>1. \A c \in rows : conn[c].cred \in Credential
      BY <1>0, <2>1, RowShape DEF Row
    <3> QED
      BY <2>1, <3>1 DEF Entry
  <2>3. call' = [call EXCEPT ![q] = x] /\ call[q] = Resting
    BY <2>1 DEF Compose
  <2> HIDE DEF todo
  <2>4. x \in Composing /\ x.todo = todo /\ x.entry = {} /\ x.step = "composing"
    BY <2>2 DEF Composing
  <2> HIDE DEF x
  <2>5. Carried(x) = todo /\ Chosen(x) = {} /\ Fresh(x) = {}
    BY <2>4 DEF Carried, Chosen, Fresh
  <2>6. QuietCall(q, x)
    BY <2>2, <2>3, <2>5, CarriesNothing DEF QuietCall
  <2>7. x \in CallRow
    BY <2>4 DEF CallRow
  <2> QED
    BY <2>1, <2>6, <2>7, SameRows, QuietTokens DEF Compose, providerVars
<1>2. ASSUME NEW q \in Call, ComposeOne(q) PROVE Tokens'
  <2>1. PICK entry \in call[q].todo, x \in Composing : Composed(q, entry, x)
    BY <1>2, ComposeShape
  <2>2. call[q] \in Composing /\ call[q].step = "composing"
    BY <1>2, ComposeShape DEF ComposeOne, At
  <2>3. /\ Carried(x) \subseteq Carried(call[q])
        /\ Chosen(x) = Chosen(call[q]) \/ Chosen(x) = {entry}
        /\ Fresh(x) = {} /\ Fresh(call[q]) = {}
    BY <2>1, <2>2 DEF Composed, Carried, Chosen, Fresh
  <2>4. QuietCall(q, x)
    BY <1>0, <2>1, <2>3 DEF QuietCall, Composed, AllKnown
  <2>5. x \in CallRow
    BY <2>1 DEF Composed, CallRow
  <2> QED
    BY <1>2, <2>4, <2>5, SameRows, QuietTokens DEF ComposeOne, providerVars
<1>3. ASSUME NEW q \in Call, RefreshRefused(q) PROVE Tokens'
  <2>1. call[q] \in Composing /\ call[q].step = "refresh"
    BY <1>0, <1>3, StepShapes DEF RefreshRefused, At
  <2>2. Fresh(call[q]) = {}
    BY <2>1 DEF Fresh
  <2>3. \E p \in Call, y \in CallRow : QuietCall(p, y)
    <3>1. CASE Rest(q)
      BY <2>2, <3>1, RestingCall DEF Rest
    <3>2. CASE Goto(q, "mark error")
      <4> DEFINE x == [call[q] EXCEPT !.step = "mark error"]
      <4>1. /\ x \in Composing /\ x.step = "mark error"
            /\ x.todo = call[q].todo /\ x.entry = call[q].entry
        BY <2>1 DEF Composing
      <4>2. call' = [call EXCEPT ![q] = x]
        BY <3>2 DEF Goto
      <4> HIDE DEF x
      <4>3. /\ Carried(x) = Carried(call[q]) /\ Chosen(x) = Chosen(call[q])
            /\ Fresh(x) = {}
        BY <2>1, <4>1 DEF Carried, Chosen, Fresh
      <4>4. QuietCall(q, x)
        BY <1>0, <2>2, <4>2, <4>3 DEF QuietCall, AllKnown
      <4> QED
        BY <4>1, <4>4 DEF CallRow
    <3> QED
      BY <1>3, <3>1, <3>2 DEF RefreshRefused
  <2> QED
    BY <1>3, <2>3, SameRows, QuietTokens DEF RefreshRefused, providerVars
<1>4. ASSUME NEW q \in Call, Mark(q) PROVE Tokens'
  <2>1. call[q] \in Composing /\ call[q].step # "store"
    BY <1>0, <1>4, StepShapes DEF Mark, At
  <2>2. PICK e \in call[q].entry :
          mark_status(e.conn, "error") \/ mark_status(e.conn, "expired")
    BY <1>4 DEF Mark
  <2>3. e.conn \in Connection /\ Exists(e.conn)
    BY <1>0, <2>1 DEF Composing, Entry, Found, FoundBy
  <2>4. \E status \in ConnectionStatus \ {"active"} : mark_status(e.conn, status)
    BY <2>2 DEF ConnectionStatus
  <2>5. QuietRows
    BY <1>0, <2>3, <2>4, MarkedRows
  <2>6. \E p \in Call, y \in CallRow : QuietCall(p, y)
    BY <1>4, <2>1, RestingCall DEF Mark, Rest, Fresh
  <2> QED
    BY <1>4, <2>5, <2>6, QuietTokens DEF Mark, providerVars
<1>5. ASSUME NEW q \in Call, call_tool(q) PROVE Tokens'
  <2>1. call[q] \in Composing /\ call[q].step = "composing"
    BY <1>0, <1>5, StepShapes DEF call_tool, At
  <2>2. PICK gateway \in call[q].gateways, tool \in Tool :
          call' = [call EXCEPT ![q] = [step |-> "calling", actor |-> call[q].actor,
                                       conn |-> gateway.conn, tool |-> tool]]
    BY <1>5 DEF call_tool
  <2> DEFINE x == [step |-> "calling", actor |-> call[q].actor,
                   conn |-> gateway.conn, tool |-> tool]
  <2>3. x \in Calling
    BY <2>1 DEF Calling, Composing, Filtered
  <2>4. call' = [call EXCEPT ![q] = x]
    BY <2>2
  <2> HIDE DEF x
  <2>5. Fresh(call[q]) = {}
    BY <2>1 DEF Fresh
  <2>6. \E p \in Call, y \in CallRow : QuietCall(p, y)
    BY <2>3, <2>4, <2>5, RestingCall
  <2> QED
    BY <1>5, <2>6, SameRows, QuietTokens DEF call_tool, providerVars
<1>6. ASSUME NEW q \in Call, Respond(q) PROVE Tokens'
  <2>1. Fresh(call[q]) = {}
    <3>1. call[q].step # "store"
      BY <1>6 DEF Respond, At
    <3> QED
      BY <3>1 DEF Fresh
  <2>2. \E p \in Call, y \in CallRow : QuietCall(p, y)
    BY <1>6, <2>1, RestingCall DEF Respond, Rest
  <2> QED
    BY <1>6, <2>2, SameRows, QuietTokens DEF Respond, providerVars
<1>7. ASSUME NEW c \in Connection, TokensExpire(c) PROVE Tokens'
  BY <1>7, SameRows, QuietTokens DEF TokensExpire
<1> QED
  BY <1>1, <1>2, <1>3, <1>4, <1>5, <1>6, <1>7

\* The code exchange numbers the first token of a new row.
LEMMA ExchangeTokens ==
  ASSUME Typed, ConnectionsAssumption, Tokens, NEW a \in Actor, finish_integration_oauth(a)
  PROVE  Tokens'
<1>0. /\ Shapes /\ Found /\ Claimed /\ AllKnown /\ FreshIsAlone /\ LatestKept
      /\ Rotating \subseteq Connection /\ issued \in [Connection -> Nat]
  BY DEF Typed, Tokens, Shapes, ConnectionsAssumption
<1>1. PICK s \in consent, renewable \in BOOLEAN :
        /\ create(s.row, a, s.scope, Exchange(s.row, renewable))
        /\ issued' = [issued EXCEPT ![s.row] = 1]
        /\ UNCHANGED <<call, lost>>
  BY DEF finish_integration_oauth
<1> DEFINE c == s.row
           cred == Exchange(s.row, renewable)
<1>2. c \in Connection /\ s.scope \in Scope /\ ~Exists(c)
  BY <1>0 DEF Shapes, ConsentRow, Claimed
<1>3. /\ cred \in Material /\ cred \in Credential \ {Erased}
      /\ cred.access = 1 /\ cred.refresh \in {0, 1}
  BY DEF Exchange, OAuth, NoToken, Credential, Material, Erased
<1>4. /\ \A b \in Connection \ {c} : conn'[b] = conn[b]
      /\ conn'[c].cred = cred
  BY <1>0, <1>1, <1>2, <1>3, CreateShape
<1> HIDE DEF c, cred
<1>5. \A q \in Call : \A e \in Carried(call[q]) : e.conn \in Connection /\ e.conn # c
  <2> SUFFICES ASSUME NEW q \in Call, NEW e \in Carried(call[q])
               PROVE  e.conn \in Connection /\ Exists(e.conn)
    BY <1>2
  <2>1. call[q] \in Composing /\ e \in call[q].todo \cup call[q].entry
    BY DEF Carried
  <2> QED
    BY <1>0, <2>1 DEF Found, FoundBy, Composing, Entry
<1>6. \A q \in Call : Fresh(call[q]) \subseteq Carried(call[q])
  BY DEF Fresh, Carried
<1>7. issued'[c] = 1 /\ \A b \in Connection \ {c} : issued'[b] = issued[b]
  BY <1>0, <1>1, <1>2 DEF c
<1>8. AllKnown'
  BY <1>0, <1>1, <1>2, <1>3, <1>4, <1>5, <1>7 DEF AllKnown, Known, Exists
<1>9. FreshIsAlone'
  BY <1>0, <1>1, <1>4, <1>5, <1>6, <1>7 DEF FreshIsAlone, Older
<1>10. LatestKept'
  BY <1>0, <1>1, <1>3, <1>4, <1>5, <1>6, <1>7 DEF LatestKept, Exists, Active, NoToken
<1> QED
  BY <1>8, <1>9, <1>10 DEF Tokens

\* What a request carries is of existing connections, and known.
LEMMA CarriedShape ==
  ASSUME Typed, Tokens, NEW q \in Call, NEW e \in Carried(call[q])
  PROVE  /\ e \in Entry /\ e.conn \in Connection /\ Exists(e.conn)
         /\ Known(e.conn, e.cred)
<1>1. call[q] \in Composing /\ e \in call[q].todo \cup call[q].entry
  BY DEF Carried
<1>2. e \in Entry /\ e.conn \in Connection
  BY <1>1 DEF Composing, Entry
<1> QED
  BY <1>1, <1>2 DEF Typed, Found, FoundBy, Tokens, AllKnown

\* A refresh: the token it brings is newer than all the others, and no other
\* request had the one it took.
LEMMA RefreshTokens ==
  ASSUME Typed, ConnectionsAssumption, Tokens, NEW q \in Call, Refresh(q)
  PROVE  Tokens'
<1>0. /\ Shapes /\ AllKnown /\ FreshIsAlone /\ LatestKept
      /\ Rotating \subseteq Connection /\ issued \in [Connection -> Nat]
      /\ call \in [Call -> CallRow]
  BY DEF Typed, Tokens, Shapes, ConnectionsAssumption
<1>1. call[q] \in Composing /\ call[q].step = "refresh"
  BY <1>0, StepShapes DEF Refresh, At
<1>2. PICK entry \in call[q].entry, arrives \in BOOLEAN :
        /\ Accepts(entry.conn, entry.cred.refresh)
        /\ issued' = [issued EXCEPT ![entry.conn] = issued[entry.conn] + 1]
        /\ IF arrives
           THEN /\ call' = [call EXCEPT ![q].step = "store",
                     ![q].entry = {[conn |-> entry.conn,
                          cred |-> Renewed(entry.conn, entry.cred,
                                           issued[entry.conn] + 1)]}]
                /\ UNCHANGED lost
           ELSE Goto(q, "mark error") /\ lost' = lost \cup {entry.conn}
        /\ UNCHANGED conn
  BY DEF Refresh
<1> DEFINE c == entry.conn
           new == [conn |-> c, cred |-> Renewed(c, entry.cred, issued[c] + 1)]
           u == [call[q] EXCEPT !.step = "store"]
           x == [u EXCEPT !.entry = {new}]
           y == [call[q] EXCEPT !.step = "mark error"]
<1>3. /\ entry \in Carried(call[q]) /\ Chosen(call[q]) = {entry} /\ Fresh(call[q]) = {}
      /\ entry \in Entry /\ entry.cred \in Material /\ c \in Connection /\ Exists(c)
      /\ entry.cred.refresh \in 0..issued[c] /\ issued[c] \in Nat
  <2>1. entry \in Carried(call[q]) /\ Fresh(call[q]) = {}
    BY <1>1 DEF Carried, Fresh
  <2>2. Chosen(call[q]) = {entry}
    BY <1>0, <1>1 DEF Chosen, AllKnown
  <2>3. entry.cred \in Material
    BY <1>1 DEF Typed, Found, FoundBy
  <2> QED
    BY <1>0, <2>1, <2>2, <2>3, CarriedShape DEF Known
<1>4. issued' = [issued EXCEPT ![c] = issued[c] + 1] /\ conn' = conn
  BY <1>2
<1>5. /\ new.conn = c /\ new.cred \in Material /\ new \in Entry
      /\ new.cred.access = issued[c] + 1
      /\ new.cred.refresh \in 0..(issued[c] + 1)
      /\ c \in Rotating => new.cred.refresh = issued[c] + 1
  BY <1>3 DEF Renewed, OAuth, Material, Entry, Credential, Erased
<1>6. \/ call' = [call EXCEPT ![q] = x] /\ lost' = lost
      \/ call' = [call EXCEPT ![q] = y] /\ lost' = lost \cup {c}
  <2>1. CASE arrives
    <3>1. call' = [call EXCEPT ![q].step = "store", ![q].entry = {new}] /\ lost' = lost
      BY <1>2, <2>1
    <3> HIDE DEF new
    <3>2. call' = [call EXCEPT ![q] = x]
      BY <1>0, <3>1, Zenon
    <3> QED
      BY <3>1, <3>2
  <2>2. CASE ~arrives
    BY <1>2, <2>2 DEF Goto
  <2> QED
    BY <2>1, <2>2
<1> HIDE DEF new
<1>7. u \in Composing /\ u.todo = call[q].todo /\ u.step = "store"
  BY <1>1 DEF Composing
<1> HIDE DEF u
<1>8. x \in Composing /\ x.todo = call[q].todo /\ x.entry = {new} /\ x.step = "store"
  BY <1>5, <1>7 DEF Composing
<1>9. /\ y \in Composing /\ y.todo = call[q].todo /\ y.entry = call[q].entry
      /\ y.step = "mark error"
  BY <1>1 DEF Composing
<1> HIDE DEF x, y
<1>10. /\ Carried(x) \subseteq Carried(call[q]) \cup {new} /\ new \in Carried(x)
       /\ Chosen(x) = {new} /\ Fresh(x) = {new}
       /\ Carried(y) = Carried(call[q]) /\ Chosen(y) = Chosen(call[q]) /\ Fresh(y) = {}
  BY <1>1, <1>8, <1>9 DEF Carried, Chosen, Fresh
<1> HIDE DEF c
<1>11. issued'[c] = issued[c] + 1 /\ \A b \in Connection \ {c} : issued'[b] = issued[b]
  BY <1>0, <1>3, <1>4
\* The others carry nothing fresh of this connection.
<1>12. c \in Rotating => \A p \in Call : \A e \in Fresh(call[p]) : e.conn # c
  <2> SUFFICES ASSUME c \in Rotating, NEW p \in Call, NEW e \in Fresh(call[p]), e.conn = c
               PROVE  FALSE
    OBVIOUS
  <2>1. entry.cred.refresh = issued[c]
    BY <1>2 DEF Accepts, c
  <2>2. p # q /\ entry.conn = c
    BY <1>3 DEF c
  <2>3. Older(c, entry.cred)
    BY <1>0, <1>3, <2>2 DEF FreshIsAlone
  <2> QED
    BY <1>3, <2>1, <2>3 DEF Older
\* Whatever was carried or stored is older now.
<1>13. \A p \in Call : \A e \in Carried(call[p]) :
          /\ e.conn \in Connection /\ issued[e.conn] \in Nat
          /\ e.cred \in Material => /\ e.cred.access \in 1..issued[e.conn]
                                   /\ e.cred.refresh \in 0..issued[e.conn]
  BY <1>0, CarriedShape DEF Known
<1>14. \A b \in Connection : Exists(b) => Known(b, conn[b].cred)
  BY <1>0 DEF AllKnown
<1>15. ASSUME NEW p \in Call, NEW e \in Carried(call'[p])
       PROVE  e \in Carried(call[p]) \/ (p = q /\ e = new)
  BY <1>0, <1>6, <1>10
<1>16. ASSUME NEW p \in Call, NEW e \in Fresh(call'[p])
       PROVE  \/ e \in Fresh(call[p]) /\ p # q
              \/ p = q /\ e = new /\ call' = [call EXCEPT ![q] = x] /\ lost' = lost
  BY <1>0, <1>6, <1>10
<1>17. AllKnown'
  <2>1. \A b \in Connection : Exists(b)' => Known(b, conn[b].cred)'
    BY <1>0, <1>4, <1>11, <1>14 DEF Known, Exists
  <2>2. ASSUME NEW p \in Call, NEW e \in Carried(call'[p]) PROVE Known(e.conn, e.cred)'
    <3>1. CASE e \in Carried(call[p])
      BY <1>11, <1>13, <3>1 DEF Known
    <3>2. CASE e = new
      BY <1>3, <1>5, <1>11, <3>2 DEF Known
    <3> QED
      BY <1>15, <2>2, <3>1, <3>2
  <2>3. ASSUME NEW p \in Call, NEW d \in Chosen(call'[p]), NEW e \in Chosen(call'[p])
        PROVE  d = e
    BY <1>0, <1>6, <1>10 DEF AllKnown
  <2> QED
    BY <2>1, <2>2, <2>3 DEF AllKnown
<1>18. FreshIsAlone'
  <2> SUFFICES ASSUME NEW p \in Call, NEW e \in Fresh(call'[p]), e.conn \in Rotating
               PROVE  /\ e.cred.refresh = issued'[e.conn]
                      /\ Older(e.conn, conn[e.conn].cred)'
                      /\ \A r \in Call : \A d \in Carried(call'[r]) : d.conn = e.conn =>
                           Older(d.conn, d.cred)' \/ (r = p /\ d = e)
    BY <1>4 DEF FreshIsAlone
  <2>1. CASE e \in Fresh(call[p]) /\ p # q
    <3>1. e.conn \in Connection \ {c}
      BY <1>0, <1>12, <2>1
    <3>2. /\ e.cred.refresh = issued[e.conn]
          /\ Older(e.conn, conn[e.conn].cred)
          /\ \A r \in Call : \A d \in Carried(call[r]) : d.conn = e.conn =>
               Older(d.conn, d.cred) \/ (r = p /\ d = e)
      BY <1>0, <2>1 DEF FreshIsAlone
    <3> QED
      BY <1>4, <1>5, <1>11, <1>15, <3>1, <3>2 DEF Older
  <2>2. CASE p = q /\ e = new
    <3>1. e.cred.refresh = issued'[e.conn] /\ e.conn = c
      BY <1>5, <1>11, <2>2
    <3>2. Older(c, conn[c].cred)'
      BY <1>3, <1>4, <1>11, <1>14 DEF Older, Known
    <3>3. ASSUME NEW r \in Call, NEW d \in Carried(call'[r]), d.conn = c
          PROVE  Older(d.conn, d.cred)' \/ (r = p /\ d = e)
      BY <1>11, <1>13, <1>15, <2>2, <3>3 DEF Older
    <3> QED
      BY <3>1, <3>2, <3>3
  <2> QED
    BY <1>16, <2>1, <2>2
<1>19. LatestKept'
  <2> SUFFICES ASSUME NEW b \in Rotating, Exists(b), Active(b), conn[b].cred \in Material,
                      conn[b].cred.refresh # NoToken, b \notin lost'
               PROVE  \/ conn[b].cred.refresh = issued'[b]
                      \/ \E p \in Call : \E e \in Fresh(call'[p]) : e.conn = b
    BY <1>4 DEF LatestKept, Exists, Active
  <2>1. CASE b = c
    BY <1>0, <1>5, <1>6, <1>10, <2>1
  <2>2. CASE b # c
    <3>1. b \notin lost /\ b \in Connection /\ issued'[b] = issued[b]
      BY <1>0, <1>6, <1>11, <2>2
    <3>2. \/ conn[b].cred.refresh = issued[b]
          \/ \E p \in Call : \E e \in Fresh(call[p]) : e.conn = b
      BY <1>0, <3>1 DEF LatestKept
    <3>3. \A p \in Call : p # q => call'[p] = call[p]
      BY <1>0, <1>6
    <3> QED
      BY <1>3, <3>1, <3>2, <3>3
  <2> QED
    BY <2>1, <2>2
<1> QED
  BY <1>17, <1>18, <1>19 DEF Tokens

\* The fresh token is stored, if the row is still active.
LEMMA StoreTokens ==
  ASSUME Typed, ConnectionsAssumption, Tokens, NEW q \in Call, StoreRefreshed(q)
  PROVE  Tokens'
<1>0. /\ Shapes /\ Found /\ AllKnown /\ FreshIsAlone /\ LatestKept
      /\ Rotating \subseteq Connection /\ issued \in [Connection -> Nat]
      /\ call \in [Call -> CallRow]
  BY DEF Typed, Tokens, Shapes, ConnectionsAssumption
<1>1. call[q] \in Composing /\ call[q].step = "store"
  BY <1>0, StepShapes DEF StoreRefreshed, At
<1>2. PICK e \in call[q].entry :
        /\ replace_credential(e.conn, e.cred)
        /\ IF Replaceable(e.conn)
           THEN call' = [call EXCEPT ![q].step = "composing", ![q].entry = {}]
           ELSE Rest(q)
  BY DEF StoreRefreshed
<1> DEFINE c == e.conn
           u == [call[q] EXCEPT !.step = "composing"]
           x == [u EXCEPT !.entry = {}]
<1>3. /\ e \in Carried(call[q]) /\ Chosen(call[q]) = {e} /\ Fresh(call[q]) = {e}
      /\ c \in Connection /\ Exists(c) /\ Known(c, e.cred)
      /\ e.cred \in Credential \ {Erased} /\ e.cred \in Material
  <2>1. e \in Carried(call[q]) /\ Fresh(call[q]) = call[q].entry
    BY <1>1, <1>2 DEF Carried, Fresh
  <2>2. call[q].entry = {e} /\ Chosen(call[q]) = {e}
    BY <1>0, <1>1, <1>2 DEF Chosen, AllKnown
  <2>3. e \in Entry /\ c \in Connection /\ Exists(c) /\ Known(c, e.cred)
    BY <2>1, CarriedShape
  <2>4. e.cred \in Material
    BY <1>0, <1>1, <1>2 DEF Found, FoundBy
  <2> QED
    BY <2>1, <2>2, <2>3, <2>4 DEF Entry
<1>4. /\ RowsStay /\ \A b \in Connection \ {c} : conn'[b] = conn[b]
      /\ IF Active(c) THEN conn'[c].status = "active" /\ conn'[c].cred = e.cred
         ELSE conn'[c] = conn[c]
  BY <1>0, <1>2, <1>3, ReplaceShape
<1>5. UNCHANGED <<issued, lost>>
  BY DEF StoreRefreshed, providerVars
<1>6. \E z \in CallRow :
        /\ call' = [call EXCEPT ![q] = z]
        /\ Carried(z) \subseteq Carried(call[q]) /\ Chosen(z) = {} /\ Fresh(z) = {}
  <2>1. CASE Replaceable(e.conn)
    <3>1. call' = [call EXCEPT ![q] = x]
      BY <1>0, <1>2, <2>1, Zenon
    <3>2. u \in Composing /\ u.todo = call[q].todo /\ u.step = "composing"
      BY <1>1 DEF Composing
    <3> HIDE DEF u
    <3>3. x \in Composing /\ x.todo = call[q].todo /\ x.entry = {} /\ x.step = "composing"
      BY <3>2 DEF Composing
    <3> HIDE DEF x
    <3>4. Carried(x) \subseteq Carried(call[q]) /\ Chosen(x) = {} /\ Fresh(x) = {}
      BY <1>1, <3>3 DEF Carried, Chosen, Fresh
    <3> QED
      BY <3>1, <3>3, <3>4 DEF CallRow
  <2>2. CASE ~Replaceable(e.conn)
    BY <1>2, <2>2, CarriesNothing DEF Rest, CallRow
  <2> QED
    BY <2>1, <2>2
<1>7. PICK z \in CallRow :
        /\ call' = [call EXCEPT ![q] = z]
        /\ Carried(z) \subseteq Carried(call[q]) /\ Chosen(z) = {} /\ Fresh(z) = {}
  BY <1>6
<1> HIDE DEF c, u, x
<1>8. \A p \in Call : Carried(call'[p]) \subseteq Carried(call[p])
  BY <1>0, <1>7
<1>9. \A p \in Call : \A d \in Fresh(call'[p]) : d \in Fresh(call[p]) /\ p # q
  BY <1>0, <1>7
\* Nobody else holds a fresh token of this connection.
<1>10. c \in Rotating =>
         /\ e.cred.refresh = issued[c]
         /\ \A p \in Call : \A d \in Fresh(call[p]) : p # q => d.conn # c
  <2> SUFFICES ASSUME c \in Rotating
               PROVE  /\ e.cred.refresh = issued[c]
                      /\ \A p \in Call : \A d \in Fresh(call[p]) : p # q => d.conn # c
    OBVIOUS
  <2>1. e.cred.refresh = issued[c] /\ issued[c] \in Nat
    BY <1>0, <1>3 DEF FreshIsAlone, c
  <2>2. ASSUME NEW p \in Call, NEW d \in Fresh(call[p]), p # q, d.conn = c
        PROVE  FALSE
    <3>1. Older(e.conn, e.cred)
      BY <1>0, <1>3, <2>2 DEF FreshIsAlone, c
    <3> QED
      BY <1>3, <2>1, <3>1 DEF Older, c
  <2> QED
    BY <2>1, <2>2
<1>11. AllKnown'
  <2>1. \A b \in Connection : Exists(b)' => Known(b, conn[b].cred)'
    BY <1>0, <1>3, <1>4, <1>5 DEF AllKnown, Known, Exists
  <2>2. \A p \in Call : \A d \in Carried(call'[p]) : Known(d.conn, d.cred)'
    BY <1>0, <1>5, <1>8 DEF AllKnown, Known
  <2>3. \A p \in Call : \A d, f \in Chosen(call'[p]) : d = f
    BY <1>0, <1>7 DEF AllKnown
  <2> QED
    BY <2>1, <2>2, <2>3 DEF AllKnown
<1>12. FreshIsAlone'
  <2> SUFFICES ASSUME NEW p \in Call, NEW d \in Fresh(call'[p]), d.conn \in Rotating
               PROVE  /\ d.cred.refresh = issued'[d.conn]
                      /\ Older(d.conn, conn[d.conn].cred)'
                      /\ \A r \in Call : \A f \in Carried(call'[r]) : f.conn = d.conn =>
                           Older(f.conn, f.cred)' \/ (r = p /\ f = d)
    BY DEF FreshIsAlone
  <2>1. /\ d.cred.refresh = issued[d.conn]
        /\ Older(d.conn, conn[d.conn].cred)
        /\ \A r \in Call : \A f \in Carried(call[r]) : f.conn = d.conn =>
             Older(f.conn, f.cred) \/ (r = p /\ f = d)
    BY <1>0, <1>9 DEF FreshIsAlone
  <2>2. conn'[d.conn] = conn[d.conn]
    BY <1>0, <1>4, <1>9, <1>10
  <2> QED
    BY <1>5, <1>8, <2>1, <2>2 DEF Older
<1>13. LatestKept'
  <2> SUFFICES ASSUME NEW b \in Rotating, Exists(b)', Active(b)', conn'[b].cred \in Material,
                      conn'[b].cred.refresh # NoToken, b \notin lost
               PROVE  \/ conn'[b].cred.refresh = issued[b]
                      \/ \E p \in Call : \E d \in Fresh(call'[p]) : d.conn = b
    BY <1>5 DEF LatestKept
  <2>1. CASE b = c
    BY <1>4, <1>10, <2>1 DEF Active
  <2>2. CASE b # c
    <3>1. conn'[b] = conn[b] /\ b \in Connection
      BY <1>0, <1>4, <2>2
    <3>2. \/ conn[b].cred.refresh = issued[b]
          \/ \E p \in Call : \E d \in Fresh(call[p]) : d.conn = b
      BY <1>0, <3>1 DEF LatestKept, Exists, Active
    <3>3. \A p \in Call : p # q => call'[p] = call[p]
      BY <1>0, <1>7
    <3>4. \A d \in Fresh(call[q]) : d.conn = c
      BY <1>3 DEF c
    <3> QED
      BY <2>2, <3>1, <3>2, <3>3, <3>4
  <2> QED
    BY <2>1, <2>2
<1> QED
  BY <1>11, <1>12, <1>13 DEF Tokens

\* A restart loses what was fresh.
LEMMA RestartTokens ==
  ASSUME Typed, Tokens, ApiRestarts
  PROVE  Tokens'
<1>0. Shapes /\ AllKnown /\ LatestKept
  BY DEF Typed, Tokens
<1>1. /\ lost' = lost \cup {e.conn : e \in UNION {call[q].entry : q \in {x \in Call : Unstored(x)}}}
      /\ call' = [q \in Call |-> Resting] /\ UNCHANGED <<conn, issued>>
  BY DEF ApiRestarts
<1>2. \A q \in Call : Carried(call'[q]) = {} /\ Chosen(call'[q]) = {} /\ Fresh(call'[q]) = {}
  BY <1>1, CarriesNothing
<1>3. \A q \in Call : \A e \in Fresh(call[q]) : e.conn \in lost'
  <2> SUFFICES ASSUME NEW q \in Call, NEW e \in Fresh(call[q]) PROVE e.conn \in lost'
    OBVIOUS
  <2>1. Unstored(q) /\ e \in call[q].entry
    BY DEF Fresh, Unstored, At
  <2> QED
    BY <1>1, <2>1
<1>4. AllKnown'
  BY <1>0, <1>1, <1>2 DEF AllKnown, Known, Exists
<1>5. FreshIsAlone'
  BY <1>2 DEF FreshIsAlone
<1>6. LatestKept'
  BY <1>0, <1>1, <1>3 DEF LatestKept, Exists, Active
<1> QED
  BY <1>4, <1>5, <1>6 DEF Tokens

\* So does a request that gives up.
LEMMA AbandonTokens ==
  ASSUME Typed, ConnectionsAssumption, Tokens, NEW q \in Call, Abandon(q)
  PROVE  Tokens'
<1>0. /\ Shapes /\ AllKnown /\ FreshIsAlone /\ LatestKept
      /\ call \in [Call -> CallRow]
  BY DEF Typed, Tokens, Shapes
<1>1. /\ call' = [call EXCEPT ![q] = Resting] /\ UNCHANGED <<conn, issued>>
      /\ lost \subseteq lost'
  BY DEF Abandon, Rest
<1>2. \A p \in Call : call'[p] = call[p] \/ (p = q /\ call'[p] = Resting)
  BY <1>0, <1>1
<1>3. Carried(Resting) = {} /\ Chosen(Resting) = {} /\ Fresh(Resting) = {}
  BY CarriesNothing
<1>4. \A p \in Call : /\ Carried(call'[p]) \subseteq Carried(call[p])
                      /\ Chosen(call'[p]) \subseteq Chosen(call[p])
                      /\ Fresh(call'[p]) \subseteq Fresh(call[p])
                      /\ p # q => Fresh(call'[p]) = Fresh(call[p])
  BY <1>2, <1>3
<1>5. \A e \in Fresh(call[q]) : e.conn \in lost'
  <2> SUFFICES ASSUME NEW e \in Fresh(call[q]) PROVE e.conn \in lost'
    OBVIOUS
  <2>1. Unstored(q) /\ e \in call[q].entry
    BY DEF Fresh, Unstored, At
  <2> QED
    BY <2>1 DEF Abandon
<1>6. AllKnown'
  BY <1>0, <1>1, <1>4 DEF AllKnown, Known, Exists
<1>7. FreshIsAlone'
  <2> SUFFICES ASSUME NEW p \in Call, NEW e \in Fresh(call'[p]), e.conn \in Rotating
               PROVE  /\ e.cred.refresh = issued[e.conn]
                      /\ Older(e.conn, conn[e.conn].cred)
                      /\ \A x \in Call : \A d \in Carried(call'[x]) : d.conn = e.conn =>
                           Older(d.conn, d.cred) \/ (x = p /\ d = e)
    BY <1>1 DEF FreshIsAlone, Older
  <2>1. e \in Fresh(call[p])
    BY <1>4
  <2>2. /\ e.cred.refresh = issued[e.conn]
        /\ Older(e.conn, conn[e.conn].cred)
        /\ \A x \in Call : \A d \in Carried(call[x]) : d.conn = e.conn =>
             Older(d.conn, d.cred) \/ (x = p /\ d = e)
    BY <1>0, <2>1 DEF FreshIsAlone
  <2> QED
    BY <1>4, <2>2
<1>8. LatestKept'
  BY <1>0, <1>1, <1>4, <1>5 DEF LatestKept, Exists, Active
<1> QED
  BY <1>6, <1>7, <1>8 DEF Tokens

LEMMA NextTokens ==
  ASSUME Typed, ConnectionsAssumption, Tokens, [ConnectionsNext]_connectionVars
  PROVE  Tokens'
<1>1. CASE UNCHANGED connectionVars
  BY <1>1, SameRows, QuietTokens DEF connectionVars, providerVars
<1>2. CASE ConnectionsNext
  BY <1>2, ManagersQuiet, GatewayQuiet, ExchangeTokens, RefreshTokens, StoreTokens,
     RestartTokens, AbandonTokens DEF ConnectionsNext
<1> QED
  BY <1>1, <1>2

LEMMA TokensWork ==
  ASSUME Typed, ConnectionsAssumption, Tokens
  PROVE  StoredTokenWorks
<1> SUFFICES ASSUME NEW c \in Connection, Exists(c), Active(c), conn[c].cred.kind = "oauth",
                    conn[c].cred.refresh # NoToken, c \notin lost
             PROVE  \/ Accepts(c, conn[c].cred.refresh)
                    \/ \E q \in Call : Unstored(q) /\ \E e \in call[q].entry :
                         e.conn = c /\ Accepts(c, e.cred.refresh)
  BY DEF StoredTokenWorks
<1>1. CASE c \notin Rotating
  BY <1>1 DEF Accepts
<1>2. CASE c \in Rotating
  <2>1. conn[c].cred \in Material
    <3>1. conn[c].cred \in Credential
      BY RowShape DEF Typed, Row
    <3>2. Erased.kind # "oauth" /\ Manual.kind # "oauth"
      BY DEF Erased, Manual
    <3> QED
      BY <3>1, <3>2 DEF Credential
  <2>2. \/ conn[c].cred.refresh = issued[c]
        \/ \E q \in Call : \E e \in Fresh(call[q]) : e.conn = c
    BY <1>2, <2>1 DEF Tokens, LatestKept
  <2>3. ASSUME NEW q \in Call, NEW e \in Fresh(call[q]), e.conn = c
        PROVE  Unstored(q) /\ e \in call[q].entry /\ Accepts(c, e.cred.refresh)
    <3>1. Unstored(q) /\ e \in call[q].entry
      BY DEF Fresh, Unstored, At
    <3>2. e.cred.refresh = issued[c]
      BY <1>2, <2>3 DEF Tokens, FreshIsAlone
    <3> QED
      BY <3>1, <3>2 DEF Accepts
  <2> QED
    BY <2>2, <2>3 DEF Accepts
<1> QED
  BY <1>1, <1>2

(***************************************************************************)
(* However many requests refresh a connection at once, the stored refresh  *)
(* token of an active connection is one its provider takes, unless it was  *)
(* lost on its way or is about to be replaced (authorization_for,          *)
(* _refresh).                                                              *)
(***************************************************************************)
THEOREM StoredTokensWork == ConnectionsSpec => []StoredTokenWorks
<1>1. ConnectionsInit => Tokens
  <2> SUFFICES ASSUME ConnectionsInit PROVE Tokens
    OBVIOUS
  <2>1. \A q \in Call : Carried(call[q]) = {} /\ Chosen(call[q]) = {} /\ Fresh(call[q]) = {}
    BY CarriesNothing DEF ConnectionsInit
  <2>2. \A c \in Connection : ~Exists(c)
    BY DEF ConnectionsInit, Exists
  <2> QED
    BY <2>1, <2>2, ConnectionsAssumption
       DEF Tokens, AllKnown, FreshIsAlone, LatestKept, ConnectionsAssumption
<1>2. Typed /\ Tokens /\ [ConnectionsNext]_connectionVars => Tokens'
  BY NextTokens, ConnectionsAssumption
<1>3. Typed /\ Tokens => StoredTokenWorks
  BY TokensWork, ConnectionsAssumption
<1> QED
  BY <1>1, <1>2, <1>3, TypesCorrect, PTL DEF ConnectionsSpec

=============================================================================
