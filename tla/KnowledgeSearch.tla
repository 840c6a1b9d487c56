--------------------------- MODULE KnowledgeSearch ---------------------------
(***************************************************************************)
(* Reading knowledge: the statements of                                    *)
(* knowledge/infrastructure/repositories.py that search, list and preview  *)
(* documents for a user, and the search services around them               *)
(* (knowledge/infrastructure/search.py).  Every statement filters by the   *)
(* organization, and there is one.                                         *)
(*                                                                         *)
(* The writers of the rows are those of DocumentIngestion, one transaction *)
(* each; because a message may be delivered again at any time, the         *)
(* transitions of a worker are possible at any time too.  A document       *)
(* stands for its chunks: they are written, embedded and deleted together. *)
(*                                                                         *)
(* An operator whose name has the form X_Y is X with one plausible bug.    *)
(***************************************************************************)
EXTENDS Naturals, FiniteSets

CONSTANTS
  Document,    \* documents
  Owner,       \* the user who has uploaded each of them
  Level,       \* classification: the position of the level, from 1
  Purpose,     \* research or ignore
  Domain,      \* general or project
  Shared,      \* the documents uploaded for the whole organization
  Suspicious,  \* the documents whose text the content scanner quarantines
  Space,       \* embedding spaces, one per embedding model
  MaxRowChanges   \* bound: changes of the rows

ASSUME DocumentAssumption == Shared \cup Suspicious \subseteq Document

VARIABLES
  status,   \* knowledge_documents.status
  scope,    \* knowledge_documents.owner_scope
  acl,      \* whom the ACL snapshot of the chunks admits; "none" without chunks
  vectors,  \* the spaces in which the chunks have vectors
  space,    \* the space in which the bank embeds now
  changes   \* changes so far

rows == <<status, scope, acl, vectors>>
knowledgeVars == <<rows, space, changes>>

KnowledgeInit ==
  /\ status = [d \in Document |-> "ready"]
  /\ scope = [d \in Document |-> IF d \in Shared THEN "organization" ELSE "personal"]
  /\ acl = scope
  /\ space \in Space
  /\ vectors = [d \in Document |-> {space}]
  /\ changes = 0

Change == changes < MaxRowChanges /\ changes' = changes + 1

-----------------------------------------------------------------------------
(* Writers.                                                                *)

\* mark_processing and mark_failed leave the chunks of an earlier ingestion.
SetStatus(d, s) ==
  /\ Change
  /\ status' = [status EXCEPT ![d] = s]
  /\ UNCHANGED <<scope, acl, vectors, space>>

\* mark_ready: new chunks, without vectors yet.
MarkReady(d) ==
  /\ Change
  /\ status' = [status EXCEPT ![d] = "ready"]
  /\ acl' = [acl EXCEPT ![d] = scope[d]]
  /\ vectors' = [vectors EXCEPT ![d] = {}]
  /\ UNCHANGED <<scope, space>>

\* chunks_for_index and upsert_embeddings, in the space of now.
Index(d) ==
  /\ status[d] = "ready" /\ acl[d] # "none" /\ Purpose[d] # "ignore"
  /\ Change
  /\ vectors' = [vectors EXCEPT ![d] = @ \cup {space}]
  /\ UNCHANGED <<status, scope, acl, space>>

\* promote_document: the snapshot changes with the scope.
PromoteDocument_RowOnly(d) ==
  /\ status[d] # "revoked" /\ scope[d] = "personal"
  /\ Change
  /\ scope' = [scope EXCEPT ![d] = "organization"]
  /\ UNCHANGED <<status, acl, vectors, space>>
PromoteDocument(d) ==
  /\ status[d] # "revoked" /\ scope[d] = "personal"
  /\ Change
  /\ scope' = [scope EXCEPT ![d] = "organization"]
  /\ acl' = [acl EXCEPT ![d] = IF @ = "none" THEN @ ELSE "organization"]
  /\ UNCHANGED <<status, vectors, space>>

\* revoke_document: the versions go, and chunks, snapshots and vectors with
\* them.
RevokeDocument(d) ==
  /\ Change
  /\ status' = [status EXCEPT ![d] = "revoked"]
  /\ acl' = [acl EXCEPT ![d] = "none"]
  /\ vectors' = [vectors EXCEPT ![d] = {}]
  /\ UNCHANGED <<scope, space>>

\* An administrator enables another embedding model in place of this one.
SwitchSpace ==
  /\ Change
  /\ \E s \in Space \ {space} : space' = s
  /\ UNCHANGED rows

KnowledgeChanges ==
  \/ \E d \in Document :
       \/ \E s \in {"processing", "failed"} : SetStatus(d, s)
       \/ MarkReady(d) \/ Index(d) \/ PromoteDocument(d) \/ RevokeDocument(d)
  \/ SwitchSpace

-----------------------------------------------------------------------------
(* Readers.  A reader is [actor, clearance, ...]; the clearance is the     *)
(* position of its level, 0 for a word that is none.                       *)

\* _allowed_classifications.
Cleared(d, c) == Level[d] <= c.clearance

\* _document_scope.
DocumentScope(d, c) ==
  /\ Cleared(d, c)
  /\ scope[d] = "personal" => Owner[d] = c.actor

\* The WHERE clause that hybrid_search and preview share: the row and the
\* snapshot of its chunks.  The snapshot of a personal document names the
\* actor of the ingestion, who is the owner of the row.
Authorized(d, c) ==
  /\ status[d] = "ready" /\ acl[d] # "none" /\ Purpose[d] # "ignore"
  /\ Cleared(d, c)
  /\ IF scope[d] = "personal" THEN Owner[d] = c.actor ELSE acl[d] = "organization"

\* hybrid_search: every authorized chunk has a semantic rank in the space of
\* the query; the lexical rank only moves it.
HybridMatches_IndexOnly(c, s) == {d \in Document : s \in vectors[d]}
HybridMatches(c, s) == {d \in Document : Authorized(d, c) /\ s \in vectors[d]}

\* local_search: the elements of the rows, which are deleted by a revocation
\* only.  Whether the words of the query occur in them is left open.
LocalMatches(c) ==
  {d \in Document : status[d] = "ready" /\ Purpose[d] # "ignore" /\ DocumentScope(d, c)}

\* list_documents, which list_sources shows as evidence without content.
Listed(c) == {d \in Document : status[d] # "revoked" /\ DocumentScope(d, c)}

\* preview, which shows a chunk and its neighbours in a data boundary.
Previewed(c) == {d \in Document : Authorized(d, c)}

\* The best of the matches up to a limit, without those that the content
\* scanner finds suspicious.
Ranked(matches, limit) ==
  {S \in SUBSET matches :
     Cardinality(S) = IF Cardinality(matches) < limit THEN Cardinality(matches) ELSE limit}
Safe(S) == S \ Suspicious

-----------------------------------------------------------------------------
(* What the code promises.                                                 *)

\* Whose content a user may read: a source that is ready and not excluded,
\* within the clearance, that is the user's own or the organization's.
Readable(d, c) ==
  /\ status[d] = "ready" /\ Purpose[d] # "ignore"
  /\ Level[d] <= c.clearance
  /\ scope[d] = "organization" \/ Owner[d] = c.actor

=============================================================================
