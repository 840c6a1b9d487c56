------------------------- MODULE DocumentIngestion -------------------------
(***************************************************************************)
(* Knowledge documents: the row and the derived rows of                    *)
(* knowledge/infrastructure/repositories.py, the requests of               *)
(* knowledge/application/service.py that change them, the durable queue    *)
(* between, and the ingestion workers of apps/worker.                      *)
(*                                                                         *)
(* Every step that changes a document is one transaction holding the lock  *)
(* of its row.  Elements, versions, chunks and ACL snapshots are written   *)
(* and deleted together: acl[d] # "none" says that they exist.  A set of   *)
(* chunk rows is replaced, never changed; `current` says of the task that  *)
(* has read one that it is still there.                                    *)
(*                                                                         *)
(* A worker takes one message at a time (prefetch_count=1).  Control       *)
(* points of its task:                                                     *)
(*   read      about to read the document under the authority of now       *)
(*   mark      about to write PROCESSING                                   *)
(*   ready     parsing, about to write the content and READY               *)
(*   select    about to read the chunks to embed                           *)
(*   embed     embedding them, about to store the vectors                  *)
(*   degrade   about to note that the index failed                         *)
(*   ack       about to acknowledge the message                            *)
(*   failing   in the except block                                         *)
(*   ackretry  the retry is published, about to acknowledge                *)
(*   exhaust   about to write FAILED                                       *)
(*   reject    about to reject the message, which dead-letters it          *)
(*                                                                         *)
(* An operator whose name has the form X_Y is X with one plausible bug.    *)
(* No specification uses it; it stands beside X to show which property     *)
(* would report that bug.                                                  *)
(***************************************************************************)
EXTENDS Naturals

CONSTANTS
  Document,    \* uploads
  Worker,      \* ingestion worker processes
  NoDocument,  \* the document of a worker without a message
  MaxRetries,  \* ingestion_max_retries
  MaxFaults    \* bound: process deaths, lost connections, broker failures

ASSUME NoDocumentAssumption == NoDocument \notin Document
ASSUME RetriesAssumption == MaxRetries \in Nat
ASSUME FaultsAssumption == MaxFaults \in Nat

VARIABLES
  status,   \* knowledge_documents.status; "absent" before the row exists
  scope,    \* knowledge_documents.owner_scope
  degraded, \* knowledge_documents.error_code says that the index failed
  acl,      \* whom the ACL snapshot admits; "none" without derived rows
  indexed,  \* the chunk rows have vectors
  upload,   \* the upload request of the document
  queue,    \* messages waiting, by document and retry header
  dead,     \* a message of the document is in the dead-letter queue
  lapsed,   \* history: a message left without effect, or its work halfway
  task,     \* the workers
  faults    \* faults so far

derived == <<acl, indexed>>
row == <<status, scope, degraded>>
broker == <<queue, dead>>
vars == <<status, scope, degraded, acl, indexed, upload, queue, dead, lapsed,
          task, faults>>

DocumentStatus == {"uploaded", "processing", "ready", "failed", "revoked"}
OwnerScope == {"personal", "organization"}
Tries == 0..MaxRetries

Pc == {"idle", "read", "mark", "ready", "select", "embed", "degrade", "ack",
       "failing", "ackretry", "exhaust", "reject"}

\* Control points whose exceptions lead to the except block of _handle; at
\* "select" it is the second get_document, before the index is tried.
Guarded == {"read", "mark", "ready", "select", "degrade", "ack"}

\* `held` is whether the broker still counts the message as delivered here.
Task == [pc : Pc, doc : Document \cup {NoDocument}, tries : Tries,
         current : BOOLEAN, held : BOOLEAN]

Idle == [pc |-> "idle", doc |-> NoDocument, tries |-> 0, current |-> FALSE,
         held |-> FALSE]

Exists(d) == status[d] # "absent"

Init ==
  /\ status = [d \in Document |-> "absent"]
  /\ scope = [d \in Document |-> "personal"]
  /\ degraded = [d \in Document |-> FALSE]
  /\ acl = [d \in Document |-> "none"]
  /\ indexed = [d \in Document |-> FALSE]
  /\ upload = [d \in Document |-> "idle"]
  /\ queue = [d \in Document |-> [n \in Tries |-> 0]]
  /\ dead = [d \in Document |-> FALSE]
  /\ lapsed = [d \in Document |-> FALSE]
  /\ task = [w \in Worker |-> Idle]
  /\ faults = 0

Fault == faults < MaxFaults /\ faults' = faults + 1

At(w, pc) == task[w].pc = pc
Goto(w, pc) == task' = [task EXCEPT ![w].pc = pc]
Leave(w) == task' = [task EXCEPT ![w] = Idle]

Lapse(d) == lapsed' = [lapsed EXCEPT ![d] = TRUE]

Enqueue(d, n) == queue' = [queue EXCEPT ![d][n] = @ + 1]

\* The tasks when the chunk rows of d are deleted.
Outdated(d) ==
  [v \in Worker |-> IF task[v].doc = d THEN [task[v] EXCEPT !.current = FALSE]
                                      ELSE task[v]]

\* The broker takes back the message a worker has not acknowledged.
Requeue(w) ==
  IF task[w].held THEN Enqueue(task[w].doc, task[w].tries)
                  ELSE UNCHANGED queue

-----------------------------------------------------------------------------
(* Requests.                                                               *)

\* upload: the original is stored, then the row is created, ...
CreateDocument(d) ==
  /\ upload[d] = "idle"
  /\ status' = [status EXCEPT ![d] = "uploaded"]
  /\ \E s \in OwnerScope : scope' = [scope EXCEPT ![d] = s]
  /\ upload' = [upload EXCEPT ![d] = "publish"]
  /\ UNCHANGED <<degraded, derived, broker, lapsed, task, faults>>

\* ... then the parse job is published.
Publish(d) ==
  /\ upload[d] = "publish"
  /\ Enqueue(d, 0)
  /\ upload' = [upload EXCEPT ![d] = "published"]
  /\ UNCHANGED <<row, derived, dead, lapsed, task, faults>>

\* The API dies or the broker fails before the confirmation arrives: the
\* request fails and the row stays.
PublishFails(d) ==
  /\ upload[d] = "publish"
  /\ Fault
  /\ \/ Enqueue(d, 0)
     \/ UNCHANGED queue
  /\ upload' = [upload EXCEPT ![d] = "unpublished"]
  /\ UNCHANGED <<row, derived, dead, lapsed, task>>

\* promote_document: the snapshots follow the scope in one transaction, and
\* a document of the organization stays as it is.
Promote_ReadyOnly(d) ==
  /\ Exists(d) /\ status[d] # "revoked" /\ scope[d] = "personal"
  /\ scope' = [scope EXCEPT ![d] = "organization"]
  /\ acl' = [acl EXCEPT ![d] = IF @ = "none" \/ status[d] # "ready"
                               THEN @ ELSE "organization"]
  /\ UNCHANGED <<status, degraded, indexed, upload, broker, lapsed,
                 task, faults>>
Promote(d) ==
  /\ Exists(d) /\ status[d] # "revoked" /\ scope[d] = "personal"
  /\ scope' = [scope EXCEPT ![d] = "organization"]
  /\ acl' = [acl EXCEPT ![d] = IF @ = "none" THEN @ ELSE "organization"]
  /\ UNCHANGED <<status, degraded, indexed, upload, broker, lapsed,
                 task, faults>>

\* revoke_document: in any state; versions are deleted, and the cascade
\* takes chunks, snapshots and vectors with them.
Revoke(d) ==
  /\ Exists(d)
  /\ status' = [status EXCEPT ![d] = "revoked"]
  /\ degraded' = [degraded EXCEPT ![d] = FALSE]
  /\ acl' = [acl EXCEPT ![d] = "none"]
  /\ indexed' = [indexed EXCEPT ![d] = FALSE]
  /\ task' = Outdated(d)
  /\ UNCHANGED <<scope, upload, broker, lapsed, faults>>

-----------------------------------------------------------------------------
(* A worker handles a message.                                             *)

Deliver(w, d, n) ==
  /\ At(w, "idle")
  /\ queue[d][n] > 0
  /\ queue' = [queue EXCEPT ![d][n] = @ - 1]
  /\ task' = [task EXCEPT ![w] = [pc |-> "read", doc |-> d, tries |-> n,
                                  current |-> FALSE, held |-> TRUE]]
  /\ UNCHANGED <<row, derived, upload, dead, lapsed, faults>>

\* get_document under the authority of now: a document above the clearance
\* that is left to its uploader is passed over in silence.
Read(w) ==
  /\ At(w, "read")
  /\ \/ Goto(w, "mark") /\ UNCHANGED lapsed
     \/ Goto(w, "ack") /\ Lapse(task[w].doc)
  /\ UNCHANGED <<row, derived, upload, broker, faults>>

\* mark_processing: whatever the status was.
MarkProcessing(w) ==
  /\ At(w, "mark")
  /\ status' = [status EXCEPT ![task[w].doc] = "processing"]
  /\ Goto(w, "ready")
  /\ UNCHANGED <<scope, degraded, derived, upload, broker, lapsed, faults>>

\* mark_ready: the content replaces what was there, whatever the status
\* was; the snapshot takes the scope of the locked row.  New rows have no
\* vectors.
MarkReady(w) ==
  LET d == task[w].doc IN
  /\ At(w, "ready")
  /\ status' = [status EXCEPT ![d] = "ready"]
  /\ degraded' = [degraded EXCEPT ![d] = FALSE]
  /\ acl' = [acl EXCEPT ![d] = scope[d]]
  /\ indexed' = [indexed EXCEPT ![d] = FALSE]
  /\ task' = [Outdated(d) EXCEPT ![w].pc = "select"]
  /\ UNCHANGED <<scope, upload, broker, lapsed, faults>>

\* chunks_for_index: the chunks of now if the document is ready, else none,
\* and then there is nothing to embed.
SelectChunks(w) ==
  LET d == task[w].doc IN
  /\ At(w, "select")
  /\ task' = IF status[d] = "ready"
             THEN [task EXCEPT ![w].pc = "embed", ![w].current = TRUE]
             ELSE [task EXCEPT ![w].pc = "ack"]
  /\ UNCHANGED <<row, derived, upload, broker, lapsed, faults>>

\* upsert_embeddings: a vector refers to its chunk row, so vectors of rows
\* that are gone are an error.
StoreVectors_NoReference(w) ==
  LET d == task[w].doc IN
  /\ At(w, "embed")
  /\ indexed' = [indexed EXCEPT ![d] = TRUE]
  /\ task' = [task EXCEPT ![w].pc = "ack", ![w].current = FALSE]
  /\ UNCHANGED <<row, acl, upload, broker, lapsed, faults>>
StoreVectors(w) ==
  LET d == task[w].doc IN
  /\ At(w, "embed")
  /\ task[w].current
  /\ indexed' = [indexed EXCEPT ![d] = TRUE]
  /\ task' = [task EXCEPT ![w].pc = "ack", ![w].current = FALSE]
  /\ UNCHANGED <<row, acl, upload, broker, lapsed, faults>>

\* The reading, the embedding or the storing fails.
IndexFails_Silent(w) ==
  /\ task[w].pc \in {"select", "embed"}
  /\ task' = [task EXCEPT ![w].pc = "ack", ![w].current = FALSE]
  /\ UNCHANGED <<row, derived, upload, broker, lapsed, faults>>
IndexFails(w) ==
  /\ task[w].pc \in {"select", "embed"}
  /\ task' = [task EXCEPT ![w].pc = "degrade", ![w].current = FALSE]
  /\ UNCHANGED <<row, derived, upload, broker, lapsed, faults>>

MarkDegraded(w) ==
  /\ At(w, "degrade")
  /\ degraded' = [degraded EXCEPT ![task[w].doc] = TRUE]
  /\ Goto(w, "ack")
  /\ UNCHANGED <<status, scope, derived, upload, broker, lapsed, faults>>

\* The broker knows the delivery, and the message is gone.
Ack(w) ==
  /\ task[w].pc \in {"ack", "ackretry"} /\ task[w].held
  /\ Leave(w)
  /\ UNCHANGED <<row, derived, upload, broker, lapsed, faults>>

-----------------------------------------------------------------------------
(* A worker fails.                                                         *)

\* An exception: the authority is gone, the parser finds nothing, a store
\* or the database does not answer, the acknowledgement comes too late.
Raise(w) ==
  /\ task[w].pc \in Guarded
  /\ task[w].pc = "ack" => ~task[w].held
  /\ Goto(w, "failing")
  /\ UNCHANGED <<row, derived, upload, broker, lapsed, faults>>

\* A copy with the next retry number is published before the message is
\* acknowledged.
Retry_SameNumber(w) ==
  /\ At(w, "failing")
  /\ Enqueue(task[w].doc, task[w].tries)
  /\ Goto(w, "ackretry")
  /\ UNCHANGED <<row, derived, upload, dead, lapsed, faults>>
Retry(w) ==
  /\ At(w, "failing")
  /\ task[w].tries < MaxRetries
  /\ Enqueue(task[w].doc, task[w].tries + 1)
  /\ Goto(w, "ackretry")
  /\ UNCHANGED <<row, derived, upload, dead, lapsed, faults>>

GiveUp(w) ==
  /\ At(w, "failing")
  /\ task[w].tries >= MaxRetries
  /\ Goto(w, "exhaust")
  /\ UNCHANGED <<row, derived, upload, broker, lapsed, faults>>

\* mark_failed: whatever the status was.
MarkFailed(w) ==
  /\ At(w, "exhaust")
  /\ status' = [status EXCEPT ![task[w].doc] = "failed"]
  /\ degraded' = [degraded EXCEPT ![task[w].doc] = FALSE]
  /\ Goto(w, "reject")
  /\ UNCHANGED <<scope, derived, upload, broker, lapsed, faults>>

\* The queue names an exchange for the messages that are rejected.
DeadLetter_NoExchange(w) == UNCHANGED dead
DeadLetter(w) == IF task[w].held
                 THEN dead' = [dead EXCEPT ![task[w].doc] = TRUE]
                 ELSE UNCHANGED dead

Reject(w) ==
  /\ At(w, "reject")
  /\ DeadLetter(w)
  /\ Leave(w)
  /\ UNCHANGED <<row, derived, upload, queue, lapsed, faults>>

\* The retry is published and the message is no longer this worker's: the
\* exception leaves _handle and ends the worker.
AckRetryFails(w) ==
  /\ At(w, "ackretry") /\ ~task[w].held
  /\ Leave(w)
  /\ UNCHANGED <<row, derived, upload, broker, lapsed, faults>>

\* The connection breaks: the broker delivers the message again, while the
\* task, which finds out when it acknowledges, goes on.
LoseConnection(w) ==
  /\ ~At(w, "idle") /\ task[w].held
  /\ Fault
  /\ Requeue(w)
  /\ task' = [task EXCEPT ![w].held = FALSE]
  /\ UNCHANGED <<row, derived, upload, dead, lapsed>>

\* The work on a message that another delivery stands for ends halfway.
Abandon(w) == IF task[w].held THEN UNCHANGED lapsed
                              ELSE Lapse(task[w].doc)

\* mark_failed fails: the finally block rejects the message all the same,
\* and the exception ends the worker.
ExhaustFails(w) ==
  /\ At(w, "exhaust")
  /\ Fault
  /\ DeadLetter(w)
  /\ Abandon(w)
  /\ Leave(w)
  /\ UNCHANGED <<row, derived, upload, queue>>

\* The worker dies, or its retry cannot be published; its container starts
\* it again.
Crash(w) ==
  /\ ~At(w, "idle")
  /\ Fault
  /\ Requeue(w)
  /\ Abandon(w)
  /\ Leave(w)
  /\ UNCHANGED <<row, derived, upload, dead>>

-----------------------------------------------------------------------------
Request(d) == \/ CreateDocument(d) \/ Publish(d) \/ PublishFails(d)
              \/ Promote(d) \/ Revoke(d)

Process(w) == \/ Read(w) \/ MarkProcessing(w)
              \/ MarkReady(w) \/ SelectChunks(w) \/ StoreVectors(w)
              \/ IndexFails(w) \/ MarkDegraded(w) \/ Ack(w)

Recover(w) == \/ Raise(w) \/ Retry(w) \/ GiveUp(w) \/ MarkFailed(w)
              \/ Reject(w) \/ AckRetryFails(w)

Break(w) == ExhaustFails(w) \/ LoseConnection(w) \/ Crash(w)

Next ==
  \/ \E d \in Document : Request(d)
  \/ \E w \in Worker, d \in Document, n \in Tries : Deliver(w, d, n)
  \/ \E w \in Worker : Process(w) \/ Recover(w) \/ Break(w)

Spec == Init /\ [][Next]_vars

\* A worker goes on with the message it has, and every message comes to the
\* head of the queue again and again while workers take messages: retries
\* join at the end.  A request that has created the row publishes or fails.
Fairness ==
  /\ \A w \in Worker : WF_vars(Process(w) \/ Recover(w))
  /\ \A d \in Document :
       /\ WF_vars(Publish(d))
       /\ \A n \in Tries : SF_vars(\E w \in Worker : Deliver(w, d, n))

FairSpec == Spec /\ Fairness

-----------------------------------------------------------------------------
(* What the code promises.                                                 *)

\* Every variable stays in its type, and a busy worker has a document.
TypeOK ==
  /\ status \in [Document -> DocumentStatus \cup {"absent"}]
  /\ scope \in [Document -> OwnerScope]
  /\ degraded \in [Document -> BOOLEAN]
  /\ acl \in [Document -> OwnerScope \cup {"none"}]
  /\ indexed \in [Document -> BOOLEAN]
  /\ upload \in [Document -> {"idle", "publish", "published", "unpublished"}]
  /\ queue \in [Document -> [Tries -> Nat]]
  /\ dead \in [Document -> BOOLEAN]
  /\ lapsed \in [Document -> BOOLEAN]
  /\ task \in [Worker -> Task]
  /\ \A w \in Worker : task[w].pc # "idle" => task[w].doc \in Document
  /\ faults \in Nat

\* revoke_document takes everything that was derived from the document, and
\* while the document stays revoked nothing of it comes back: a worker that
\* was embedding its chunks has nothing to attach the vectors to.
RevokedHoldsNothing ==
  \A d \in Document : status[d] = "revoked" => acl[d] = "none" /\ ~indexed[d]

\* The snapshot that filters retrieval admits whom the document's scope
\* admits, although promotions, ingestions and repeated ingestions of the
\* same document run side by side.
AclFollowsScope ==
  \A d \in Document : acl[d] # "none" => acl[d] = scope[d]

\* A message about the document waits or is being handled.
InFlight(d) ==
  \/ \E n \in Tries : queue[d][n] > 0
  \/ \E w \in Worker : task[w].pc # "idle" /\ task[w].doc = d

\* No document is left uploaded or processing without a message that will
\* move it on or a trace of why there is none: its publication failed, it was
\* outside the authority of its uploader, its message is a dead letter, or a
\* worker died over a message that had been delivered again to another.
NoneForgotten ==
  \A d \in Document :
    status[d] \in {"uploaded", "processing"} =>
      \/ InFlight(d) \/ upload[d] \in {"publish", "unpublished"}
      \/ lapsed[d] \/ dead[d]

\* "Canonical truth may be ready while an index is degraded; the system
\* reports this honestly": at rest a ready document has its vectors or says
\* that it lacks them, whichever of several workers came last.
IndexIsHonest ==
  \A d \in Document :
    status[d] = "ready" /\ ~InFlight(d) /\ ~lapsed[d] /\ ~dead[d]
      => indexed[d] \/ degraded[d]

\* A published document gets an outcome, through bounded retries, duplicates
\* and worker deaths, unless it is passed over, dead-lettered or abandoned.
IngestionSettles ==
  \A d \in Document :
    upload[d] = "published" /\ status[d] \in {"uploaded", "processing"}
      ~> \/ status[d] \in {"ready", "failed", "revoked"}
         \/ lapsed[d] \/ dead[d]

-----------------------------------------------------------------------------
(* What the documentation says and the code does not do.                   *)

\* "Atomically revoke visibility": but the transitions of a worker do not
\* look at the status, and a message that is delivered, or retried, or being
\* handled while the document is revoked makes it ready again.
RevokedStaysRevoked ==
  [][\A d \in Document : status[d] = "revoked" => status'[d] = "revoked"]_vars

=============================================================================
