----------------------- MODULE DocumentIngestionProofs -----------------------
(***************************************************************************)
(* Machine-checked proofs about DocumentIngestion, for every set of        *)
(* documents and workers and every number of retries and faults.           *)
(***************************************************************************)
EXTENDS DocumentIngestion, TLAPS

USE NoDocumentAssumption, RetriesAssumption, FaultsAssumption

-----------------------------------------------------------------------------
(* The inductive invariant                                                 *)

\* Messages, tasks and derived rows concern documents that were uploaded.
Known ==
  /\ \A d \in Document, n \in Tries : queue[d][n] > 0 => upload[d] # "idle"
  /\ \A w \in Worker : task[w].pc # "idle" => upload[task[w].doc] # "idle"
  /\ \A d \in Document : acl[d] # "none" => upload[d] # "idle"

\* A task that counts on its chunk rows is embedding them, and they exist;
\* vectors, and the claim that the document is ready, exist only with them.
Attached ==
  /\ \A w \in Worker : task[w].current =>
       /\ task[w].pc = "embed"
       /\ acl[task[w].doc] # "none"
  /\ \A d \in Document : indexed[d] => acl[d] # "none"
  /\ \A d \in Document : status[d] = "ready" => acl[d] # "none"

IInv ==
  /\ TypeOK
  /\ Known
  /\ Attached
  /\ RevokedHoldsNothing
  /\ AclFollowsScope

-----------------------------------------------------------------------------
(* Type correctness                                                        *)

LEMMA IdleType == Idle \in Task
BY DEF Idle, Task, Pc, Tries

\* Everything starts in its type.
LEMMA InitTypeOK == Init => TypeOK
BY IdleType DEF Init, TypeOK, DocumentStatus, OwnerScope, Tries, Idle

\* A busy task that moves on keeps its document.
LEMMA GotoType ==
  ASSUME TypeOK, NEW w \in Worker, task[w].pc # "idle", NEW pc \in Pc,
         NEW b \in BOOLEAN, NEW h \in BOOLEAN,
         task' = [task EXCEPT ![w] = [task[w] EXCEPT !.pc = pc, !.current = b,
                                                     !.held = h]]
  PROVE  /\ task' \in [Worker -> Task]
         /\ \A v \in Worker : task'[v].pc # "idle" => task'[v].doc \in Document
<1> DEFINE e == [task[w] EXCEPT !.pc = pc, !.current = b, !.held = h]
<1>1. task[w] \in Task /\ task[w].doc \in Document
  BY DEF TypeOK
<1>2. e \in Task /\ e.doc = task[w].doc
  BY <1>1 DEF Task
<1>3. task' = [task EXCEPT ![w] = e]
  OBVIOUS
<1> HIDE DEF e
<1> QED
  BY <1>1, <1>2, <1>3 DEF TypeOK

\* A task that ends leaves the others as they are.
LEMMA LeaveType ==
  ASSUME TypeOK, NEW w \in Worker, Leave(w)
  PROVE  /\ task' \in [Worker -> Task]
         /\ \A v \in Worker : task'[v].pc # "idle" => task'[v].doc \in Document
<1>1. Idle \in Task /\ Idle.pc = "idle"
  BY IdleType DEF Idle
<1> QED
  BY <1>1 DEF Leave, TypeOK

\* Deleting the chunk rows of d changes nothing else of the tasks.
LEMMA OutdatedType ==
  ASSUME TypeOK, NEW d \in Document
  PROVE  /\ Outdated(d) \in [Worker -> Task]
         /\ \A v \in Worker : /\ Outdated(d)[v].pc = task[v].pc
                              /\ Outdated(d)[v].doc = task[v].doc
                              /\ Outdated(d)[v].held = task[v].held
                              /\ Outdated(d)[v].current =
                                   (task[v].current /\ task[v].doc # d)
<1> SUFFICES ASSUME NEW v \in Worker
             PROVE  LET o == IF task[v].doc = d
                             THEN [task[v] EXCEPT !.current = FALSE]
                             ELSE task[v]
                    IN /\ o \in Task /\ o.pc = task[v].pc /\ o.doc = task[v].doc
                       /\ o.held = task[v].held
                       /\ o.current = (task[v].current /\ task[v].doc # d)
  BY DEF Outdated
<1>1. task[v] \in Task
  BY DEF TypeOK
<1> QED
  BY <1>1 DEF Task

\* The queue counts messages.
LEMMA EnqueueType ==
  ASSUME TypeOK, NEW d \in Document, NEW n \in Tries, Enqueue(d, n)
  PROVE  queue' \in [Document -> [Tries -> Nat]]
<1>1. queue[d] \in [Tries -> Nat] /\ queue[d][n] + 1 \in Nat
  BY DEF TypeOK
<1>2. [queue[d] EXCEPT ![n] = queue[d][n] + 1] \in [Tries -> Nat]
  BY <1>1
<1>3. queue' = [queue EXCEPT ![d] = [queue[d] EXCEPT ![n] = queue[d][n] + 1]]
  BY DEF Enqueue
<1> QED
  BY <1>2, <1>3 DEF TypeOK

\* Taking a message back adds it to the queue, or adds nothing.
LEMMA RequeueType ==
  ASSUME TypeOK, NEW w \in Worker, task[w].pc # "idle", Requeue(w)
  PROVE  queue' \in [Document -> [Tries -> Nat]]
<1>1. task[w].doc \in Document /\ task[w].tries \in Tries
  BY DEF TypeOK, Task
<1>2. CASE task[w].held
  BY <1>1, <1>2, EnqueueType DEF Requeue
<1>3. CASE ~task[w].held
  BY <1>3 DEF Requeue, TypeOK
<1> QED
  BY <1>2, <1>3

\* Requests keep every type.
LEMMA RequestTypeOK ==
  ASSUME TypeOK, NEW d \in Document, Request(d)
  PROVE  TypeOK'
<1>1. CASE CreateDocument(d)
  BY <1>1 DEF CreateDocument, TypeOK, DocumentStatus, OwnerScope, derived,
     broker
<1>0. 0 \in Tries
  BY DEF Tries
<1>2. CASE Publish(d)
  <2>1. queue' \in [Document -> [Tries -> Nat]]
    BY <1>0, <1>2, EnqueueType DEF Publish
  <2> QED
    BY <1>2, <2>1 DEF Publish, TypeOK, row, derived
<1>3. CASE PublishFails(d)
  <2>1. queue' \in [Document -> [Tries -> Nat]]
    BY <1>0, <1>3, EnqueueType DEF PublishFails, TypeOK
  <2>2. upload' \in [Document -> {"idle", "publish", "published", "unpublished"}]
    BY <1>3 DEF PublishFails, TypeOK
  <2>3. faults' \in Nat
    BY <1>3 DEF PublishFails, Fault, TypeOK
  <2>4. UNCHANGED <<status, scope, degraded, acl, indexed, dead, lapsed, task>>
    BY <1>3 DEF PublishFails, row, derived
  <2> QED
    BY <2>1, <2>2, <2>3, <2>4 DEF TypeOK
<1>4. CASE Promote(d)
  BY <1>4 DEF Promote, TypeOK, OwnerScope, broker
<1>5. CASE Revoke(d)
  <2>1. /\ task' \in [Worker -> Task]
        /\ \A v \in Worker : task'[v].pc # "idle" => task'[v].doc \in Document
    <3>1. \A v \in Worker : task[v].pc # "idle" => task[v].doc \in Document
      BY DEF TypeOK
    <3>2. task' = Outdated(d)
      BY <1>5 DEF Revoke
    <3> QED
      BY <3>1, <3>2, OutdatedType
  <2> QED
    BY <1>5, <2>1 DEF Revoke, TypeOK, DocumentStatus, broker
<1> QED
  BY <1>1, <1>2, <1>3, <1>4, <1>5 DEF Request

\* A delivery takes a message that waits.
LEMMA DeliverTypeOK ==
  ASSUME TypeOK, NEW w \in Worker, NEW d \in Document, NEW n \in Tries,
         Deliver(w, d, n)
  PROVE  TypeOK'
<1> DEFINE e == [pc |-> "read", doc |-> d, tries |-> n, current |-> FALSE,
                 held |-> TRUE]
<1>1. e \in Task
  BY DEF Task, Pc
<1>2. /\ task' \in [Worker -> Task]
      /\ \A v \in Worker : task'[v].pc # "idle" => task'[v].doc \in Document
  <2>1. task' = [task EXCEPT ![w] = e] /\ e.doc = d
    BY DEF Deliver
  <2> HIDE DEF e
  <2> QED
    BY <1>1, <2>1 DEF TypeOK
<1>3. queue' \in [Document -> [Tries -> Nat]]
  <2>1. queue[d] \in [Tries -> Nat] /\ queue[d][n] - 1 \in Nat
    BY DEF Deliver, TypeOK
  <2>2. [queue[d] EXCEPT ![n] = queue[d][n] - 1] \in [Tries -> Nat]
    BY <2>1
  <2>3. queue' = [queue EXCEPT ![d] = [queue[d] EXCEPT ![n] = queue[d][n] - 1]]
    BY DEF Deliver
  <2> QED
    BY <2>2, <2>3 DEF TypeOK
<1>4. UNCHANGED <<status, scope, degraded, acl, indexed, upload, dead, lapsed,
                  faults>>
  BY DEF Deliver, row, derived
<1> QED
  BY <1>2, <1>3, <1>4 DEF TypeOK

\* The task of w moves to pc and may let its chunk rows go.
Moves(w, pc) ==
  \/ Goto(w, pc)
  \/ task' = [task EXCEPT ![w].pc = pc, ![w].current = FALSE]
  \/ task' = [task EXCEPT ![w].pc = pc, ![w].current = TRUE]

\* A busy task may move to any control point and let its rows go.
LEMMA MovesType ==
  ASSUME TypeOK, NEW w \in Worker, task[w].pc # "idle", NEW pc \in Pc,
         Moves(w, pc)
  PROVE  /\ task' \in [Worker -> Task]
         /\ \A v \in Worker : task'[v].pc # "idle" => task'[v].doc \in Document
<1>1. task[w] \in Task
  BY DEF TypeOK
<1>2. PICK b \in BOOLEAN :
        task' = [task EXCEPT ![w] = [task[w] EXCEPT !.pc = pc, !.current = b,
                                                    !.held = task[w].held]]
  <2>1. CASE Goto(w, pc)
    <3>1. [task[w] EXCEPT !.pc = pc]
            = [task[w] EXCEPT !.pc = pc, !.current = task[w].current,
                              !.held = task[w].held]
      BY <1>1 DEF Task
    <3> QED
      BY <1>1, <2>1, <3>1 DEF Goto, Task
  <2>2. ASSUME NEW b \in BOOLEAN,
               task' = [task EXCEPT ![w].pc = pc, ![w].current = b]
        PROVE  task' = [task EXCEPT ![w] = [task[w] EXCEPT !.pc = pc,
                                !.current = b, !.held = task[w].held]]
    <3>1. [task[w] EXCEPT !.pc = pc, !.current = b]
            = [task[w] EXCEPT !.pc = pc, !.current = b, !.held = task[w].held]
      BY <1>1 DEF Task
    <3>2. task' = [task EXCEPT ![w] = [task[w] EXCEPT !.pc = pc, !.current = b]]
      BY <2>2 DEF TypeOK
    <3> QED
      BY <3>1, <3>2
  <2> QED
    BY <2>1, <2>2 DEF Moves
<1>3. task[w].held \in BOOLEAN
  BY <1>1 DEF Task
<1> QED
  BY <1>2, <1>3, GotoType

\* The steps of a worker that succeed keep every type, ...
LEMMA ProcessTypeOK ==
  ASSUME TypeOK, NEW w \in Worker, Process(w)
  PROVE  TypeOK'
<1> USE DEF row, derived, broker
<1>1. CASE Read(w)
  <2>1. task[w].pc # "idle" /\ (Moves(w, "mark") \/ Moves(w, "ack"))
    BY <1>1 DEF Read, At, Moves
  <2>2. lapsed' \in [Document -> BOOLEAN]
    BY <1>1 DEF Read, Lapse, TypeOK
  <2>3. {"mark", "ack"} \subseteq Pc
    BY DEF Pc
  <2> QED
    BY <1>1, <2>1, <2>2, <2>3, MovesType DEF Read, TypeOK
<1>2. CASE MarkProcessing(w)
  <2>1. task[w].pc # "idle" /\ Moves(w, "ready") /\ "ready" \in Pc
    BY <1>2 DEF MarkProcessing, At, Moves, Pc
  <2> QED
    BY <1>2, <2>1, MovesType DEF MarkProcessing, TypeOK, DocumentStatus
<1>3. CASE MarkReady(w)
  <2>1. task[w].pc = "ready" /\ task[w].doc \in Document
    BY <1>3 DEF MarkReady, At, TypeOK
  <2> DEFINE t == Outdated(task[w].doc)
             e == [t[w] EXCEPT !.pc = "select"]
  <2>2. t \in [Worker -> Task]
    BY <2>1, OutdatedType
  <2>3. \A v \in Worker : t[v].pc = task[v].pc /\ t[v].doc = task[v].doc
    BY <2>1, OutdatedType
  <2>4. task' = [t EXCEPT ![w] = e]
    BY <1>3 DEF MarkReady
  <2>5. e \in Task /\ e.doc = task[w].doc
    <3>1. t[w] \in Task
      BY <2>2
    <3> QED
      BY <2>3, <3>1 DEF Task, Pc
  <2>6. /\ task' \in [Worker -> Task]
        /\ \A v \in Worker : task'[v].pc # "idle" => task'[v].doc \in Document
    <3>1. \A v \in Worker : task[v].pc # "idle" => task[v].doc \in Document
      BY DEF TypeOK
    <3> HIDE DEF t, e
    <3> QED
      BY <2>1, <2>2, <2>3, <2>4, <2>5, <3>1
  <2>7. /\ status' \in [Document -> DocumentStatus \cup {"absent"}]
        /\ degraded' \in [Document -> BOOLEAN]
        /\ acl' \in [Document -> OwnerScope \cup {"none"}]
        /\ indexed' \in [Document -> BOOLEAN]
    BY <1>3, <2>1 DEF MarkReady, TypeOK, DocumentStatus
  <2>8. UNCHANGED <<scope, upload, queue, dead, lapsed, faults>>
    BY <1>3 DEF MarkReady
  <2> QED
    BY <2>6, <2>7, <2>8 DEF TypeOK
<1>4. CASE SelectChunks(w)
  <2>1. task[w].pc # "idle" /\ (Moves(w, "embed") \/ Moves(w, "ack"))
    BY <1>4 DEF SelectChunks, At, Moves, Goto
  <2>2. {"embed", "ack"} \subseteq Pc
    BY DEF Pc
  <2> QED
    BY <1>4, <2>1, <2>2, MovesType DEF SelectChunks, TypeOK
<1>5. CASE StoreVectors(w)
  <2>1. task[w].pc # "idle" /\ Moves(w, "ack") /\ "ack" \in Pc
    BY <1>5 DEF StoreVectors, At, Moves, Pc
  <2> QED
    BY <1>5, <2>1, MovesType DEF StoreVectors, TypeOK
<1>6. CASE IndexFails(w)
  <2>1. task[w].pc # "idle" /\ Moves(w, "degrade") /\ "degrade" \in Pc
    BY <1>6 DEF IndexFails, Moves, Pc
  <2> QED
    BY <1>6, <2>1, MovesType DEF IndexFails, TypeOK
<1>7. CASE MarkDegraded(w)
  <2>1. task[w].pc # "idle" /\ Moves(w, "ack") /\ "ack" \in Pc
    BY <1>7 DEF MarkDegraded, At, Moves, Pc
  <2> QED
    BY <1>7, <2>1, MovesType DEF MarkDegraded, TypeOK
<1>8. CASE Ack(w)
  BY <1>8, LeaveType DEF Ack, TypeOK
<1> QED
  BY <1>1, <1>2, <1>3, <1>4, <1>5, <1>6, <1>7, <1>8 DEF Process

\* ... those that handle a failure do, ...
LEMMA RecoverTypeOK ==
  ASSUME TypeOK, NEW w \in Worker, Recover(w)
  PROVE  TypeOK'
<1> USE DEF row, derived, broker
<1>1. CASE Raise(w)
  <2>1. task[w].pc # "idle" /\ Moves(w, "failing") /\ "failing" \in Pc
    BY <1>1 DEF Raise, Guarded, Moves, Pc
  <2> QED
    BY <1>1, <2>1, MovesType DEF Raise, TypeOK
<1>2. CASE Retry(w)
  <2>1. task[w].pc # "idle" /\ Moves(w, "ackretry") /\ "ackretry" \in Pc
    BY <1>2 DEF Retry, At, Moves, Pc
  <2>2. task[w].doc \in Document /\ task[w].tries + 1 \in Tries
    <3>1. task[w].tries \in Tries /\ task[w].tries < MaxRetries
      BY <1>2 DEF Retry, TypeOK, Task
    <3> QED
      BY <2>1, <3>1 DEF Tries, TypeOK
  <2>3. queue' \in [Document -> [Tries -> Nat]]
    BY <1>2, <2>2, EnqueueType DEF Retry
  <2>4. UNCHANGED <<status, scope, degraded, acl, indexed, upload, dead, lapsed,
                    faults>>
    BY <1>2 DEF Retry
  <2> QED
    BY <2>1, <2>3, <2>4, MovesType DEF TypeOK
<1>3. CASE GiveUp(w)
  <2>1. task[w].pc # "idle" /\ Moves(w, "exhaust") /\ "exhaust" \in Pc
    BY <1>3 DEF GiveUp, At, Moves, Pc
  <2> QED
    BY <1>3, <2>1, MovesType DEF GiveUp, TypeOK
<1>4. CASE MarkFailed(w)
  <2>1. task[w].pc # "idle" /\ Moves(w, "reject") /\ "reject" \in Pc
    BY <1>4 DEF MarkFailed, At, Moves, Pc
  <2> QED
    BY <1>4, <2>1, MovesType DEF MarkFailed, TypeOK, DocumentStatus
<1>5. CASE Reject(w)
  <2>1. dead' \in [Document -> BOOLEAN]
    BY <1>5 DEF Reject, DeadLetter, TypeOK
  <2> QED
    BY <1>5, <2>1, LeaveType DEF Reject, TypeOK
<1>6. CASE AckRetryFails(w)
  BY <1>6, LeaveType DEF AckRetryFails, TypeOK
<1> QED
  BY <1>1, <1>2, <1>3, <1>4, <1>5, <1>6 DEF Recover

\* ... and so do crashes and lost connections.
LEMMA BreakTypeOK ==
  ASSUME TypeOK, NEW w \in Worker, Break(w)
  PROVE  TypeOK'
<1> USE DEF row, derived
<1>1. CASE ExhaustFails(w)
  <2>1. dead' \in [Document -> BOOLEAN] /\ lapsed' \in [Document -> BOOLEAN]
    BY <1>1 DEF ExhaustFails, DeadLetter, Abandon, Lapse, TypeOK
  <2>2. faults' \in Nat
    BY <1>1 DEF ExhaustFails, Fault, TypeOK
  <2>3. UNCHANGED <<status, scope, degraded, acl, indexed, upload, queue>>
    BY <1>1 DEF ExhaustFails
  <2>4. Leave(w)
    BY <1>1 DEF ExhaustFails
  <2> QED
    BY <2>1, <2>2, <2>3, <2>4, LeaveType DEF TypeOK
<1>2. CASE LoseConnection(w)
  <2>1. task[w].pc # "idle"
    BY <1>2 DEF LoseConnection, At
  <2>2. queue' \in [Document -> [Tries -> Nat]]
    BY <1>2, <2>1, RequeueType DEF LoseConnection
  <2>3. faults' \in Nat
    BY <1>2 DEF LoseConnection, Fault, TypeOK
  <2>4. UNCHANGED <<status, scope, degraded, acl, indexed, upload, dead, lapsed>>
    BY <1>2 DEF LoseConnection
  <2>5. /\ task' \in [Worker -> Task]
        /\ \A v \in Worker : task'[v].pc # "idle" => task'[v].doc \in Document
    <3>1. task[w] \in Task
      BY DEF TypeOK
    <3>2. [task[w] EXCEPT !.held = FALSE]
            = [task[w] EXCEPT !.pc = task[w].pc, !.current = task[w].current,
                              !.held = FALSE]
      BY <3>1 DEF Task
    <3>3. task' = [task EXCEPT ![w] = [task[w] EXCEPT !.held = FALSE]]
      BY <1>2 DEF LoseConnection
    <3>4. task[w].pc \in Pc /\ task[w].current \in BOOLEAN
      BY <3>1 DEF Task
    <3> QED
      BY <2>1, <3>2, <3>3, <3>4, GotoType
  <2> QED
    BY <2>2, <2>3, <2>4, <2>5 DEF TypeOK
<1>3. CASE Crash(w)
  <2>1. task[w].pc # "idle"
    BY <1>3 DEF Crash, At
  <2>2. queue' \in [Document -> [Tries -> Nat]]
    BY <1>3, <2>1, RequeueType DEF Crash
  <2>3. faults' \in Nat
    BY <1>3 DEF Crash, Fault, TypeOK
  <2>4. lapsed' \in [Document -> BOOLEAN]
    BY <1>3 DEF Crash, Abandon, Lapse, TypeOK
  <2>5. UNCHANGED <<status, scope, degraded, acl, indexed, upload, dead>>
    BY <1>3 DEF Crash
  <2>6. Leave(w)
    BY <1>3 DEF Crash
  <2> QED
    BY <2>2, <2>3, <2>4, <2>5, <2>6, LeaveType DEF TypeOK
<1> QED
  BY <1>1, <1>2, <1>3 DEF Break

\* The types are inductive.
LEMMA NextTypeOK ==
  ASSUME TypeOK, [Next]_vars
  PROVE  TypeOK'
<1>1. CASE Next
  BY <1>1, RequestTypeOK, DeliverTypeOK, ProcessTypeOK, RecoverTypeOK,
     BreakTypeOK DEF Next
<1>2. CASE UNCHANGED vars
  BY <1>2 DEF vars, TypeOK
<1> QED
  BY <1>1, <1>2

-----------------------------------------------------------------------------
(* What a step of a busy worker leaves alone                               *)

Works(w) == Process(w) \/ Recover(w) \/ Break(w)

\* Its own document stays, and the other tasks keep theirs and their place.
LEMMA WorkKeepsTasks ==
  ASSUME TypeOK, NEW w \in Worker, Works(w), NEW v \in Worker
  PROVE  /\ task[w].pc # "idle"
         /\ task'[v].pc # "idle" => task[v].pc # "idle" /\ task'[v].doc = task[v].doc
         /\ v # w => task'[v].pc = task[v].pc
<1>1. task[v] \in Task /\ task[w] \in Task
  BY DEF TypeOK
<1>2. Idle.pc = "idle"
  BY DEF Idle
<1>3. CASE MarkReady(w)
  <2>1. task[w].pc = "ready" /\ task[w].doc \in Document
    BY <1>3 DEF MarkReady, At, TypeOK
  <2> DEFINE t == Outdated(task[w].doc)
  <2>2. /\ t \in [Worker -> Task]
        /\ \A u \in Worker : t[u].pc = task[u].pc /\ t[u].doc = task[u].doc
    BY <2>1, OutdatedType
  <2>3. task' = [t EXCEPT ![w].pc = "select"]
    BY <1>3 DEF MarkReady
  <2> HIDE DEF t
  <2> QED
    BY <2>1, <2>2, <2>3 DEF Task
<1>4. CASE ~MarkReady(w)
  <2>1. task[w].pc # "idle"
    BY <1>4 DEF Works, Process, Recover, Break, Read, MarkProcessing,
       SelectChunks, StoreVectors, IndexFails, MarkDegraded, Ack, Raise, Guarded,
       Retry, GiveUp, MarkFailed, Reject, AckRetryFails, ExhaustFails,
       LoseConnection, Crash, At
  <2>2. \/ Leave(w)
        \/ \E pc \in Pc : Moves(w, pc)
        \/ task' = [task EXCEPT ![w].held = FALSE]
    BY <1>4 DEF Works, Process, Recover, Break, Read, MarkProcessing,
       SelectChunks, StoreVectors, IndexFails, MarkDegraded, Ack, Raise,
       Retry, GiveUp, MarkFailed, Reject, AckRetryFails, ExhaustFails,
       LoseConnection, Crash, Moves, Goto, Pc
  <2>3. CASE Leave(w)
    BY <1>1, <1>2, <2>1, <2>3 DEF Leave, TypeOK
  <2>4. ASSUME NEW pc \in Pc, Moves(w, pc)
        PROVE  /\ task'[v].doc = task[v].doc
               /\ v # w => task'[v].pc = task[v].pc
    BY <1>1, <2>4 DEF Moves, Goto, TypeOK, Task
  <2>5. CASE task' = [task EXCEPT ![w].held = FALSE]
    BY <1>1, <2>1, <2>5 DEF TypeOK, Task
  <2> QED
    BY <2>1, <2>2, <2>3, <2>4, <2>5
<1> QED
  BY <1>3, <1>4

\* Messages and derived rows appear only for the document it works on.
LEMMA WorkConcernsItsDocument ==
  ASSUME TypeOK, NEW w \in Worker, Works(w), NEW d \in Document
  PROVE  /\ upload' = upload /\ scope' = scope
         /\ \A n \in Tries : queue'[d][n] > 0 =>
              queue[d][n] > 0 \/ d = task[w].doc
         /\ ~MarkReady(w) => acl' = acl
         /\ acl'[d] # "none" => acl[d] # "none" \/ d = task[w].doc
<1>1. upload' = upload /\ scope' = scope
  BY DEF Works, Process, Recover, Break, Read, MarkProcessing, MarkReady,
     SelectChunks, StoreVectors, IndexFails, MarkDegraded, Ack, Raise, Retry,
     GiveUp, MarkFailed, Reject, AckRetryFails, ExhaustFails, LoseConnection,
     Crash, row
<1>2. ~MarkReady(w) => acl' = acl
  BY DEF Works, Process, Recover, Break, Read, MarkProcessing,
     SelectChunks, StoreVectors, IndexFails, MarkDegraded, Ack, Raise, Retry,
     GiveUp, MarkFailed, Reject, AckRetryFails, ExhaustFails, LoseConnection,
     Crash, derived
<1>3. MarkReady(w) => acl' = [acl EXCEPT ![task[w].doc] = scope[task[w].doc]]
  BY DEF MarkReady
<1>4. acl'[d] # "none" => acl[d] # "none" \/ d = task[w].doc
  BY <1>2, <1>3 DEF TypeOK
<1>5. \/ queue' = queue
      \/ \E n \in Tries : Enqueue(task[w].doc, n)
  <2>1. task[w].tries \in Tries
    BY DEF TypeOK, Task
  <2>2. CASE Retry(w)
    <3>1. task[w].tries + 1 \in Tries
      BY <2>1, <2>2 DEF Retry, Tries
    <3> QED
      BY <2>2, <3>1 DEF Retry
  <2>3. CASE ~Retry(w)
    BY <2>1, <2>3 DEF Works, Process, Recover, Break, Read, MarkProcessing,
       MarkReady, SelectChunks, StoreVectors, IndexFails, MarkDegraded, Ack,
       Raise, GiveUp, MarkFailed, Reject, AckRetryFails, ExhaustFails,
       LoseConnection, Crash, Requeue, broker
  <2> QED
    BY <2>2, <2>3
<1>6. ASSUME NEW n \in Tries, queue'[d][n] > 0, d # task[w].doc
      PROVE  queue[d][n] > 0
  BY <1>5, <1>6 DEF Enqueue, TypeOK
<1> QED
  BY <1>1, <1>2, <1>4, <1>6

-----------------------------------------------------------------------------
(* Only uploaded documents have messages, tasks and derived rows           *)

LEMMA RequestKnown ==
  ASSUME TypeOK, Known, NEW c \in Document, Request(c)
  PROVE  Known'
<1>1. \A d \in Document : upload[d] # "idle" => upload'[d] # "idle"
  BY DEF Request, CreateDocument, Publish, PublishFails, Promote, Revoke, TypeOK
<1>2. ASSUME NEW d \in Document, NEW n \in Tries, queue'[d][n] > 0
      PROVE  upload'[d] # "idle"
  <2>1. CASE Publish(c) \/ PublishFails(c)
    <3>1. upload'[c] # "idle"
      BY <2>1 DEF Publish, PublishFails, TypeOK
    <3>2. d # c => queue'[d] = queue[d]
      BY <2>1 DEF Publish, PublishFails, Enqueue, TypeOK
    <3> QED
      BY <1>1, <1>2, <3>1, <3>2 DEF Known
  <2>2. CASE CreateDocument(c) \/ Promote(c) \/ Revoke(c)
    BY <1>1, <1>2, <2>2 DEF CreateDocument, Promote, Revoke, broker, Known
  <2> QED
    BY <2>1, <2>2 DEF Request
<1>3. ASSUME NEW w \in Worker, task'[w].pc # "idle"
      PROVE  upload'[task'[w].doc] # "idle"
  <2>1. task'[w].pc = task[w].pc /\ task'[w].doc = task[w].doc
    BY OutdatedType DEF Request, CreateDocument, Publish, PublishFails, Promote,
       Revoke
  <2>2. task[w].doc \in Document /\ upload[task[w].doc] # "idle"
    BY <1>3, <2>1 DEF TypeOK, Known
  <2> QED
    BY <1>1, <2>1, <2>2
<1>4. ASSUME NEW d \in Document, acl'[d] # "none"
      PROVE  acl[d] # "none"
  BY <1>4 DEF Request, CreateDocument, Publish, PublishFails, Promote, Revoke,
     derived, TypeOK
<1> QED
  BY <1>1, <1>2, <1>3, <1>4 DEF Known

\* A delivered message was about an uploaded document.
LEMMA DeliverKnown ==
  ASSUME TypeOK, Known, NEW v \in Worker, NEW c \in Document, NEW m \in Tries,
         Deliver(v, c, m)
  PROVE  Known'
<1>1. upload' = upload /\ acl' = acl /\ upload[c] # "idle"
  BY DEF Deliver, derived, Known
<1>2. ASSUME NEW d \in Document, NEW n \in Tries, queue'[d][n] > 0
      PROVE  queue[d][n] > 0
  BY <1>2 DEF Deliver, TypeOK
<1>3. ASSUME NEW w \in Worker, task'[w].pc # "idle"
      PROVE  \/ task'[w].doc = c
             \/ task[w].pc # "idle" /\ task'[w].doc = task[w].doc
  BY <1>3 DEF Deliver, TypeOK
<1> QED
  BY <1>1, <1>2, <1>3 DEF Known

\* A worker concerns itself with the document of its message only.
LEMMA WorkKnown ==
  ASSUME TypeOK, Known, NEW w \in Worker, Works(w)
  PROVE  Known'
<1>1. upload' = upload /\ upload[task[w].doc] # "idle"
  <2>1. task[w].pc # "idle" /\ task[w].doc \in Document
    BY WorkKeepsTasks DEF TypeOK
  <2> QED
    BY <2>1, WorkConcernsItsDocument DEF Known
<1>2. ASSUME NEW d \in Document, NEW n \in Tries, queue'[d][n] > 0
      PROVE  upload'[d] # "idle"
  BY <1>1, <1>2, WorkConcernsItsDocument DEF Known
<1>3. ASSUME NEW v \in Worker, task'[v].pc # "idle"
      PROVE  upload'[task'[v].doc] # "idle"
  BY <1>1, <1>3, WorkKeepsTasks DEF Known
<1>4. ASSUME NEW d \in Document, acl'[d] # "none"
      PROVE  upload'[d] # "idle"
  BY <1>1, <1>4, WorkConcernsItsDocument DEF Known
<1> QED
  BY <1>2, <1>3, <1>4 DEF Known

-----------------------------------------------------------------------------
(* The rows that hang on a document                                        *)

\* Requests and deliveries.
LEMMA RequestHolds ==
  ASSUME IInv, NEW c \in Document, Request(c)
  PROVE  (Attached /\ RevokedHoldsNothing /\ AclFollowsScope)'
<1> USE DEF IInv, TypeOK, row, derived, broker
<1>1. CASE CreateDocument(c)
  <2>1. acl[c] = "none"
    BY <1>1 DEF CreateDocument, Known
  <2>2. Attached'
    BY <1>1 DEF CreateDocument, Attached
  <2>3. RevokedHoldsNothing'
    BY <1>1 DEF CreateDocument, RevokedHoldsNothing
  <2>4. AclFollowsScope'
    BY <1>1, <2>1 DEF CreateDocument, AclFollowsScope
  <2> QED
    BY <2>2, <2>3, <2>4
<1>2. CASE Publish(c) \/ PublishFails(c)
  BY <1>2 DEF Publish, PublishFails, Attached, RevokedHoldsNothing,
     AclFollowsScope
<1>3. CASE Promote(c)
  <2>1. \A d \in Document : (acl[d] = "none") <=> (acl'[d] = "none")
    BY <1>3 DEF Promote
  <2>2. UNCHANGED <<status, indexed, task>>
    BY <1>3 DEF Promote
  <2>3. Attached' /\ RevokedHoldsNothing'
    BY <2>1, <2>2 DEF Attached, RevokedHoldsNothing, Task
  <2>4. AclFollowsScope'
    BY <1>3 DEF Promote, AclFollowsScope
  <2> QED
    BY <2>3, <2>4
<1>4. CASE Revoke(c)
  <2>1. /\ \A w \in Worker : /\ task'[w].pc = task[w].pc
                             /\ task'[w].doc = task[w].doc
                             /\ task'[w].current =
                                  (task[w].current /\ task[w].doc # c)
    <3>1. TypeOK /\ task' = Outdated(c)
      BY <1>4 DEF Revoke
    <3> QED
      BY <3>1, OutdatedType
  <2>2. Attached'
    BY <1>4, <2>1 DEF Revoke, Attached
  <2>3. RevokedHoldsNothing' /\ AclFollowsScope'
    BY <1>4 DEF Revoke, RevokedHoldsNothing, AclFollowsScope
  <2> QED
    BY <2>2, <2>3
<1> QED
  BY <1>1, <1>2, <1>3, <1>4 DEF Request

\* A delivery starts without chunk rows and touches no document.
LEMMA DeliverHolds ==
  ASSUME IInv, NEW w \in Worker, NEW c \in Document, NEW m \in Tries,
         Deliver(w, c, m)
  PROVE  (Attached /\ RevokedHoldsNothing /\ AclFollowsScope)'
<1>1. UNCHANGED <<status, scope, acl, indexed>>
  BY DEF Deliver, row, derived
<1>2. ASSUME NEW v \in Worker, task'[v].current
      PROVE  task'[v] = task[v]
  BY <1>2 DEF Deliver, IInv, TypeOK
<1> QED
  BY <1>1, <1>2 DEF IInv, Attached, RevokedHoldsNothing, AclFollowsScope

\* Replacing the content takes the chunk rows from every task of the document.
LEMMA MarkReadyHolds ==
  ASSUME IInv, NEW w \in Worker, MarkReady(w)
  PROVE  (Attached /\ RevokedHoldsNothing /\ AclFollowsScope)'
<1> DEFINE d == task[w].doc
           t == Outdated(d)
<1>1. TypeOK /\ d \in Document /\ scope[d] # "none"
  BY DEF IInv, TypeOK, MarkReady, At, OwnerScope
<1>2. /\ acl' = [acl EXCEPT ![d] = scope[d]]
      /\ indexed' = [indexed EXCEPT ![d] = FALSE]
      /\ status' = [status EXCEPT ![d] = "ready"]
      /\ scope' = scope
  BY DEF MarkReady
<1>3. ASSUME NEW v \in Worker, task'[v].current
      PROVE  /\ task'[v].pc = "embed" /\ task'[v].doc = task[v].doc
             /\ acl[task[v].doc] # "none" /\ task[v].doc # d
  <2>1. /\ t \in [Worker -> Task]
        /\ t[v].pc = task[v].pc /\ t[v].doc = task[v].doc
        /\ t[v].current = (task[v].current /\ task[v].doc # d)
        /\ t[w].current = (task[w].current /\ task[w].doc # d)
    BY <1>1, OutdatedType
  <2>2. task' = [t EXCEPT ![w] = [t[w] EXCEPT !.pc = "select"]]
    BY DEF MarkReady
  <2>3. t[w] \in Task
    BY <2>1
  <2>4. ~[t[w] EXCEPT !.pc = "select"].current
    BY <2>1, <2>3 DEF Task
  <2> HIDE DEF t
  <2>5. task'[v] = t[v]
    BY <1>3, <2>1, <2>2, <2>4
  <2> QED
    BY <1>3, <2>1, <2>5 DEF IInv, Attached
<1>4. Attached'
  <2>1. \A v \in Worker : task'[v].current =>
          task'[v].pc = "embed" /\ acl'[task'[v].doc] # "none"
    BY <1>2, <1>3 DEF IInv, TypeOK
  <2>2. \A c \in Document : indexed'[c] \/ status'[c] = "ready" => acl'[c] # "none"
    BY <1>1, <1>2 DEF IInv, Attached, TypeOK
  <2> QED
    BY <2>1, <2>2 DEF Attached
<1>5. RevokedHoldsNothing' /\ AclFollowsScope'
  BY <1>1, <1>2 DEF IInv, TypeOK, RevokedHoldsNothing, AclFollowsScope
<1> QED
  BY <1>4, <1>5

\* No other step of a worker touches the snapshots.
LEMMA WorkHolds ==
  ASSUME IInv, NEW w \in Worker, Works(w), ~MarkReady(w)
  PROVE  (Attached /\ RevokedHoldsNothing /\ AclFollowsScope)'
<1>1. TypeOK /\ task[w].pc # "idle" /\ task[w].doc \in Document
  BY WorkKeepsTasks DEF IInv, TypeOK
<1>2. acl' = acl /\ scope' = scope
  BY <1>1, WorkConcernsItsDocument
<1>3. ASSUME NEW d \in Document, status'[d] \in {"ready", "revoked"}
      PROVE  status'[d] = status[d]
  BY <1>3 DEF Works, Process, Recover, Break, Read, MarkProcessing,
     SelectChunks, StoreVectors, IndexFails, MarkDegraded, Ack, Raise, Retry,
     GiveUp, MarkFailed, Reject, AckRetryFails, ExhaustFails, LoseConnection,
     Crash, row, IInv, TypeOK
<1>4. ASSUME NEW d \in Document, indexed'[d]
      PROVE  indexed[d] \/ acl[d] # "none"
  <2>1. CASE StoreVectors(w)
    BY <1>4, <2>1 DEF StoreVectors, IInv, TypeOK, Attached
  <2>2. CASE ~StoreVectors(w)
    <3>1. indexed' = indexed
      BY <2>2 DEF Works, Process, Recover, Break, Read, MarkProcessing,
         SelectChunks, IndexFails, MarkDegraded, Ack, Raise, Retry, GiveUp,
         MarkFailed, Reject, AckRetryFails, ExhaustFails, LoseConnection,
         Crash, derived
    <3> QED
      BY <1>4, <3>1
  <2> QED
    BY <2>1, <2>2
<1>5. ASSUME NEW v \in Worker, task'[v].current
      PROVE  task'[v].pc = "embed" /\ acl'[task'[v].doc] # "none"
  <2>1. task[v] \in Task /\ task[w] \in Task
    BY <1>1 DEF TypeOK
  <2>2. CASE SelectChunks(w)
    <3>1. CASE v = w
      BY <1>1, <1>2, <1>5, <2>1, <2>2, <3>1 DEF SelectChunks, At, IInv, Attached,
         TypeOK, Task
    <3>2. CASE v # w
      BY <1>2, <1>5, <2>2, <3>2 DEF SelectChunks, IInv, Attached, TypeOK
    <3> QED
      BY <3>1, <3>2
  <2>3. CASE LoseConnection(w)
    BY <1>2, <1>5, <2>1, <2>3 DEF LoseConnection, IInv, Attached, TypeOK, Task
  <2>4. CASE ~SelectChunks(w) /\ ~LoseConnection(w)
    <3>1. \/ task' = [task EXCEPT ![w] = Idle]
          \/ \E pc \in Pc : /\ task[w].pc # "embed"
                            /\ task' = [task EXCEPT ![w].pc = pc]
          \/ \E pc \in Pc : task' = [task EXCEPT ![w].pc = pc,
                                                 ![w].current = FALSE]
      BY <2>4 DEF Works, Process, Recover, Break, Read, MarkProcessing,
         StoreVectors, IndexFails, MarkDegraded, Ack, Raise, Guarded, Retry,
         GiveUp, MarkFailed, Reject, AckRetryFails, ExhaustFails, Crash, Leave,
         Goto, At, Pc
    <3>2. ~task'[w].current
      <4>1. CASE task' = [task EXCEPT ![w] = Idle]
        BY <1>1, <4>1 DEF TypeOK, Idle
      <4>2. ASSUME NEW pc \in Pc, task[w].pc # "embed",
                   task' = [task EXCEPT ![w].pc = pc]
            PROVE  ~task'[w].current
        BY <2>1, <4>2 DEF IInv, Attached, TypeOK, Task
      <4>3. ASSUME NEW pc \in Pc,
                   task' = [task EXCEPT ![w].pc = pc, ![w].current = FALSE]
            PROVE  ~task'[w].current
        BY <2>1, <4>3 DEF IInv, TypeOK, Task
      <4> QED
        BY <3>1, <4>1, <4>2, <4>3
    <3>3. v # w /\ task'[v] = task[v]
      BY <1>5, <3>1, <3>2 DEF IInv, TypeOK
    <3> QED
      BY <1>2, <1>5, <3>3 DEF IInv, Attached
  <2> QED
    BY <2>2, <2>3, <2>4
<1>6. Attached'
  BY <1>2, <1>3, <1>4, <1>5 DEF IInv, Attached
<1>7. RevokedHoldsNothing'
  <2> SUFFICES ASSUME NEW d \in Document, status'[d] = "revoked"
               PROVE  acl'[d] = "none" /\ ~indexed'[d]
    BY DEF RevokedHoldsNothing
  <2>1. acl[d] = "none" /\ ~indexed[d]
    BY <1>3 DEF IInv, RevokedHoldsNothing
  <2> QED
    BY <1>2, <1>4, <2>1
<1>8. AclFollowsScope'
  BY <1>2 DEF IInv, AclFollowsScope
<1> QED
  BY <1>6, <1>7, <1>8

-----------------------------------------------------------------------------
(* The theorems                                                            *)

LEMMA InitIInv == Init => IInv
<1> SUFFICES ASSUME Init PROVE IInv
  OBVIOUS
<1>1. TypeOK
  BY InitTypeOK
<1>2. Known /\ Attached
  BY DEF Init, Known, Attached, Idle
<1>3. RevokedHoldsNothing /\ AclFollowsScope
  BY DEF Init, RevokedHoldsNothing, AclFollowsScope
<1> QED
  BY <1>1, <1>2, <1>3 DEF IInv

\* The invariant is inductive.
LEMMA NextIInv == IInv /\ [Next]_vars => IInv'
<1> SUFFICES ASSUME IInv, [Next]_vars PROVE IInv'
  OBVIOUS
<1>1. TypeOK'
  BY NextTypeOK DEF IInv
<1>2. ASSUME NEW d \in Document, Request(d) PROVE IInv'
  BY <1>1, <1>2, RequestKnown, RequestHolds DEF IInv
<1>3. ASSUME NEW w \in Worker, NEW d \in Document, NEW n \in Tries,
             Deliver(w, d, n)
      PROVE  IInv'
  BY <1>1, <1>3, DeliverKnown, DeliverHolds DEF IInv
<1>4. ASSUME NEW w \in Worker, Works(w) PROVE IInv'
  BY <1>1, <1>4, WorkKnown, MarkReadyHolds, WorkHolds DEF IInv
<1>5. CASE UNCHANGED vars
  BY <1>5 DEF vars, IInv, TypeOK, Known, Attached, RevokedHoldsNothing,
     AclFollowsScope
<1> QED
  BY <1>2, <1>3, <1>4, <1>5 DEF Next, Works

\* The invariant holds in every reachable state.
LEMMA Invariance == Spec => []IInv
BY InitIInv, NextIInv, PTL DEF Spec

\* Rows, messages and tasks keep their types, whatever the workers and the
\* broker do.
THEOREM TypeCorrect == Spec => []TypeOK
<1>1. IInv => TypeOK
  BY DEF IInv
<1> QED
  BY <1>1, Invariance, PTL

\* While a document stays revoked, no chunk, snapshot or vector of it exists,
\* although workers may be embedding the chunks that were deleted.
THEOREM RevocationIsComplete == Spec => []RevokedHoldsNothing
<1>1. IInv => RevokedHoldsNothing
  BY DEF IInv
<1> QED
  BY <1>1, Invariance, PTL

\* Retrieval admits whom the scope of the document admits, whatever order
\* promotions and repeated ingestions come in.
THEOREM AccessFollowsScope == Spec => []AclFollowsScope
<1>1. IInv => AclFollowsScope
  BY DEF IInv
<1> QED
  BY <1>1, Invariance, PTL

-----------------------------------------------------------------------------
(* No document is forgotten                                                *)

\* A task at one of these points has yet to write the outcome of its message
\* or to hand the message on.
Undecided == {"read", "mark", "ready", "failing", "exhaust"}

Accounted(d) ==
  \/ \E n \in Tries : queue[d][n] > 0
  \/ \E w \in Worker : task[w].pc \in Undecided /\ task[w].doc = d
  \/ upload[d] \in {"publish", "unpublished"}
  \/ lapsed[d]
  \/ dead[d]

\* NoneForgotten is not inductive: the task in flight may be about to leave.
\* One that is undecided always hands on what it owes.
Pending ==
  \A d \in Document : status[d] \in {"uploaded", "processing"} => Accounted(d)

\* An upload is accounted for by its request, then by its message.
LEMMA RequestPending ==
  ASSUME TypeOK, Pending, NEW c \in Document, Request(c)
  PROVE  Pending'
<1> SUFFICES ASSUME NEW d \in Document, status'[d] \in {"uploaded", "processing"}
             PROVE  Accounted(d)'
  BY DEF Pending
<1>1. CASE CreateDocument(c)
  BY <1>1 DEF CreateDocument, broker, TypeOK, Pending, Accounted
<1>2. CASE Publish(c)
  <2>1. CASE d = c
    <3>1. queue'[d][0] > 0 /\ 0 \in Tries
      BY <1>2, <2>1 DEF Publish, Enqueue, TypeOK, Tries
    <3> QED
      BY <3>1 DEF Accounted
  <2>2. CASE d # c
    <3>1. /\ UNCHANGED <<status, task, lapsed, dead>>
          /\ queue'[d] = queue[d] /\ upload'[d] = upload[d]
      BY <1>2, <2>2 DEF Publish, Enqueue, row, TypeOK
    <3> QED
      BY <3>1 DEF Pending, Accounted
  <2> QED
    BY <2>1, <2>2
<1>3. CASE PublishFails(c)
  <2>1. CASE d = c
    <3>1. upload'[d] = "unpublished"
      BY <1>3, <2>1 DEF PublishFails, TypeOK
    <3> QED
      BY <3>1 DEF Accounted
  <2>2. CASE d # c
    <3>1. /\ UNCHANGED <<status, task, lapsed, dead>>
          /\ queue'[d] = queue[d] /\ upload'[d] = upload[d]
      BY <1>3, <2>2 DEF PublishFails, Enqueue, row, TypeOK
    <3> QED
      BY <3>1 DEF Pending, Accounted
  <2> QED
    BY <2>1, <2>2
<1>4. CASE Promote(c)
  BY <1>4 DEF Promote, broker, Pending, Accounted
<1>5. CASE Revoke(c)
  <2>1. status'[d] = status[d]
    BY <1>5 DEF Revoke, TypeOK
  <2>2. \A w \in Worker : task'[w].pc = task[w].pc /\ task'[w].doc = task[w].doc
    <3>1. task' = Outdated(c)
      BY <1>5 DEF Revoke
    <3> QED
      BY <3>1, OutdatedType
  <2>3. UNCHANGED <<queue, upload, lapsed, dead>>
    BY <1>5 DEF Revoke, broker
  <2> QED
    BY <2>1, <2>2, <2>3 DEF Pending, Accounted
<1> QED
  BY <1>1, <1>2, <1>3, <1>4, <1>5 DEF Request

\* A message that is taken becomes an undecided task.
LEMMA DeliverPending ==
  ASSUME TypeOK, Pending, NEW v \in Worker, NEW c \in Document, NEW m \in Tries,
         Deliver(v, c, m)
  PROVE  Pending'
<1> SUFFICES ASSUME NEW d \in Document, status'[d] \in {"uploaded", "processing"}
             PROVE  Accounted(d)'
  BY DEF Pending
<1>1. task'[v].pc \in Undecided /\ task'[v].doc = c
  BY DEF Deliver, TypeOK, Undecided
<1>2. CASE d = c
  BY <1>1, <1>2 DEF Accounted
<1>3. CASE d # c
  <2>1. queue'[d] = queue[d] /\ UNCHANGED <<status, upload, lapsed, dead>>
    BY <1>3 DEF Deliver, row, TypeOK
  <2>2. task[v].pc \notin Undecided
    BY DEF Deliver, At, Undecided
  <2>3. \A w \in Worker : w # v => task'[w] = task[w]
    BY DEF Deliver, TypeOK
  <2> QED
    BY <2>1, <2>2, <2>3 DEF Pending, Accounted
<1> QED
  BY <1>2, <1>3

\* Nothing that accounts for a document disappears under a worker's step,
\* other than the task that makes it.
LEMMA WorkKeepsAccounts ==
  ASSUME TypeOK, NEW w \in Worker, Works(w), NEW d \in Document
  PROVE  /\ \A n \in Tries : queue[d][n] > 0 => queue'[d][n] > 0
         /\ upload' = upload
         /\ lapsed[d] => lapsed'[d]
         /\ dead[d] => dead'[d]
         /\ d # task[w].doc => status'[d] = status[d]
<1>0. task[w].doc \in Document /\ task[w].tries \in Tries
  BY WorkKeepsTasks DEF TypeOK, Task
<1>1. ASSUME NEW c \in Document, NEW m \in Tries, Enqueue(c, m),
             NEW n \in Tries, queue[d][n] > 0
      PROVE  queue'[d][n] > 0
  BY <1>1 DEF Enqueue, TypeOK
<1>2. \/ queue' = queue
      \/ \E n \in Tries : Enqueue(task[w].doc, n)
  <2>1. CASE Retry(w)
    <3>1. task[w].tries + 1 \in Tries
      BY <1>0, <2>1 DEF Retry, Tries
    <3> QED
      BY <2>1, <3>1 DEF Retry
  <2>2. CASE ~Retry(w)
    BY <1>0, <2>2 DEF Works, Process, Recover, Break, Read, MarkProcessing,
       MarkReady, SelectChunks, StoreVectors, IndexFails, MarkDegraded, Ack,
       Raise, GiveUp, MarkFailed, Reject, AckRetryFails, ExhaustFails,
       LoseConnection, Crash, Requeue, broker
  <2> QED
    BY <2>1, <2>2
<1>3. lapsed' = lapsed \/ Lapse(task[w].doc)
  BY DEF Works, Process, Recover, Break, Read, MarkProcessing,
     MarkReady, SelectChunks, StoreVectors, IndexFails, MarkDegraded, Ack,
     Raise, Retry, GiveUp, MarkFailed, Reject, AckRetryFails, ExhaustFails,
     LoseConnection, Crash, Abandon
<1>4. dead' = dead \/ dead' = [dead EXCEPT ![task[w].doc] = TRUE]
  BY DEF Works, Process, Recover, Break, Read, MarkProcessing,
     MarkReady, SelectChunks, StoreVectors, IndexFails, MarkDegraded, Ack,
     Raise, Retry, GiveUp, MarkFailed, Reject, AckRetryFails, ExhaustFails,
     LoseConnection, Crash, DeadLetter, broker
<1>5. \/ status' = status
      \/ \E s \in DocumentStatus : status' = [status EXCEPT ![task[w].doc] = s]
  BY DEF Works, Process, Recover, Break, Read, MarkProcessing,
     MarkReady, SelectChunks, StoreVectors, IndexFails, MarkDegraded, Ack,
     Raise, Retry, GiveUp, MarkFailed, Reject, AckRetryFails, ExhaustFails,
     LoseConnection, Crash, row, DocumentStatus
<1>6. upload' = upload
  BY WorkConcernsItsDocument
<1>7. lapsed[d] => lapsed'[d]
  BY <1>3 DEF Lapse, TypeOK
<1>8. dead[d] => dead'[d]
  BY <1>4 DEF TypeOK
<1>9. d # task[w].doc => status'[d] = status[d]
  BY <1>5 DEF TypeOK
<1> QED
  BY <1>0, <1>1, <1>2, <1>6, <1>7, <1>8, <1>9

\* A task that is no longer undecided has written an outcome.
LEMMA WorkPending ==
  ASSUME TypeOK, Pending, NEW w \in Worker, Works(w)
  PROVE  Pending'
<1> SUFFICES ASSUME NEW d \in Document, status'[d] \in {"uploaded", "processing"}
             PROVE  Accounted(d)'
  BY DEF Pending
<1>0. /\ task[w].pc # "idle" /\ task[w].doc \in Document
      /\ task[w] \in Task /\ task[w].tries \in Tries
  BY WorkKeepsTasks DEF TypeOK, Task
\* What other tasks, the queue and the traces say of d they still say.
<1>1. ASSUME Accounted(d), task[w].doc # d \/ task[w].pc \notin Undecided
      PROVE  Accounted(d)'
  <2>1. ASSUME NEW v \in Worker, v # w, task[v].pc \in Undecided,
               task[v].doc = d
        PROVE  task'[v].pc \in Undecided /\ task'[v].doc = d
    <3>1. task'[v].pc = task[v].pc /\ task'[v].pc # "idle"
      BY <2>1, WorkKeepsTasks DEF Undecided
    <3> QED
      BY <2>1, <3>1, WorkKeepsTasks
  <2>2. ASSUME NEW v \in Worker, task[v].pc \in Undecided, task[v].doc = d
        PROVE  Accounted(d)'
    <3>1. v # w
      BY <1>1, <2>2
    <3> QED
      BY <2>1, <2>2, <3>1 DEF Accounted
  <2> QED
    BY <1>1, <2>2, WorkKeepsAccounts DEF Accounted
<1>2. CASE d # task[w].doc
  BY <1>1, <1>2, WorkKeepsAccounts DEF Pending
<1>3. CASE d = task[w].doc /\ task[w].pc \notin Undecided /\ status'[d] = status[d]
  BY <1>1, <1>3 DEF Pending
\* An undecided task that goes on stays so, leaves a message or a trace.
<1>4. CASE d = task[w].doc /\ task'[w].pc \in Undecided
  <2>1. task'[w].doc = d
    BY <1>4, WorkKeepsTasks DEF Undecided
  <2> QED
    BY <1>4, <2>1 DEF Accounted
<1>5. CASE d = task[w].doc /\ (lapsed'[d] \/ dead'[d])
  BY <1>5 DEF Accounted
<1>6. ASSUME d = task[w].doc, NEW n \in Tries, Enqueue(d, n) PROVE Accounted(d)'
  <2>1. queue'[d][n] > 0
    BY <1>6 DEF Enqueue, TypeOK
  <2> QED
    BY <2>1 DEF Accounted
<1>7. ASSUME d = task[w].doc, NEW pc \in Undecided, task' = [task EXCEPT ![w].pc = pc]
      PROVE  Accounted(d)'
  BY <1>0, <1>4, <1>7 DEF TypeOK, Task
<1>8. CASE d = task[w].doc /\ Process(w)
  <2>1. CASE Read(w)
    <3>1. Goto(w, "mark") \/ lapsed'[d]
      BY <1>8, <2>1 DEF Read, Lapse, TypeOK
    <3> QED
      BY <1>5, <1>7, <1>8, <3>1 DEF Goto, Undecided
  <2>2. CASE MarkProcessing(w)
    BY <1>7, <1>8, <2>2 DEF MarkProcessing, Goto, Undecided
  <2>3. CASE MarkReady(w)
    <3>1. status'[d] = "ready"
      BY <1>8, <2>3 DEF MarkReady, TypeOK
    <3> QED
      BY <3>1
  <2>4. CASE SelectChunks(w) \/ StoreVectors(w) \/ IndexFails(w)
             \/ MarkDegraded(w) \/ Ack(w)
    BY <1>3, <1>8, <2>4 DEF SelectChunks, StoreVectors, IndexFails, MarkDegraded,
       Ack, At, row, Undecided
  <2> QED
    BY <1>8, <2>1, <2>2, <2>3, <2>4 DEF Process
<1>9. CASE d = task[w].doc /\ Recover(w)
  <2>1. CASE Raise(w)
    BY <1>7, <1>9, <2>1 DEF Raise, Goto, Undecided
  <2>2. CASE Retry(w)
    <3>1. task[w].tries + 1 \in Tries
      BY <1>0, <2>2 DEF Retry, Tries
    <3> QED
      BY <1>6, <1>9, <2>2, <3>1 DEF Retry
  <2>3. CASE GiveUp(w)
    BY <1>7, <1>9, <2>3 DEF GiveUp, Goto, Undecided
  <2>4. CASE MarkFailed(w)
    <3>1. status'[d] = "failed"
      BY <1>9, <2>4 DEF MarkFailed, TypeOK
    <3> QED
      BY <3>1
  <2>5. CASE Reject(w) \/ AckRetryFails(w)
    BY <1>3, <1>9, <2>5 DEF Reject, AckRetryFails, At, row, Undecided
  <2> QED
    BY <1>9, <2>1, <2>2, <2>3, <2>4, <2>5 DEF Recover
<1>10. CASE d = task[w].doc /\ Break(w)
  <2>1. CASE ExhaustFails(w)
    <3>1. CASE task[w].held
      BY <1>5, <1>10, <2>1, <3>1 DEF ExhaustFails, DeadLetter, TypeOK
    <3>2. CASE ~task[w].held
      BY <1>5, <1>10, <2>1, <3>2 DEF ExhaustFails, Abandon, Lapse, TypeOK
    <3> QED
      BY <3>1, <3>2
  <2>2. CASE LoseConnection(w)
    <3>1. task[w].held /\ Requeue(w)
      BY <2>2 DEF LoseConnection
    <3>2. Enqueue(d, task[w].tries)
      BY <1>10, <3>1 DEF Requeue
    <3> QED
      BY <1>0, <1>6, <1>10, <3>2
  <2>3. CASE Crash(w)
    <3>1. CASE task[w].held
      <4>1. Enqueue(d, task[w].tries)
        BY <1>10, <2>3, <3>1 DEF Crash, Requeue
      <4> QED
        BY <1>0, <1>6, <1>10, <4>1
    <3>2. CASE ~task[w].held
      BY <1>5, <1>10, <2>3, <3>2 DEF Crash, Abandon, Lapse, TypeOK
    <3> QED
      BY <3>1, <3>2
  <2> QED
    BY <1>10, <2>1, <2>2, <2>3 DEF Break
<1> QED
  BY <1>2, <1>8, <1>9, <1>10 DEF Works

\* Nothing that is uploaded or being processed is without a message, a worker
\* or a trace of what became of them.
THEOREM NothingForgotten == Spec => []NoneForgotten
<1>1. Init => Pending
  BY DEF Init, Pending, Accounted
<1>2. TypeOK /\ Pending /\ [Next]_vars => Pending'
  <2> SUFFICES ASSUME TypeOK, Pending, [Next]_vars PROVE Pending'
    OBVIOUS
  <2>1. CASE Next
    BY <2>1, RequestPending, DeliverPending, WorkPending DEF Next, Works
  <2>2. CASE UNCHANGED vars
    BY <2>2 DEF vars, Pending, Accounted
  <2> QED
    BY <2>1, <2>2
<1>3. TypeOK /\ Pending => NoneForgotten
  BY DEF TypeOK, Pending, Accounted, NoneForgotten, InFlight, Undecided
<1> QED
  BY <1>1, <1>2, <1>3, TypeCorrect, PTL DEF Spec

-----------------------------------------------------------------------------
(* The index is honest                                                     *)

\* A task at one of these points has yet to store the vectors, to say that they
\* are missing, or to hand its message on.
Unsettled == Undecided \cup {"select", "embed", "degrade"}

Settling(d) ==
  \/ \E n \in Tries : queue[d][n] > 0
  \/ \E w \in Worker : task[w].pc \in Unsettled /\ task[w].doc = d
  \/ lapsed[d]
  \/ dead[d]

Said(d) == indexed[d] \/ degraded[d]

\* The task that made a document ready is unsettled until it has said so, and a
\* task that takes the vectors away makes the document ready again.
Reported == \A d \in Document : status[d] = "ready" => Said(d) \/ Settling(d)

LEMMA RequestReported ==
  ASSUME TypeOK, Reported, NEW c \in Document, Request(c)
  PROVE  Reported'
<1> SUFFICES ASSUME NEW d \in Document, status'[d] = "ready"
             PROVE  (Said(d) \/ Settling(d))'
  BY DEF Reported
<1>1. CASE CreateDocument(c) \/ Promote(c)
  <2>1. status'[d] = status[d]
    BY <1>1 DEF CreateDocument, Promote, TypeOK
  <2> QED
    BY <1>1, <2>1 DEF CreateDocument, Promote, broker, derived, Reported, Said, Settling
<1>2. CASE Publish(c) \/ PublishFails(c)
  <2>1. UNCHANGED <<status, task, lapsed, dead, indexed, degraded>>
    BY <1>2 DEF Publish, PublishFails, row, derived
  <2>2. queue' = queue \/ Enqueue(c, 0)
    BY <1>2 DEF Publish, PublishFails
  <2>3. ASSUME NEW n \in Tries, queue[d][n] > 0 PROVE queue'[d][n] > 0
    <3>1. queue[d][n] \in Nat /\ queue[c] \in [Tries -> Nat] /\ 0 \in Tries
      BY DEF TypeOK, Tries
    <3>2. CASE Enqueue(c, 0)
      BY <2>3, <3>1, <3>2 DEF Enqueue, TypeOK
    <3> QED
      BY <2>2, <2>3, <3>2
  <2> QED
    BY <2>1, <2>3 DEF Reported, Said, Settling
<1>3. CASE Revoke(c)
  <2>1. d # c
    BY <1>3 DEF Revoke, TypeOK
  <2>2. status'[d] = status[d] /\ degraded'[d] = degraded[d] /\ indexed'[d] = indexed[d]
    BY <1>3, <2>1 DEF Revoke, TypeOK
  <2>3. \A w \in Worker : task'[w].pc = task[w].pc /\ task'[w].doc = task[w].doc
    <3>1. task' = Outdated(c)
      BY <1>3 DEF Revoke
    <3> QED
      BY <3>1, OutdatedType
  <2>4. UNCHANGED <<queue, lapsed, dead>>
    BY <1>3 DEF Revoke, broker
  <2> QED
    BY <2>2, <2>3, <2>4 DEF Reported, Said, Settling
<1> QED
  BY <1>1, <1>2, <1>3 DEF Request

LEMMA DeliverReported ==
  ASSUME TypeOK, Reported, NEW v \in Worker, NEW c \in Document, NEW m \in Tries,
         Deliver(v, c, m)
  PROVE  Reported'
<1> SUFFICES ASSUME NEW d \in Document, status'[d] = "ready"
             PROVE  (Said(d) \/ Settling(d))'
  BY DEF Reported
<1>1. task'[v].pc \in Unsettled /\ task'[v].doc = c
  BY DEF Deliver, TypeOK, Undecided, Unsettled
<1>2. CASE d = c
  BY <1>1, <1>2 DEF Settling
<1>3. CASE d # c
  <2>1. /\ queue'[d] = queue[d]
        /\ UNCHANGED <<status, degraded, indexed, lapsed, dead>>
    BY <1>3 DEF Deliver, row, derived, TypeOK
  <2>2. task[v].pc \notin Unsettled
    BY DEF Deliver, At, Undecided, Unsettled
  <2>3. \A w \in Worker : w # v => task'[w] = task[w]
    BY DEF Deliver, TypeOK
  <2> QED
    BY <2>1, <2>2, <2>3 DEF Reported, Said, Settling
<1> QED
  BY <1>2, <1>3

\* Other documents keep their vectors and what is said of them, and the
\* document at hand loses them only when it is made ready again.
LEMMA WorkKeepsIndex ==
  ASSUME TypeOK, NEW w \in Worker, Works(w), NEW d \in Document,
         d # task[w].doc \/ ~(MarkReady(w) \/ MarkFailed(w))
  PROVE  Said(d) => Said(d)'
<1>1. CASE MarkReady(w) \/ MarkFailed(w)
  BY <1>1 DEF MarkReady, MarkFailed, derived, TypeOK, Said
<1>2. CASE StoreVectors(w) \/ MarkDegraded(w)
  BY <1>2 DEF StoreVectors, MarkDegraded, row, derived, TypeOK, Said
<1>3. CASE ~(MarkReady(w) \/ MarkFailed(w)) /\ ~(StoreVectors(w) \/ MarkDegraded(w))
  <2>1. UNCHANGED <<degraded, indexed>>
    BY <1>3 DEF Works, Process, Recover, Break, Read, MarkProcessing, SelectChunks,
       IndexFails, Ack, Raise, Retry, GiveUp, Reject, AckRetryFails, ExhaustFails,
       LoseConnection, Crash, row, derived
  <2> QED
    BY <2>1 DEF Said
<1> QED
  BY <1>1, <1>2, <1>3

\* A task that is no longer unsettled has said what became of the index.
LEMMA WorkReported ==
  ASSUME TypeOK, Reported, NEW w \in Worker, Works(w)
  PROVE  Reported'
<1> SUFFICES ASSUME NEW d \in Document, status'[d] = "ready"
             PROVE  (Said(d) \/ Settling(d))'
  BY DEF Reported
<1>0. /\ task[w].pc # "idle" /\ task[w].doc \in Document
      /\ task[w] \in Task /\ task[w].tries \in Tries
  BY WorkKeepsTasks DEF TypeOK, Task
\* What other tasks, the queue and the traces say of d they still say.
<1>1. ASSUME Settling(d), task[w].doc # d \/ task[w].pc \notin Unsettled
      PROVE  Settling(d)'
  <2>1. ASSUME NEW v \in Worker, task[v].pc \in Unsettled, task[v].doc = d
        PROVE  Settling(d)'
    <3>1. v # w
      BY <1>1, <2>1
    <3>2. task'[v].pc = task[v].pc /\ task'[v].pc # "idle"
      BY <2>1, <3>1, WorkKeepsTasks DEF Unsettled, Undecided
    <3>3. task'[v].doc = d
      BY <2>1, <3>2, WorkKeepsTasks
    <3> QED
      BY <2>1, <3>2, <3>3 DEF Settling
  <2> QED
    BY <1>1, <2>1, WorkKeepsAccounts DEF Settling
<1>2. CASE d # task[w].doc
  BY <1>1, <1>2, WorkKeepsAccounts, WorkKeepsIndex DEF Reported
<1>3. CASE /\ d = task[w].doc /\ task[w].pc \notin Unsettled
           /\ status'[d] = status[d] /\ ~(MarkReady(w) \/ MarkFailed(w))
  BY <1>1, <1>3, WorkKeepsIndex DEF Reported
\* An unsettled task that goes on stays so, leaves a message or a trace.
<1>4. ASSUME d = task[w].doc, task'[w].pc \in Unsettled
      PROVE  Settling(d)'
  <2>1. task'[w].doc = d
    BY <1>4, WorkKeepsTasks DEF Unsettled, Undecided
  <2> QED
    BY <1>4, <2>1 DEF Settling
<1>5. CASE lapsed'[d] \/ dead'[d]
  BY <1>5 DEF Settling
<1>6. ASSUME NEW n \in Tries, Enqueue(d, n) PROVE Settling(d)'
  <2>1. queue'[d][n] > 0
    BY <1>6 DEF Enqueue, TypeOK
  <2> QED
    BY <2>1 DEF Settling
<1>7. ASSUME d = task[w].doc, NEW pc \in Unsettled, task' = [task EXCEPT ![w].pc = pc]
      PROVE  Settling(d)'
  <2>1. task'[w].pc = pc
    BY <1>0, <1>7 DEF TypeOK, Task
  <2> QED
    BY <1>4, <1>7, <2>1
<1>8. CASE d = task[w].doc /\ Process(w)
  <2>1. CASE Read(w)
    <3>1. Goto(w, "mark") \/ lapsed'[d]
      BY <1>8, <2>1 DEF Read, Lapse, TypeOK
    <3> QED
      BY <1>5, <1>7, <1>8, <3>1 DEF Goto, Undecided, Unsettled
  <2>2. CASE MarkProcessing(w)
    BY <1>7, <1>8, <2>2 DEF MarkProcessing, Goto, Undecided, Unsettled
  <2>3. CASE MarkReady(w)
    <3> DEFINE t == Outdated(d)
    <3>1. t \in [Worker -> Task]
      BY OutdatedType
    <3>2. task' = [t EXCEPT ![w].pc = "select"]
      BY <1>8, <2>3 DEF MarkReady
    <3> HIDE DEF t
    <3>3. task'[w].pc = "select"
      BY <3>1, <3>2 DEF Task
    <3> QED
      BY <1>4, <1>8, <3>3 DEF Unsettled
  <2>4. CASE SelectChunks(w)
    <3>1. status[d] = "ready"
      BY <2>4 DEF SelectChunks, row
    <3>2. task'[w].pc = "embed"
      BY <1>0, <1>8, <2>4, <3>1 DEF SelectChunks, TypeOK, Task
    <3> QED
      BY <1>4, <1>8, <3>2 DEF Unsettled
  <2>5. CASE StoreVectors(w)
    BY <1>8, <2>5 DEF StoreVectors, TypeOK, Said
  <2>6. CASE IndexFails(w)
    <3>1. task'[w].pc = "degrade"
      BY <1>0, <2>6 DEF IndexFails, TypeOK, Task
    <3> QED
      BY <1>4, <1>8, <3>1 DEF Unsettled
  <2>7. CASE MarkDegraded(w)
    BY <1>8, <2>7 DEF MarkDegraded, TypeOK, Said
  <2>8. CASE Ack(w)
    <3>1. task[w].pc \notin Unsettled /\ status' = status /\ ~(MarkReady(w) \/ MarkFailed(w))
      BY <2>8 DEF Ack, At, row, Undecided, Unsettled, MarkReady, MarkFailed
    <3> QED
      BY <1>3, <1>8, <3>1
  <2> QED
    BY <1>8, <2>1, <2>2, <2>3, <2>4, <2>5, <2>6, <2>7, <2>8 DEF Process
<1>9. CASE d = task[w].doc /\ Recover(w)
  <2>1. CASE Raise(w)
    BY <1>7, <1>9, <2>1 DEF Raise, Goto, Undecided, Unsettled
  <2>2. CASE Retry(w)
    <3>1. task[w].tries + 1 \in Tries
      BY <1>0, <2>2 DEF Retry, Tries
    <3> QED
      BY <1>6, <1>9, <2>2, <3>1 DEF Retry
  <2>3. CASE GiveUp(w)
    BY <1>7, <1>9, <2>3 DEF GiveUp, Goto, Undecided, Unsettled
  <2>4. CASE MarkFailed(w)
    <3>1. status'[d] = "failed"
      BY <1>9, <2>4 DEF MarkFailed, TypeOK
    <3> QED
      BY <3>1
  <2>5. CASE Reject(w) \/ AckRetryFails(w)
    <3>1. task[w].pc \notin Unsettled /\ status' = status /\ ~(MarkReady(w) \/ MarkFailed(w))
      BY <2>5 DEF Reject, AckRetryFails, At, row, Undecided, Unsettled, MarkReady, MarkFailed
    <3> QED
      BY <1>3, <1>9, <3>1
  <2> QED
    BY <1>9, <2>1, <2>2, <2>3, <2>4, <2>5 DEF Recover
<1>10. CASE d = task[w].doc /\ Break(w)
  <2>1. CASE ExhaustFails(w)
    <3>1. CASE task[w].held
      BY <1>5, <1>10, <2>1, <3>1 DEF ExhaustFails, DeadLetter, TypeOK
    <3>2. CASE ~task[w].held
      BY <1>5, <1>10, <2>1, <3>2 DEF ExhaustFails, Abandon, Lapse, TypeOK
    <3> QED
      BY <3>1, <3>2
  <2>2. CASE LoseConnection(w)
    <3>1. task[w].held /\ Requeue(w)
      BY <2>2 DEF LoseConnection
    <3>2. Enqueue(d, task[w].tries)
      BY <1>10, <3>1 DEF Requeue
    <3> QED
      BY <1>0, <1>6, <3>2
  <2>3. CASE Crash(w)
    <3>1. CASE task[w].held
      <4>1. Enqueue(d, task[w].tries)
        BY <1>10, <2>3, <3>1 DEF Crash, Requeue
      <4> QED
        BY <1>0, <1>6, <4>1
    <3>2. CASE ~task[w].held
      BY <1>5, <1>10, <2>3, <3>2 DEF Crash, Abandon, Lapse, TypeOK
    <3> QED
      BY <3>1, <3>2
  <2> QED
    BY <1>10, <2>1, <2>2, <2>3 DEF Break
<1> QED
  BY <1>2, <1>8, <1>9, <1>10 DEF Works

\* A ready document that nobody works on has its vectors or says that it lacks
\* them, whichever of several ingestions came last, unless a message of it is a
\* dead letter or was left halfway.
THEOREM ReadinessIsHonest == Spec => []IndexIsHonest
<1>1. Init => Reported
  BY DEF Init, Reported
<1>2. TypeOK /\ Reported /\ [Next]_vars => Reported'
  <2> SUFFICES ASSUME TypeOK, Reported, [Next]_vars PROVE Reported'
    OBVIOUS
  <2>1. CASE Next
    BY <2>1, RequestReported, DeliverReported, WorkReported DEF Next, Works
  <2>2. CASE UNCHANGED vars
    BY <2>2 DEF vars, Reported, Said, Settling
  <2> QED
    BY <2>1, <2>2
<1>3. Reported => IndexIsHonest
  BY DEF Reported, Said, Settling, IndexIsHonest, InFlight, Undecided, Unsettled
<1> QED
  BY <1>1, <1>2, <1>3, TypeCorrect, PTL DEF Spec

=============================================================================
