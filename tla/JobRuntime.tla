----------------------------- MODULE JobRuntime -----------------------------
(***************************************************************************)
(* Worker processes (jobs/application/runtime.py) executing the jobs of    *)
(* the ledger, and the users of the jobs API.                              *)
(*                                                                         *)
(* A worker runs up to MaximumConcurrency tasks; a task is one call of     *)
(* execute_once and its control point is `pc`:                             *)
(*   recover    about to call recover_expired                              *)
(*   acquire    about to call acquire                                      *)
(*   check      leased, about to read the job for a cancellation           *)
(*   authorize  about to revalidate the delegated authority                *)
(*   process    inside processor.process                                   *)
(*   insert     inside save_checkpoint, after it has seen the lease        *)
(*   commit     about to call finish_attempt inside the try block          *)
(*   count      in the except block, about to count the attempts           *)
(*   abort      about to call finish_attempt inside an except block        *)
(***************************************************************************)
EXTENDS JobLedger, Sequences, FiniteSets

CONSTANTS
  Worker,              \* worker processes
  MaximumConcurrency,  \* tasks a worker runs at a time
  RegisteredKinds,     \* the families a worker has processors for, in order
  NoJob,               \* the job field of a task that holds none
  MaxRetries,          \* bound: explicit retries of one job
  MaxDisruptions       \* bound: disruptions, planned stops and database errors

ASSUME ConcurrencyAssumption == MaximumConcurrency \in Nat \ {0}
ASSUME RegisteredAssumption == RegisteredKinds \in Seq(Kind)
ASSUME NoJobAssumption == NoJob \notin Job
ASSUME BoundsAssumption == MaxRetries \in Nat /\ MaxDisruptions \in Nat

VARIABLES
  task,        \* the tasks of every worker
  draining,    \* the stop event of a worker is set
  disruptions  \* disruptions so far

vars == <<status, cancel, due, attempts, open, lease, expired, output,
          checkpoints, retries, task, draining, disruptions>>

Slot == Worker \X (1..MaximumConcurrency)

Pc == {"idle", "recover", "acquire", "check", "authorize", "process",
       "insert", "commit", "count", "abort"}

\* Control points at which the task believes it holds a lease.
Leased == {"check", "authorize", "process", "insert", "commit", "count",
           "abort"}

Task == [pc : Pc, kinds : SUBSET Kind, job : Job \cup {NoJob}, token : Nat,
         target : JobStatus]

Idle == [pc |-> "idle", kinds |-> {}, job |-> NoJob, token |-> 0,
         target |-> "queued"]

Init ==
  /\ LedgerInit
  /\ task = [s \in Slot |-> Idle]
  /\ draining = [w \in Worker |-> FALSE]
  /\ disruptions = 0

-----------------------------------------------------------------------------
(* The polling loop of run *)

FreeSlots(w) == {i \in 1..MaximumConcurrency : task[<<w, i>>].pc = "idle"}

\* The position, among the free slots, of the one a spawned task occupies.
Rank(w, i) == Cardinality({n \in FreeSlots(w) : n <= i})

\* One round: `for kind in registered_kinds[:capacity]` spawns one task for
\* each of the first `capacity` families.
Poll(w) ==
  /\ ~draining[w]
  /\ FreeSlots(w) # {}
  /\ RegisteredKinds # <<>>
  /\ task' = [s \in Slot |->
                IF /\ s[1] = w
                   /\ s[2] \in FreeSlots(w)
                   /\ Rank(w, s[2]) <= Len(RegisteredKinds)
                THEN [Idle EXCEPT !.pc = "recover",
                                  !.kinds = {RegisteredKinds[Rank(w, s[2])]}]
                ELSE task[s]]
  /\ UNCHANGED <<ledgerVars, draining, disruptions>>

Disrupt ==
  /\ disruptions < MaxDisruptions
  /\ disruptions' = disruptions + 1

\* The stop event: no further rounds, the active tasks are awaited.
Stop(w) ==
  /\ ~draining[w]
  /\ draining' = [draining EXCEPT ![w] = TRUE]
  /\ Disrupt
  /\ UNCHANGED <<ledgerVars, task>>

\* A drained worker process is started again.
Restart(w) ==
  /\ draining[w]
  /\ FreeSlots(w) = 1..MaximumConcurrency
  /\ draining' = [draining EXCEPT ![w] = FALSE]
  /\ UNCHANGED <<ledgerVars, task, disruptions>>

\* The process dies between two of its transactions and is started again:
\* its tasks and their heartbeats are gone, their leases are not.
Crash(w) ==
  /\ Disrupt
  /\ task' = [s \in Slot |-> IF s[1] = w THEN Idle ELSE task[s]]
  /\ draining' = [draining EXCEPT ![w] = FALSE]
  /\ UNCHANGED ledgerVars

-----------------------------------------------------------------------------
(* execute_once *)

At(s, pc) == task[s].pc = pc

Goto(s, pc) == task' = [task EXCEPT ![s].pc = pc]

GotoWith(s, pc, target) ==
  task' = [task EXCEPT ![s].pc = pc, ![s].target = target]

Leave(s) == task' = [task EXCEPT ![s] = Idle]

\* The task that acquired the current lease of the job is still running; its
\* heartbeats, progress reports and finish_attempt may lock the lease row.
Held(j) == \E s \in Slot : /\ task[s].pc \in Leased
                           /\ task[s].job = j
                           /\ task[s].token = lease[j]

Recover(s) ==
  /\ At(s, "recover")
  /\ \E skipped \in SUBSET {j \in Job : Held(j)} : RecoverExpired(skipped)
  /\ Goto(s, "acquire")
  /\ UNCHANGED <<draining, disruptions>>

AcquireJob(s) ==
  /\ At(s, "acquire")
  /\ \E k \in task[s].kinds : \E j \in Runnable(k) :
       /\ Acquire(j)
       /\ task' = [task EXCEPT ![s].pc = "check", ![s].job = j,
                               ![s].token = FreshToken(j)]
  /\ UNCHANGED <<draining, disruptions>>

\* No row qualifies; a statement the database refuses raises where nothing
\* catches it, and the task ends as well.
NothingToAcquire(s) ==
  /\ At(s, "acquire")
  /\ OuterJoinLocks => \A k \in task[s].kinds : Runnable(k) = {}
  /\ Leave(s)
  /\ UNCHANGED <<ledgerVars, draining, disruptions>>

\* get_internal: a cancellation requested before the work started.
CheckCancelled(s) ==
  /\ At(s, "check")
  /\ IF cancel[task[s].job]
     THEN GotoWith(s, "commit", "cancelled")
     ELSE Goto(s, "authorize")
  /\ UNCHANGED <<ledgerVars, draining, disruptions>>

\* resolve_delegated may find the authority intact, or revoked or changed.
\* It may also raise, like every call of the try block.
Authorize(s) ==
  /\ At(s, "authorize")
  /\ \/ Goto(s, "process")
     \/ GotoWith(s, "commit", "failed")
  /\ UNCHANGED <<ledgerVars, draining, disruptions>>

\* report: a cancellation surfaces as CancelledError, a lease that is lost or
\* lapsed as ConcurrentJobUpdateError.
Report(s) ==
  /\ At(s, "process")
  /\ \/ cancel[task[s].job] /\ GotoWith(s, "abort", "cancelled")
     \/ ~ProgressAllowed(task[s].job, task[s].token) /\ Goto(s, "count")
  /\ UNCHANGED <<ledgerVars, draining, disruptions>>

\* save: the unlocked read of the lease ...
BeginCheckpoint(s) ==
  /\ At(s, "process")
  /\ Goto(s, IF CheckpointLeaseSeen(task[s].job, task[s].token)
             THEN "insert" ELSE "count")
  /\ UNCHANGED <<ledgerVars, draining, disruptions>>

\* ... and the insert, which other transactions may have preceded.
InsertCheckpoint(s) ==
  /\ At(s, "insert")
  /\ \/ AppendCheckpoint(task[s].job, task[s].token) /\ Goto(s, "process")
     \/ open[task[s].job] = {} /\ Goto(s, "count") /\ UNCHANGED ledgerVars
  /\ UNCHANGED <<draining, disruptions>>

\* The processor returns a result, ...
ProcessorReturns(s) ==
  /\ At(s, "process")
  /\ GotoWith(s, "commit", "completed")
  /\ UNCHANGED <<ledgerVars, draining, disruptions>>

\* ... or some call of the try block raises.  A CancelledError is recorded as a
\* cancellation, also when nobody asked for one: the processor may raise it, and
\* a worker that is shut down cancels its tasks.
ProcessorRaises(s) ==
  /\ task[s].pc \in {"check", "authorize", "process", "insert", "commit"}
  /\ \/ Goto(s, "count")
     \/ GotoWith(s, "abort", "cancelled")
  /\ UNCHANGED <<ledgerVars, draining, disruptions>>

\* finish_attempt inside the try block: when it raises, the except block runs.
Commit(s) ==
  /\ At(s, "commit")
  /\ \/ /\ FinishAllowed(task[s].job, task[s].token, task[s].target)
        /\ FinishAttempt(task[s].job, task[s].token, task[s].target)
        /\ Leave(s)
     \/ /\ ~FinishAllowed(task[s].job, task[s].token, task[s].target)
        /\ Goto(s, "count")
        /\ UNCHANGED ledgerVars
  /\ UNCHANGED <<draining, disruptions>>

\* The except block reads the attempts of the job, whoever started them.
CountAttempts(s) ==
  /\ At(s, "count")
  /\ GotoWith(s, "abort", IF AttemptsExhausted(task[s].job)
                          THEN "dead_letter" ELSE "retry_scheduled")
  /\ UNCHANGED <<ledgerVars, draining, disruptions>>

\* finish_attempt inside an except block: when it raises, the task ends.
Abort(s) ==
  /\ At(s, "abort")
  /\ \/ /\ FinishAllowed(task[s].job, task[s].token, task[s].target)
        /\ FinishAttempt(task[s].job, task[s].token, task[s].target)
     \/ /\ ~FinishAllowed(task[s].job, task[s].token, task[s].target)
        /\ UNCHANGED ledgerVars
  /\ Leave(s)
  /\ UNCHANGED <<draining, disruptions>>

\* A database error, or a CancelledError, where nothing catches it ends the
\* task; `finally` stops its heartbeat, and the lease stays behind.
DatabaseError(s) ==
  /\ task[s].pc \in {"recover", "acquire", "count", "abort"}
  /\ Disrupt
  /\ Leave(s)
  /\ UNCHANGED <<ledgerVars, draining>>

-----------------------------------------------------------------------------
(* The users of the jobs API, and time *)

Dispatch(j) == Create(j) /\ UNCHANGED <<task, draining, disruptions>>

Cancel(j) == RequestCancel(j) /\ UNCHANGED <<task, draining, disruptions>>

Retry(j) ==
  /\ retries[j] < MaxRetries
  /\ ExplicitRetry(j)
  /\ UNCHANGED <<task, draining, disruptions>>

Expire(j) == LeaseExpires(j) /\ UNCHANGED <<task, draining, disruptions>>

Backoff(j) == BackoffEnds(j) /\ UNCHANGED <<task, draining, disruptions>>

Step(s) ==
  \/ Recover(s) \/ AcquireJob(s) \/ NothingToAcquire(s)
  \/ CheckCancelled(s) \/ Authorize(s)
  \/ Report(s) \/ BeginCheckpoint(s) \/ InsertCheckpoint(s)
  \/ ProcessorReturns(s) \/ ProcessorRaises(s)
  \/ Commit(s) \/ CountAttempts(s) \/ Abort(s) \/ DatabaseError(s)

User(j) == Dispatch(j) \/ Cancel(j) \/ Retry(j)

Next ==
  \/ \E s \in Slot : Step(s)
  \/ \E w \in Worker : Poll(w) \/ Stop(w) \/ Restart(w) \/ Crash(w)
  \/ \E j \in Job : User(j) \/ Expire(j) \/ Backoff(j)

Spec == Init /\ [][Next]_vars

\* What the scheduling of the program guarantees.  A task that has work to do
\* is eventually resumed by the event loop, and a processor eventually returns
\* or raises: execute_once gives it no time limit.  A stopped worker is
\* started again.  A lease expires only if its heartbeat is gone: nobody else
\* extends it.  Users, crashes and errors are under no obligation.
Fairness ==
  /\ \A s \in Slot : /\ WF_vars(Recover(s))
                     /\ SF_vars(AcquireJob(s))
                     /\ WF_vars(NothingToAcquire(s))
                     /\ WF_vars(CheckCancelled(s) \/ Authorize(s))
                     /\ WF_vars(ProcessorReturns(s) \/ ProcessorRaises(s))
                     /\ WF_vars(InsertCheckpoint(s))
                     /\ WF_vars(Commit(s))
                     /\ WF_vars(CountAttempts(s) \/ Abort(s))
  /\ \A w \in Worker : WF_vars(Poll(w)) /\ WF_vars(Restart(w))
  /\ \A j \in Job : /\ WF_vars(~Held(j) /\ Expire(j))
                    /\ WF_vars(Backoff(j))

FairSpec == Spec /\ Fairness

-----------------------------------------------------------------------------
(* The refinement of JobContract *)

PhaseOf ==
  [s \in JobStatus \cup {"absent"} |->
     CASE s \in {"queued", "retry_scheduled", "waiting_approval"} -> "pending"
       [] s = "running"                                  -> "owned"
       [] s \in {"failed", "dead_letter"}                -> "stopped"
       [] OTHER                                          -> s]

ContractView ==
  [j \in Job |-> [phase     |-> PhaseOf[status[j]],
                  attempt   |-> attempts[j],
                  result    |-> output[j],
                  allowance |-> MaximumAttempts + retries[j],
                  wish      |-> IF cancel[j] THEN "stop" ELSE "run"]]

Contract == INSTANCE JobContract WITH Allowance <- MaximumAttempts,
                                      view <- ContractView

\* The ledger under its workers, crashes and users keeps the promises of
\* JobContract: every transaction is, job by job, one of its moves.
ImplementsContract == Contract!Spec

-----------------------------------------------------------------------------
(* Properties *)

Checkpoint == [attempt : Nat, writer : Nat]

\* Every variable stays in its type: the status column only ever holds what
\* JobStatus(row.status) can read back, and a task holds a job of the ledger.
TypeOK ==
  /\ status \in [Job -> JobStatus \cup {"absent"}]
  /\ cancel \in [Job -> BOOLEAN]
  /\ due \in [Job -> BOOLEAN]
  /\ attempts \in [Job -> Nat]
  /\ open \in [Job -> SUBSET Nat]
  /\ lease \in [Job -> Nat]
  /\ expired \in [Job -> BOOLEAN]
  /\ output \in [Job -> Nat]
  /\ checkpoints \in [Job -> SUBSET Checkpoint]
  /\ retries \in [Job -> Nat]
  /\ task \in [Slot -> Task]
  /\ draining \in [Worker -> BOOLEAN]
  /\ disruptions \in Nat

\* A job is in the running state exactly while a lease row exists for it, and
\* that lease belongs to the newest attempt, which is not closed: no crash,
\* recovery or late finish leaves a running job without an owner or a lease on
\* a job that is not running.
LeaseIffRunning ==
  \A j \in Job : /\ lease[j] # 0 <=> status[j] = "running"
                 /\ lease[j] # 0 => /\ lease[j] = attempts[j]
                                    /\ lease[j] \in open[j]

\* The attempts of a job are bounded by its maximum, plus one for each explicit
\* retry, whether attempts end by failing or by a vanished worker.
BoundedAttempts ==
  \A j \in Job : attempts[j] <= MaximumAttempts + retries[j]

\* The stored result of a completed job is the result of its newest attempt: a
\* worker that outlived its lease never publishes over its successor.
OutputOfNewestAttempt ==
  \A j \in Job : status[j] = "completed" =>
                   output[j] = attempts[j] /\ output[j] \notin open[j]

\* A terminal job stays as it is, result included, until a user retries it, and
\* a completed or cancelled one stays forever.
TerminalIsFinal ==
  [][\A j \in Job : status[j] \in Terminal =>
       \/ status'[j] = status[j] /\ output'[j] = output[j]
       \/ /\ status[j] \in {"failed", "dead_letter"}
          /\ retries'[j] = retries[j] + 1]_vars

\* A live lease ends only by the hand of the task that holds it; anyone else has
\* to wait until it has lapsed.
LeaseEndsByHolder ==
  [][\A j \in Job : lease[j] # 0 /\ lease'[j] # lease[j] =>
       \/ expired[j]
       \/ \E s \in Slot : /\ task[s].job = j /\ task[s].token = lease[j]
                          /\ task[s].pc \in {"commit", "abort"}
                          /\ task'[s].pc = "idle"]_vars

\* Once cancellation is requested no further attempt of the job begins, not
\* after a crash and not after a failure, and only an explicit retry takes the
\* request back.
NoAttemptAfterCancel ==
  [][\A j \in Job : cancel[j] =>
       /\ attempts'[j] = attempts[j]
       /\ cancel'[j] \/ retries'[j] = retries[j] + 1]_vars

\* A job of the first registered family whose cancellation nobody requested
\* reaches a final state, through crashes, lapsed leases, failing processors and
\* retries.  Only the first family has a task in every round of run: of the
\* others it is not true (RegisteredKindsAreServed).  Nor is it true of any job
\* where the database refuses the lock of acquire (OuterJoinLocks = FALSE).
Settles ==
  \A j \in {i \in Job : RegisteredKinds # <<>> /\ KindOf[i] = RegisteredKinds[1]} :
    Exists(j) ~> status[j] \in Terminal \/ cancel[j]

\* save_checkpoint names the newest open attempt, which need not be the one that
\* writes: the lease may pass to another between its two reads.  It never names
\* an attempt older than the writer, nor one that does not exist.
CheckpointNotBeforeWriter ==
  \A j \in Job : \A c \in checkpoints[j] :
    c.writer <= c.attempt /\ c.attempt <= attempts[j]

-----------------------------------------------------------------------------
(* What the documentation says and the code does not keep *)

\* "cancellation ... stop[s] at a safe checkpoint": a job whose cancellation was
\* requested ends, or a user takes the request back by a retry.  The code hands
\* a cancelled job whose attempt fails or whose worker vanishes back to the
\* queue, from which acquire never takes it.
CancellationSettles ==
  \A j \in Job : cancel[j] ~> status[j] \in Terminal \/ ~cancel[j]

\* "Jobs remain queued until their matching domain processor is registered":
\* queued work of a registered family is started or cancelled.  A round of run
\* reaches only as many families as the worker has free tasks, always the first.
RegisteredKindsAreServed ==
  \A j \in Job : status[j] = "queued" ~> status[j] # "queued"
=============================================================================
