------------------------------ MODULE JobLedger ------------------------------
(***************************************************************************)
(* The durable ledger of background jobs: the PostgreSQL tables of         *)
(* jobs/infrastructure/tables.py and the transactions                      *)
(* SqlAlchemyJobRepository runs on them.  Every operator below that primes *)
(* variables is one committed transaction.  A transaction that locks the   *)
(* row it decides on (with_for_update) is one step; save_checkpoint takes  *)
(* no lock, and is therefore two steps (CheckpointLeaseSeen, then          *)
(* AppendCheckpoint).                                                      *)
(*                                                                         *)
(* Time is abstracted: `due` says that available_at has passed and         *)
(* `expired` that the lease's expires_at has.  A lease token is a fresh    *)
(* UUID, so no two acquisitions share one; it is named here by the ordinal *)
(* of the acquisition of the job that mints it, whatever number the query  *)
(* on the attempt rows gives the attempt.                                  *)
(*                                                                         *)
(* An operator whose name has the form X_Y is X with one plausible bug.    *)
(* No specification uses it; it stands beside X to show which property     *)
(* would report that bug.                                                  *)
(***************************************************************************)
EXTENDS Naturals, FiniteSets

CONSTANTS
  Job,              \* idempotency keys of plan steps: one job row per key
  Kind,             \* workload families (JobKind)
  KindOf,           \* the family a job is created with
  MaximumAttempts,  \* JobRow.maximum_attempts
  OuterJoinLocks    \* the database locks the rows of an outer join

ASSUME KindOfAssumption == KindOf \in [Job -> Kind]
ASSUME MaximumAttemptsAssumption == MaximumAttempts \in Nat \ {0}
ASSUME OuterJoinAssumption == OuterJoinLocks \in BOOLEAN

VARIABLES
  status,      \* JobRow.status, or "absent" before the row exists
  cancel,      \* JobRow.cancel_requested
  due,         \* JobRow.available_at <= now
  attempts,    \* number of JobAttemptRow rows of the job
  open,        \* attempt numbers whose finished_at is null
  lease,       \* token of the JobLeaseRow of the job, 0 when there is none
  expired,     \* the lease's expires_at <= now
  output,      \* token of the attempt whose output_reference is stored, or 0
  checkpoints, \* JobCheckpointRow rows: the attempt each names, its writer
  retries      \* history: number of explicit retries of the job

ledgerVars == <<status, cancel, due, attempts, open, lease, expired,
                output, checkpoints, retries>>

JobStatus == {"queued", "running", "waiting_approval", "retry_scheduled",
              "completed", "failed", "cancelled", "dead_letter"}

Terminal == {"completed", "failed", "cancelled", "dead_letter"}

\* The lifecycle table that require_transition consults.
Transitions ==
  [s \in JobStatus |->
     CASE s = "queued"           -> {"running", "cancelled"}
       [] s = "running"          -> {"waiting_approval", "retry_scheduled",
                                     "completed", "failed", "cancelled",
                                     "dead_letter"}
       [] s = "waiting_approval" -> {"queued", "cancelled", "failed"}
       [] s = "retry_scheduled"  -> {"queued", "running", "cancelled",
                                     "dead_letter"}
       [] s = "failed"           -> {"queued"}
       [] s = "dead_letter"      -> {"queued"}
       [] OTHER                  -> {}]

Exists(j) == status[j] # "absent"

MayMove(j, target) == Exists(j) /\ target \in Transitions[status[j]]

LedgerInit ==
  /\ status = [j \in Job |-> "absent"]
  /\ cancel = [j \in Job |-> FALSE]
  /\ due = [j \in Job |-> FALSE]
  /\ attempts = [j \in Job |-> 0]
  /\ open = [j \in Job |-> {}]
  /\ lease = [j \in Job |-> 0]
  /\ expired = [j \in Job |-> FALSE]
  /\ output = [j \in Job |-> 0]
  /\ checkpoints = [j \in Job |-> {}]
  /\ retries = [j \in Job |-> 0]

-----------------------------------------------------------------------------
(* Operations of the API process *)

\* create: the unique (organization, idempotency key) makes a second insert
\* fall back to the existing row, which changes nothing.
Create(j) ==
  /\ ~Exists(j)
  /\ status' = [status EXCEPT ![j] = "queued"]
  /\ due' = [due EXCEPT ![j] = TRUE]
  /\ UNCHANGED <<cancel, attempts, open, lease, expired, output, checkpoints,
                 retries>>

\* request_cancel: the flag is set on any job that is not terminal; a job
\* that no worker holds is cancelled at once.
RequestCancel(j) ==
  /\ Exists(j)
  /\ status[j] \notin Terminal
  /\ cancel' = [cancel EXCEPT ![j] = TRUE]
  /\ status' = [status EXCEPT ![j] =
                  IF @ \in {"queued", "retry_scheduled", "waiting_approval"}
                  THEN "cancelled" ELSE @]
  /\ UNCHANGED <<due, attempts, open, lease, expired, output,
                 checkpoints, retries>>

\* retry: whatever the table lets go back to "queued".
ExplicitRetry(j) ==
  /\ MayMove(j, "queued")
  /\ status' = [status EXCEPT ![j] = "queued"]
  /\ cancel' = [cancel EXCEPT ![j] = FALSE]
  /\ due' = [due EXCEPT ![j] = TRUE]
  /\ retries' = [retries EXCEPT ![j] = @ + 1]
  /\ UNCHANGED <<attempts, open, lease, expired, output, checkpoints>>

-----------------------------------------------------------------------------
(* Operations of the worker runtime *)

Runnable_ForgetsRetries(k) ==
  {j \in Job : /\ KindOf[j] = k
               /\ status[j] = "queued"
               /\ due[j]
               /\ ~cancel[j]
               /\ lease[j] = 0}

\* The rows acquire's WHERE clause selects for a family.
Runnable(k) ==
  {j \in Job : /\ KindOf[j] = k
               /\ status[j] \in {"queued", "retry_scheduled"}
               /\ due[j]
               /\ ~cancel[j]
               /\ lease[j] = 0}

\* The number of the attempt that acquire opens: one more than there are rows.
NextAttempt(j) == attempts[j] + 1

\* The token that acquire mints: one acquisition, one row, one fresh UUID.
FreshToken(j) == attempts[j] + 1

\* acquire: lease a runnable row and open a numbered attempt.  The query asks
\* for the oldest row, but SKIP LOCKED passes over the rows other transactions
\* hold, so which of the runnable rows it gets is left open.  It locks the rows
\* of an outer join; where the database refuses that, there is no such step.
Acquire(j) ==
  /\ OuterJoinLocks
  /\ status' = [status EXCEPT ![j] = "running"]
  /\ lease' = [lease EXCEPT ![j] = FreshToken(j)]
  /\ expired' = [expired EXCEPT ![j] = FALSE]
  /\ attempts' = [attempts EXCEPT ![j] = @ + 1]
  /\ open' = [open EXCEPT ![j] = @ \cup {NextAttempt(j)}]
  /\ UNCHANGED <<cancel, due, output, checkpoints, retries>>

LeaseLapsed_IgnoresExpiry(j) == lease[j] # 0

LeaseLapsed(j) == lease[j] # 0 /\ expired[j]

AttemptsExhausted_OffByOne(j) == attempts[j] > MaximumAttempts

AttemptsExhausted(j) == attempts[j] >= MaximumAttempts

RecoverExpired_KeepsLease(skipped) ==
  LET recovered == {j \in Job \ skipped : LeaseLapsed(j)} IN
  /\ status' = [j \in Job |->
                  IF j \in recovered /\ status[j] = "running"
                  THEN IF AttemptsExhausted(j) THEN "dead_letter" ELSE "queued"
                  ELSE status[j]]
  /\ UNCHANGED <<cancel, due, attempts, open, lease, expired, output,
                 checkpoints, retries>>

\* recover_expired: one transaction deletes the lapsed leases, except those
\* whose row another transaction has locked (`skipped`); the attempt a lease
\* belonged to is left open.
RecoverExpired(skipped) ==
  LET recovered == {j \in Job \ skipped : LeaseLapsed(j)} IN
  /\ status' = [j \in Job |->
                  IF j \in recovered /\ status[j] = "running"
                  THEN IF AttemptsExhausted(j) THEN "dead_letter" ELSE "queued"
                  ELSE status[j]]
  /\ lease' = [j \in Job |-> IF j \in recovered THEN 0 ELSE lease[j]]
  /\ expired' = [j \in Job |-> expired[j] /\ j \notin recovered]
  /\ UNCHANGED <<cancel, due, attempts, open, output, checkpoints, retries>>

LatestOpen_Oldest(j) == {n \in open[j] : \A m \in open[j] : n <= m}

\* The attempt finish_attempt and save_checkpoint pick: the open one with the
\* highest number, if there is one.
LatestOpen(j) == {n \in open[j] : \A m \in open[j] : m <= n}

FinishAllowed_AnyToken(j, token, target) == lease[j] # 0 /\ MayMove(j, target)

\* finish_attempt succeeds for the token of the current lease only; it does
\* not look at the expiry.
FinishAllowed(j, token, target) == lease[j] = token /\ MayMove(j, target)

FinishAttempt(j, token, target) ==
  /\ status' = [status EXCEPT ![j] = target]
  /\ open' = [open EXCEPT ![j] = @ \ LatestOpen(j)]
  /\ output' = [output EXCEPT ![j] = IF target = "completed" THEN token ELSE 0]
  /\ due' = [due EXCEPT ![j] = target # "retry_scheduled"]
  /\ lease' = [lease EXCEPT ![j] = 0]
  /\ expired' = [expired EXCEPT ![j] = FALSE]
  /\ UNCHANGED <<cancel, attempts, checkpoints, retries>>

\* update_progress: progress itself is not kept, only whether it is accepted.
ProgressAllowed(j, token) ==
  lease[j] = token /\ ~expired[j] /\ status[j] = "running"

\* save_checkpoint, first read: the lease row, without a lock.
CheckpointLeaseSeen(j, token) == lease[j] = token

\* save_checkpoint, rest: the newest open attempt as of now, then the insert.
AppendCheckpoint(j, token) ==
  /\ open[j] # {}
  /\ checkpoints' = [checkpoints EXCEPT ![j] =
                       @ \cup [attempt : LatestOpen(j), writer : {token}]]
  /\ UNCHANGED <<status, cancel, due, attempts, open, lease, expired,
                 output, retries>>

-----------------------------------------------------------------------------
(* Passage of time *)

\* expires_at passes.  Heartbeats push expires_at forward while the lease is
\* alive and never revive one that has lapsed, so they only delay this step.
LeaseExpires(j) ==
  /\ lease[j] # 0 /\ ~expired[j]
  /\ expired' = [expired EXCEPT ![j] = TRUE]
  /\ UNCHANGED <<status, cancel, due, attempts, open, lease, output,
                 checkpoints, retries>>

\* available_at passes: the backoff of a scheduled retry is over.
BackoffEnds(j) ==
  /\ Exists(j) /\ ~due[j]
  /\ due' = [due EXCEPT ![j] = TRUE]
  /\ UNCHANGED <<status, cancel, attempts, open, lease, expired, output,
                 checkpoints, retries>>
=============================================================================
