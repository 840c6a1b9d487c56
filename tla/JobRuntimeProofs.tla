-------------------------- MODULE JobRuntimeProofs --------------------------
(***************************************************************************)
(* Machine-checked proofs about JobRuntime, for every set of workers and   *)
(* jobs, every concurrency, attempt and retry bound and every number of    *)
(* crashes.                                                                *)
(***************************************************************************)
EXTENDS JobRuntime, FiniteSetTheorems, TLAPS

-----------------------------------------------------------------------------
(* Type correctness *)

\* The rank of a free task position lies in the range of all positions.
LEMMA RankType ==
  ASSUME NEW w \in Worker, NEW i \in 1..MaximumConcurrency, i \in FreeSlots(w)
  PROVE  Rank(w, i) \in Nat \ {0}
<1> DEFINE S == {n \in FreeSlots(w) : n <= i}
<1>1. IsFiniteSet(1..MaximumConcurrency)
  BY FS_Interval, ConcurrencyAssumption
<1>2. IsFiniteSet(S)
  BY <1>1, FS_Subset DEF FreeSlots
<1>3. S # {}
  BY ConcurrencyAssumption
<1>4. Cardinality(S) \in Nat /\ Cardinality(S) # 0
  BY <1>2, <1>3, FS_CardinalityType, FS_EmptySet
<1> QED
  BY <1>4 DEF Rank

\* A free task is in its type.
LEMMA IdleType == Idle \in Task
BY DEF Idle, Task, Pc, JobStatus

(* A task keeps its type when it moves to another control point, ... *)

LEMMA GotoType ==
  ASSUME task \in [Slot -> Task], NEW s \in Slot, NEW pc \in Pc, Goto(s, pc)
  PROVE  task' \in [Slot -> Task]
<1> DEFINE e == [task[s] EXCEPT !.pc = pc]
<1>1. task[s] \in Task
  OBVIOUS
<1>2. e \in Task
  BY <1>1 DEF Task
<1>3. task' = [task EXCEPT ![s] = e]
  BY DEF Goto
<1> HIDE DEF e
<1> QED
  BY <1>2, <1>3

(* ... or notes the status it is about to write, ... *)

LEMMA GotoWithType ==
  ASSUME task \in [Slot -> Task], NEW s \in Slot, NEW pc \in Pc,
         NEW target \in JobStatus, GotoWith(s, pc, target)
  PROVE  task' \in [Slot -> Task]
<1> DEFINE e == [task[s] EXCEPT !.pc = pc, !.target = target]
<1>1. task[s] \in Task
  OBVIOUS
<1>2. e \in Task
  BY <1>1 DEF Task
<1>3. task' = [task EXCEPT ![s] = e]
  BY DEF GotoWith
<1> HIDE DEF e
<1> QED
  BY <1>2, <1>3

(* ... or ends. *)

LEMMA LeaveType ==
  ASSUME task \in [Slot -> Task], NEW s \in Slot, Leave(s)
  PROVE  task' \in [Slot -> Task]
BY IdleType DEF Leave

\* Everything starts in its type.
LEMMA InitTypeOK == Init => TypeOK
BY IdleType DEF Init, LedgerInit, TypeOK, JobStatus

\* A polled task starts with a registered family.
LEMMA PollTypeOK ==
  ASSUME TypeOK, NEW w \in Worker, Poll(w)
  PROVE  TypeOK'
<1>1. ASSUME NEW s \in Slot, s[1] = w, s[2] \in FreeSlots(w),
             Rank(w, s[2]) <= Len(RegisteredKinds)
      PROVE  task'[s] \in Task
  <2>1. s[2] \in 1..MaximumConcurrency
    BY <1>1 DEF FreeSlots
  <2>2. Rank(w, s[2]) \in 1..Len(RegisteredKinds)
    BY <1>1, <2>1, RankType, RegisteredAssumption
  <2>3. RegisteredKinds[Rank(w, s[2])] \in Kind
    BY <2>2, RegisteredAssumption
  <2>4. [Idle EXCEPT !.pc = "recover",
                     !.kinds = {RegisteredKinds[Rank(w, s[2])]}] \in Task
    <3> DEFINE kind == RegisteredKinds[Rank(w, s[2])]
    <3>1. kind \in Kind
      BY <2>3
    <3> HIDE DEF kind
    <3>2. [Idle EXCEPT !.pc = "recover", !.kinds = {kind}] \in Task
      BY <3>1, IdleType DEF Task, Pc
    <3> QED
      BY <3>2 DEF kind
  <2> QED
    BY <1>1, <2>4 DEF Poll
<1>2. ASSUME NEW s \in Slot,
             ~(/\ s[1] = w /\ s[2] \in FreeSlots(w)
               /\ Rank(w, s[2]) <= Len(RegisteredKinds))
      PROVE  task'[s] \in Task
  BY <1>2 DEF Poll, TypeOK
<1>3. task' \in [Slot -> Task]
  <2>1. DOMAIN task' = Slot /\ task' = [s \in Slot |-> task'[s]]
    BY DEF Poll
  <2> QED
    BY <1>1, <1>2, <2>1
<1> QED
  BY <1>3 DEF Poll, TypeOK, ledgerVars

\* The steps of one task.
LEMMA StepTypeOK ==
  ASSUME TypeOK, NEW s \in Slot, Step(s)
  PROVE  TypeOK'
<1> USE DEF At
<1>task. task \in [Slot -> Task] /\ task[s] \in Task
  BY DEF TypeOK
<1>0. ASSUME UNCHANGED ledgerVars, task' \in [Slot -> Task],
             UNCHANGED draining, disruptions' \in Nat
      PROVE  TypeOK'
  BY <1>0 DEF TypeOK, ledgerVars
<1>1. CASE Recover(s)
  <2>1. PICK skipped \in SUBSET {j \in Job : Held(j)} : RecoverExpired(skipped)
    BY <1>1 DEF Recover
  <2>2. task' \in [Slot -> Task]
    BY <1>1, <1>task, GotoType DEF Recover, Pc
  <2> QED
    BY <1>1, <2>1, <2>2 DEF Recover, RecoverExpired, TypeOK, JobStatus
<1>2. CASE AcquireJob(s)
  <2>1. PICK k \in task[s].kinds : \E j \in Runnable(k) :
               /\ Acquire(j)
               /\ task' = [task EXCEPT ![s].pc = "check", ![s].job = j,
                                       ![s].token = FreshToken(j)]
    BY <1>2 DEF AcquireJob
  <2>2. PICK j \in Runnable(k) :
               /\ Acquire(j)
               /\ task' = [task EXCEPT ![s].pc = "check", ![s].job = j,
                                       ![s].token = FreshToken(j)]
    BY <2>1
  <2>3. j \in Job /\ FreshToken(j) \in Nat
    BY DEF Runnable, FreshToken, TypeOK
  <2>4. task' \in [Slot -> Task]
    <3> DEFINE e == [task[s] EXCEPT !.pc = "check", !.job = j,
                                    !.token = FreshToken(j)]
    <3>1. e \in Task
      BY <1>task, <2>3 DEF Task, Pc
    <3>2. task' = [task EXCEPT ![s] = e]
      BY <2>2
    <3> HIDE DEF e
    <3> QED
      BY <1>task, <3>1, <3>2
  <2> QED
    BY <1>2, <2>2, <2>3, <2>4
    DEF AcquireJob, Acquire, NextAttempt, FreshToken, TypeOK, JobStatus
<1>3. CASE NothingToAcquire(s)
  BY <1>0, <1>3, <1>task, LeaveType DEF NothingToAcquire, TypeOK
<1>4. CASE CheckCancelled(s)
  BY <1>0, <1>4, <1>task, GotoType, GotoWithType
  DEF CheckCancelled, Pc, JobStatus, TypeOK
<1>5. CASE Authorize(s)
  BY <1>0, <1>5, <1>task, GotoType, GotoWithType
  DEF Authorize, Pc, JobStatus, TypeOK
<1>6. CASE Report(s)
  BY <1>0, <1>6, <1>task, GotoType, GotoWithType
  DEF Report, Pc, JobStatus, TypeOK
<1>7. CASE BeginCheckpoint(s)
  BY <1>0, <1>7, <1>task, GotoType DEF BeginCheckpoint, Pc, TypeOK
<1>8. CASE InsertCheckpoint(s)
  <2>1. task' \in [Slot -> Task]
    BY <1>8, <1>task, GotoType DEF InsertCheckpoint, Pc
  <2>2. CASE AppendCheckpoint(task[s].job, task[s].token)
    BY <1>8, <1>task, <2>1, <2>2
    DEF InsertCheckpoint, AppendCheckpoint, LatestOpen, Checkpoint, TypeOK, Task
  <2>3. CASE UNCHANGED ledgerVars
    BY <1>0, <1>8, <2>1, <2>3 DEF InsertCheckpoint, TypeOK
  <2> QED
    BY <1>8, <2>2, <2>3 DEF InsertCheckpoint
<1>9. CASE ProcessorReturns(s)
  BY <1>0, <1>9, <1>task, GotoWithType DEF ProcessorReturns, Pc, JobStatus, TypeOK
<1>10. CASE ProcessorRaises(s)
  BY <1>0, <1>10, <1>task, GotoType, GotoWithType
  DEF ProcessorRaises, Pc, JobStatus, TypeOK
<1>11. ASSUME FinishAttempt(task[s].job, task[s].token, task[s].target),
              Leave(s), UNCHANGED <<draining, disruptions>>
       PROVE  TypeOK'
  <2>1. task' \in [Slot -> Task]
    BY <1>11, <1>task, LeaveType
  <2>2. task[s].token \in Nat /\ task[s].target \in JobStatus
    BY <1>task DEF Task
  <2> QED
    BY <1>11, <2>1, <2>2 DEF FinishAttempt, LatestOpen, TypeOK
<1>12. CASE Commit(s)
  BY <1>0, <1>11, <1>12, <1>task, GotoType DEF Commit, Pc, TypeOK
<1>13. CASE CountAttempts(s)
  BY <1>0, <1>13, <1>task, GotoWithType DEF CountAttempts, Pc, JobStatus, TypeOK
<1>14. CASE Abort(s)
  BY <1>0, <1>11, <1>14, <1>task, LeaveType DEF Abort, TypeOK
<1>15. CASE DatabaseError(s)
  BY <1>0, <1>15, <1>task, LeaveType DEF DatabaseError, Disrupt, TypeOK
<1> QED
  BY <1>1, <1>2, <1>3, <1>4, <1>5, <1>6, <1>7, <1>8, <1>9, <1>10, <1>12,
     <1>13, <1>14, <1>15 DEF Step

\* The types are inductive.
LEMMA NextTypeOK == TypeOK /\ [Next]_vars => TypeOK'
<1> SUFFICES ASSUME TypeOK, [Next]_vars PROVE TypeOK'
  OBVIOUS
<1>1. ASSUME NEW s \in Slot, Step(s) PROVE TypeOK'
  BY <1>1, StepTypeOK
<1>2. ASSUME NEW w \in Worker, Poll(w) PROVE TypeOK'
  BY <1>2, PollTypeOK
<1>3. ASSUME NEW w \in Worker, Stop(w) \/ Restart(w) \/ Crash(w) PROVE TypeOK'
  <2>1. CASE Stop(w)
    BY <2>1 DEF Stop, Disrupt, TypeOK, ledgerVars
  <2>2. CASE Restart(w)
    BY <2>2 DEF Restart, TypeOK, ledgerVars
  <2>3. CASE Crash(w)
    BY <2>3 DEF Crash, Disrupt, TypeOK, ledgerVars, Task, Idle, Pc, JobStatus
  <2> QED
    BY <1>3, <2>1, <2>2, <2>3
<1>4. ASSUME NEW j \in Job, User(j) PROVE TypeOK'
  <2>1. CASE Dispatch(j)
    BY <2>1 DEF Dispatch, Create, TypeOK, JobStatus
  <2>2. CASE Cancel(j)
    BY <2>2 DEF Cancel, RequestCancel, TypeOK, JobStatus
  <2>3. CASE Retry(j)
    BY <2>3 DEF Retry, ExplicitRetry, TypeOK, JobStatus
  <2> QED
    BY <1>4, <2>1, <2>2, <2>3 DEF User
<1>5. ASSUME NEW j \in Job, Expire(j) \/ Backoff(j) PROVE TypeOK'
  BY <1>5 DEF Expire, Backoff, LeaseExpires, BackoffEnds, TypeOK
<1>6. ASSUME UNCHANGED vars PROVE TypeOK'
  BY <1>6 DEF vars, TypeOK
<1> QED
  BY <1>1, <1>2, <1>3, <1>4, <1>5, <1>6 DEF Next

\* Every variable keeps its type in every reachable state of the workers and
\* the ledger (columns of jobs/infrastructure/tables.py, locals of execute_once).
THEOREM TypeCorrect == Spec => []TypeOK
<1>1. Init => TypeOK
  BY InitTypeOK
<1>2. TypeOK /\ [Next]_vars => TypeOK'
  BY NextTypeOK
<1> QED
  BY <1>1, <1>2, PTL DEF Spec
-----------------------------------------------------------------------------
(* Ownership *)

\* Attempt rows are numbered from one without gaps, and they are bounded: a job
\* that waits for an attempt still has one to spend.
Numbering ==
  \A j \in Job :
    /\ open[j] \subseteq 1..attempts[j]
    /\ ~Exists(j) => attempts[j] = 0
    /\ attempts[j] <= MaximumAttempts + retries[j]
    /\ status[j] \in {"queued", "retry_scheduled"} =>
         attempts[j] < MaximumAttempts + retries[j]

\* What a task knows: the token it was given is the number of an attempt that
\* was begun, the status it is about to write suits the block of execute_once
\* it is in, and it schedules a retry only if its own attempt was not the last.
Claims ==
  \A s \in Slot :
    /\ task[s].pc \in Leased => /\ task[s].job \in Job
                                /\ task[s].token \in 1..attempts[task[s].job]
    /\ task[s].pc = "commit" =>
         task[s].target \in {"completed", "failed", "cancelled"}
    /\ task[s].pc = "abort" =>
         /\ task[s].target \in {"cancelled", "dead_letter", "retry_scheduled"}
         /\ task[s].target = "retry_scheduled" => task[s].token < MaximumAttempts

\* Of two tasks that were given leases of one job, each has a token of its own.
\* This is what the freshness of a UUID gives the invariant, no more.
DistinctTokens ==
  \A s, t \in Slot :
    /\ task[s].pc \in Leased /\ task[t].pc \in Leased
    /\ task[s].job = task[t].job /\ task[s].token = task[t].token
    => s = t

\* The inductive invariant.  Ownership of a job is a token that equals the
\* number of its newest attempt; nothing else tells a stale task apart.
Ownership ==
  /\ TypeOK
  /\ LeaseIffRunning
  /\ DistinctTokens
  /\ OutputOfNewestAttempt
  /\ Numbering
  /\ Claims

LedgerInv == LeaseIffRunning /\ OutputOfNewestAttempt /\ Numbering

TaskInv == DistinctTokens /\ Claims

\* No transaction removes an attempt row.
AttemptsGrow == \A j \in Job : attempts'[j] >= attempts[j]

\* An empty ledger is in order.
LEMMA InitOwnership == Init => Ownership
<1> SUFFICES ASSUME Init PROVE Ownership
  OBVIOUS
<1>1. TypeOK
  BY InitTypeOK
<1>2. LedgerInv
  BY MaximumAttemptsAssumption
  DEF Init, LedgerInit, LedgerInv, LeaseIffRunning, OutputOfNewestAttempt,
      Numbering, Exists
<1>3. TaskInv
  BY DEF Init, TaskInv, DistinctTokens, Claims, Idle, Leased
<1> QED
  BY <1>1, <1>2, <1>3 DEF Ownership, LedgerInv, TaskInv

(* The transactions of the ledger keep its part of the invariant. *)

LEMMA CreateKeeps ==
  ASSUME TypeOK, LedgerInv, NEW j \in Job, Create(j)
  PROVE  LedgerInv' /\ AttemptsGrow
BY MaximumAttemptsAssumption
DEF Create, TypeOK, LedgerInv, LeaseIffRunning, OutputOfNewestAttempt,
    Numbering, Exists, AttemptsGrow, JobStatus

\* Requesting a cancellation keeps the ledger in order.
LEMMA CancelKeeps ==
  ASSUME TypeOK, LedgerInv, NEW j \in Job, RequestCancel(j)
  PROVE  LedgerInv' /\ AttemptsGrow
BY DEF RequestCancel, TypeOK, LedgerInv, LeaseIffRunning,
       OutputOfNewestAttempt, Numbering, Exists, AttemptsGrow, JobStatus,
       Terminal

\* An explicit retry keeps the ledger in order.
LEMMA RetryKeeps ==
  ASSUME TypeOK, LedgerInv, NEW j \in Job, ExplicitRetry(j)
  PROVE  LedgerInv' /\ AttemptsGrow
<1>1. status[j] \notin {"running", "completed", "absent"}
  BY DEF ExplicitRetry, MayMove, Transitions, Exists, TypeOK, JobStatus
<1> QED
  BY <1>1, MaximumAttemptsAssumption
  DEF ExplicitRetry, TypeOK, LedgerInv, LeaseIffRunning,
      OutputOfNewestAttempt, Numbering, Exists, AttemptsGrow, JobStatus

\* Acquiring a job keeps the ledger in order.
LEMMA AcquireKeeps ==
  ASSUME TypeOK, LedgerInv, NEW k, NEW j \in Runnable(k), Acquire(j)
  PROVE  LedgerInv' /\ AttemptsGrow
<1>1. j \in Job /\ status[j] \in {"queued", "retry_scheduled"}
  BY DEF Runnable
<1>2. LeaseIffRunning'
  BY <1>1 DEF Acquire, NextAttempt, FreshToken, TypeOK, LedgerInv, LeaseIffRunning
<1>3. OutputOfNewestAttempt'
  BY <1>1 DEF Acquire, NextAttempt, FreshToken, TypeOK, LedgerInv, OutputOfNewestAttempt
<1>4. Numbering'
  BY <1>1, MaximumAttemptsAssumption
  DEF Acquire, NextAttempt, FreshToken, TypeOK, LedgerInv, Numbering, Exists
<1>5. AttemptsGrow
  BY <1>1 DEF Acquire, NextAttempt, FreshToken, TypeOK, AttemptsGrow
<1> QED
  BY <1>2, <1>3, <1>4, <1>5 DEF LedgerInv

\* Recovering lapsed leases keeps the ledger in order.
LEMMA RecoverKeeps ==
  ASSUME TypeOK, LedgerInv, NEW skipped, RecoverExpired(skipped)
  PROVE  LedgerInv' /\ AttemptsGrow
BY MaximumAttemptsAssumption
DEF RecoverExpired, LeaseLapsed, AttemptsExhausted, TypeOK, LedgerInv,
    LeaseIffRunning, OutputOfNewestAttempt, Numbering, Exists, AttemptsGrow

\* Only the newest attempt holds a token that finish_attempt accepts, so the
\* attempt it closes is its own.
LEMMA FinishKeeps ==
  ASSUME TypeOK, LedgerInv, NEW j \in Job, NEW token \in Nat \ {0},
         NEW target \in {"completed", "failed", "cancelled", "dead_letter",
                         "retry_scheduled"},
         target = "retry_scheduled" => token < MaximumAttempts,
         FinishAllowed(j, token, target), FinishAttempt(j, token, target)
  PROVE  LedgerInv' /\ AttemptsGrow
<1>1. /\ lease[j] = token /\ token = attempts[j] /\ token \in open[j]
      /\ status[j] = "running"
  BY DEF FinishAllowed, LedgerInv, LeaseIffRunning
<1>2. LatestOpen(j) = {token}
  BY <1>1 DEF LatestOpen, LedgerInv, Numbering, TypeOK
<1>3. LeaseIffRunning'
  BY <1>1 DEF FinishAttempt, TypeOK, LedgerInv, LeaseIffRunning
<1>4. OutputOfNewestAttempt'
  BY <1>1, <1>2
  DEF FinishAttempt, TypeOK, LedgerInv, OutputOfNewestAttempt
<1>5. Numbering'
  BY <1>1, MaximumAttemptsAssumption
  DEF FinishAttempt, TypeOK, LedgerInv, Numbering, Exists
<1>6. AttemptsGrow
  BY DEF FinishAttempt, TypeOK, AttemptsGrow
<1> QED
  BY <1>3, <1>4, <1>5, <1>6 DEF LedgerInv

\* Steps that leave rows, leases and tokens alone keep the ledger in order.
LEMMA QuietKeeps ==
  ASSUME TypeOK, LedgerInv,
         UNCHANGED <<status, attempts, open, lease, output, retries>>
  PROVE  LedgerInv' /\ AttemptsGrow
BY DEF TypeOK, LedgerInv, LeaseIffRunning, OutputOfNewestAttempt, Numbering,
       Exists, AttemptsGrow

(* What the steps of tasks do to the claims of tasks. *)

\* Nothing is lost when tasks stand still or end.
LEMMA TasksEnd ==
  ASSUME TypeOK, TypeOK', TaskInv, AttemptsGrow,
         \A s \in Slot : \/ task'[s] = task[s]
                         \/ task'[s].pc \in {"idle", "recover", "acquire"}
  PROVE  TaskInv'
<1>1. DistinctTokens'
  BY DEF TaskInv, DistinctTokens, Leased
<1>2. Claims'
  <2> SUFFICES ASSUME NEW s \in Slot, task'[s] = task[s]
               PROVE  Claims!(s)'
    BY DEF Claims, Leased
  <2>1. task[s].pc \in Leased =>
          /\ task[s].job \in Job
          /\ task[s].token \in 1..attempts'[task[s].job]
    BY DEF TypeOK, TaskInv, Claims, AttemptsGrow, Task
  <2> QED
    BY <2>1 DEF TaskInv, Claims
<1> QED
  BY <1>1, <1>2 DEF TaskInv

\* A task that moves on keeps its job and its token.
LEMMA TaskMoves ==
  ASSUME TypeOK, TypeOK', TaskInv, AttemptsGrow, NEW s \in Slot,
         task[s].pc \in Leased,
         \A t \in Slot \ {s} : task'[t] = task[t],
         task'[s].job = task[s].job, task'[s].token = task[s].token,
         task'[s].pc = "commit" =>
           task'[s].target \in {"completed", "failed", "cancelled"},
         task'[s].pc = "abort" =>
           /\ task'[s].target \in {"cancelled", "dead_letter",
                                   "retry_scheduled"}
           /\ task'[s].target = "retry_scheduled" =>
                task[s].token < MaximumAttempts
  PROVE  TaskInv'
<1>1. DistinctTokens'
  BY DEF TaskInv, DistinctTokens
<1>2. Claims'
  BY DEF TypeOK, TaskInv, Claims, AttemptsGrow, Task
<1> QED
  BY <1>1, <1>2 DEF TaskInv

-----------------------------------------------------------------------------
(* The invariant is inductive *)

LEMMA StepKeeps ==
  ASSUME Ownership, TypeOK', NEW s \in Slot, Step(s)
  PROVE  LedgerInv' /\ TaskInv'
<1> USE DEF At, Goto, GotoWith, Leave, Idle
<1>0. TypeOK /\ LedgerInv /\ TaskInv
  BY DEF Ownership, LedgerInv, TaskInv
<1>task. task[s] \in Task /\ task \in [Slot -> Task]
  BY <1>0 DEF TypeOK
<1>1. CASE Recover(s)
  <2>1. PICK skipped \in SUBSET {j \in Job : Held(j)} : RecoverExpired(skipped)
    BY <1>1 DEF Recover
  <2>2. LedgerInv' /\ AttemptsGrow
    BY <1>0, <2>1, RecoverKeeps
  <2>3. TaskInv'
    BY <1>0, <1>1, <1>task, <2>2, TasksEnd DEF Recover, Task
  <2> QED
    BY <2>2, <2>3
<1>2. CASE AcquireJob(s)
  <2>1. PICK k \in task[s].kinds : \E j \in Runnable(k) :
               /\ Acquire(j)
               /\ task' = [task EXCEPT ![s].pc = "check", ![s].job = j,
                                       ![s].token = FreshToken(j)]
    BY <1>2 DEF AcquireJob
  <2>2. PICK j \in Runnable(k) :
               /\ Acquire(j)
               /\ task' = [task EXCEPT ![s].pc = "check", ![s].job = j,
                                       ![s].token = FreshToken(j)]
    BY <2>1
  <2>3. LedgerInv' /\ AttemptsGrow
    BY <1>0, <2>2, AcquireKeeps
  <2>4. /\ j \in Job /\ attempts[j] \in Nat
        /\ attempts'[j] = attempts[j] + 1
    BY <1>0, <2>2 DEF Runnable, Acquire, TypeOK
  <2>5. /\ task'[s].pc = "check" /\ task'[s].job = j
        /\ task'[s].token = attempts[j] + 1
        /\ \A t \in Slot \ {s} : task'[t] = task[t]
    BY <1>task, <2>2 DEF Task, FreshToken
  <2>6. DistinctTokens'
    <3> SUFFICES ASSUME NEW t \in Slot, t # s, task[t].pc \in Leased,
                        task[t].job = j, task[t].token = attempts[j] + 1
                 PROVE  FALSE
      BY <1>0, <2>5 DEF TaskInv, DistinctTokens
    <3> QED
      BY <1>0, <2>4 DEF TaskInv, Claims
  <2>7. Claims'
    <3> SUFFICES ASSUME NEW t \in Slot PROVE Claims!(t)'
      BY DEF Claims
    <3>1. CASE t = s
      BY <2>4, <2>5, <3>1
    <3>2. CASE t # s
      <4>1. task'[t] = task[t] /\ task[t] \in Task
        BY <1>task, <2>5, <3>2
      <4>2. task[t].pc \in Leased =>
              /\ task[t].job \in Job
              /\ task[t].token \in 1..attempts'[task[t].job]
        BY <1>0, <2>3 DEF TypeOK, TaskInv, Claims, AttemptsGrow, Task
      <4> QED
        BY <1>0, <4>1, <4>2 DEF TaskInv, Claims
    <3> QED
      BY <3>1, <3>2
  <2> QED
    BY <2>3, <2>6, <2>7 DEF TaskInv
<1>3. ASSUME NothingToAcquire(s) \/ DatabaseError(s) PROVE LedgerInv' /\ TaskInv'
  <2>1. LedgerInv' /\ AttemptsGrow
    BY <1>0, <1>3, QuietKeeps DEF NothingToAcquire, DatabaseError, ledgerVars
  <2> QED
    BY <1>0, <1>3, <1>task, <2>1, TasksEnd DEF NothingToAcquire, DatabaseError
<1>4. ASSUME \/ CheckCancelled(s) \/ Authorize(s) \/ Report(s)
             \/ BeginCheckpoint(s) \/ InsertCheckpoint(s)
             \/ ProcessorReturns(s) \/ ProcessorRaises(s)
      PROVE  LedgerInv' /\ TaskInv'
  <2>1. LedgerInv' /\ AttemptsGrow
    BY <1>0, <1>4, QuietKeeps
    DEF CheckCancelled, Authorize, Report, BeginCheckpoint, InsertCheckpoint,
        AppendCheckpoint, ProcessorReturns, ProcessorRaises, ledgerVars
  <2>2. /\ task[s].pc \in Leased
        /\ \A t \in Slot \ {s} : task'[t] = task[t]
        /\ task'[s].job = task[s].job /\ task'[s].token = task[s].token
    BY <1>4, <1>task
    DEF CheckCancelled, Authorize, Report, BeginCheckpoint, InsertCheckpoint,
        ProcessorReturns, ProcessorRaises, Leased, Task
  <2>3. /\ task'[s].pc = "commit" =>
             task'[s].target \in {"completed", "failed", "cancelled"}
        /\ task'[s].pc = "abort" => task'[s].target = "cancelled"
    BY <1>4, <1>task
    DEF CheckCancelled, Authorize, Report, BeginCheckpoint, InsertCheckpoint,
        ProcessorReturns, ProcessorRaises, Task
  <2> QED
    BY <1>0, <2>1, <2>2, <2>3, TaskMoves
<1>5. ASSUME Commit(s) \/ Abort(s),
             FinishAllowed(task[s].job, task[s].token, task[s].target),
             FinishAttempt(task[s].job, task[s].token, task[s].target),
             task' = [task EXCEPT ![s] = Idle]
      PROVE  LedgerInv' /\ TaskInv'
  <2>1. /\ task[s].job \in Job /\ task[s].token \in Nat \ {0}
        /\ task[s].target \in {"completed", "failed", "cancelled",
                               "dead_letter", "retry_scheduled"}
        /\ task[s].target = "retry_scheduled" => task[s].token < MaximumAttempts
    BY <1>0, <1>5, <1>task DEF Commit, Abort, TaskInv, Claims, Leased, Task, TypeOK
  <2>2. LedgerInv' /\ AttemptsGrow
    BY <1>0, <1>5, <2>1, FinishKeeps
  <2> QED
    BY <1>0, <1>5, <1>task, <2>2, TasksEnd
<1>6. CASE Commit(s) /\ Goto(s, "count") /\ UNCHANGED ledgerVars
  <2>1. LedgerInv' /\ AttemptsGrow
    BY <1>0, <1>6, QuietKeeps DEF ledgerVars
  <2>2. /\ task[s].pc \in Leased
        /\ \A t \in Slot \ {s} : task'[t] = task[t]
        /\ task'[s].job = task[s].job /\ task'[s].token = task[s].token
        /\ task'[s].pc = "count"
    BY <1>6, <1>task DEF Commit, Leased, Task
  <2> QED
    BY <1>0, <2>1, <2>2, TaskMoves
<1>7. CASE CountAttempts(s)
  <2>1. LedgerInv' /\ AttemptsGrow
    BY <1>0, <1>7, QuietKeeps DEF CountAttempts, ledgerVars
  <2>2. /\ task[s].pc \in Leased
        /\ \A t \in Slot \ {s} : task'[t] = task[t]
        /\ task'[s].job = task[s].job /\ task'[s].token = task[s].token
        /\ task'[s].pc = "abort"
        /\ task'[s].target \in {"dead_letter", "retry_scheduled"}
        /\ task'[s].target = "retry_scheduled" =>
             ~AttemptsExhausted(task[s].job)
    BY <1>7, <1>task DEF CountAttempts, Leased, Task
  <2>3. task'[s].target = "retry_scheduled" => task[s].token < MaximumAttempts
    BY <1>0, <2>2, MaximumAttemptsAssumption
    DEF TaskInv, Claims, AttemptsExhausted, TypeOK
  <2> QED
    BY <1>0, <2>1, <2>2, <2>3, TaskMoves
<1>8. CASE Abort(s) /\ Leave(s) /\ UNCHANGED ledgerVars
  <2>1. LedgerInv' /\ AttemptsGrow
    BY <1>0, <1>8, QuietKeeps DEF ledgerVars
  <2> QED
    BY <1>0, <1>8, <1>task, <2>1, TasksEnd
<1> QED
  BY <1>1, <1>2, <1>3, <1>4, <1>5, <1>6, <1>7, <1>8 DEF Step, Commit, Abort

\* The invariant is inductive.
LEMMA NextOwnership == Ownership /\ [Next]_vars => Ownership'
<1> SUFFICES ASSUME Ownership, [Next]_vars PROVE LedgerInv' /\ TaskInv'
  BY NextTypeOK DEF Ownership, LedgerInv, TaskInv
<1>0. TypeOK /\ TypeOK' /\ LedgerInv /\ TaskInv
  BY NextTypeOK DEF Ownership, LedgerInv, TaskInv
<1>1. ASSUME NEW s \in Slot, Step(s) PROVE LedgerInv' /\ TaskInv'
  BY <1>0, <1>1, StepKeeps
<1>2. ASSUME NEW w \in Worker, Poll(w) \/ Stop(w) \/ Restart(w) \/ Crash(w)
      PROVE  LedgerInv' /\ TaskInv'
  <2>1. LedgerInv' /\ AttemptsGrow
    BY <1>0, <1>2, QuietKeeps DEF Poll, Stop, Restart, Crash, ledgerVars
  <2>2. \A s \in Slot : \/ task'[s] = task[s]
                        \/ task'[s].pc \in {"idle", "recover", "acquire"}
    <3>1. CASE Poll(w)
      BY <3>1 DEF Poll, Idle
    <3>2. CASE Crash(w)
      BY <3>2 DEF Crash, Idle
    <3>3. CASE Stop(w) \/ Restart(w)
      BY <3>3 DEF Stop, Restart
    <3> QED
      BY <1>2, <3>1, <3>2, <3>3
  <2> QED
    BY <1>0, <2>1, <2>2, TasksEnd
<1>3. ASSUME NEW j \in Job, User(j) PROVE LedgerInv' /\ TaskInv'
  <2>1. LedgerInv' /\ AttemptsGrow
    BY <1>0, <1>3, CreateKeeps, CancelKeeps, RetryKeeps
    DEF User, Dispatch, Cancel, Retry
  <2> QED
    BY <1>0, <1>3, <2>1, TasksEnd DEF User, Dispatch, Cancel, Retry
<1>4. ASSUME NEW j \in Job, Expire(j) \/ Backoff(j)
      PROVE  LedgerInv' /\ TaskInv'
  <2>1. LedgerInv' /\ AttemptsGrow
    BY <1>0, <1>4, QuietKeeps DEF Expire, Backoff, LeaseExpires, BackoffEnds
  <2> QED
    BY <1>0, <1>4, <2>1, TasksEnd DEF Expire, Backoff
<1>5. ASSUME UNCHANGED vars PROVE LedgerInv' /\ TaskInv'
  <2>1. LedgerInv' /\ AttemptsGrow
    BY <1>0, <1>5, QuietKeeps DEF vars
  <2> QED
    BY <1>0, <1>5, <2>1, TasksEnd DEF vars
<1> QED
  BY <1>1, <1>2, <1>3, <1>4, <1>5 DEF Next

\* The invariant holds in every reachable state.
LEMMA OwnershipAlways == Spec => []Ownership
<1>1. Ownership /\ [Next]_vars => Ownership'
  BY NextOwnership
<1> QED
  BY <1>1, InitOwnership, PTL DEF Spec

\* Exactly the running jobs are leased, each to its newest attempt.
THEOREM LeaseCorrect == Spec => []LeaseIffRunning
<1>1. Ownership => LeaseIffRunning
  BY DEF Ownership
<1> QED
  BY <1>1, OwnershipAlways, PTL

\* A job is never attempted more often than its maximum plus its retries.
THEOREM AttemptsBounded == Spec => []BoundedAttempts
<1>1. Ownership => BoundedAttempts
  BY DEF Ownership, Numbering, BoundedAttempts
<1> QED
  BY <1>1, OwnershipAlways, PTL

\* The published result of a completed job is the one of its newest attempt.
THEOREM OutputCorrect == Spec => []OutputOfNewestAttempt
<1>1. Ownership => OutputOfNewestAttempt
  BY DEF Ownership
<1> QED
  BY <1>1, OwnershipAlways, PTL

-----------------------------------------------------------------------------
(* What no step may do *)

\* What a task's step does to the ledger: recover, acquire, append a checkpoint,
\* finish an attempt, or nothing.
LEMMA StepCases ==
  ASSUME Ownership, NEW s \in Slot, Step(s)
  PROVE  \/ \E skipped : RecoverExpired(skipped)
         \/ \E k \in Kind : \E j \in Runnable(k) : Acquire(j)
         \/ \E j \in Job, token \in Nat : AppendCheckpoint(j, token)
         \/ /\ FinishAllowed(task[s].job, task[s].token, task[s].target)
            /\ FinishAttempt(task[s].job, task[s].token, task[s].target)
            /\ task[s].job \in Job
            /\ task[s].pc \in {"commit", "abort"} /\ task'[s].pc = "idle"
         \/ UNCHANGED ledgerVars
<1>task. /\ task \in [Slot -> Task] /\ task[s].token \in Nat
         /\ task[s].kinds \subseteq Kind
         /\ task[s].pc \in Leased => task[s].job \in Job
  BY DEF Ownership, TypeOK, Claims, Task
<1>1. CASE Recover(s)
  BY <1>1 DEF Recover
<1>2. CASE AcquireJob(s)
  BY <1>2, <1>task DEF AcquireJob
<1>3. CASE InsertCheckpoint(s)
  BY <1>3, <1>task DEF InsertCheckpoint, At, Leased
<1>4. CASE Commit(s) \/ Abort(s)
  BY <1>4, <1>task DEF Commit, Abort, Leave, Idle, At, Leased
<1>5. CASE \/ NothingToAcquire(s) \/ CheckCancelled(s) \/ Authorize(s)
           \/ Report(s) \/ BeginCheckpoint(s) \/ ProcessorReturns(s)
           \/ ProcessorRaises(s) \/ CountAttempts(s) \/ DatabaseError(s)
  BY <1>5 DEF NothingToAcquire, CheckCancelled, Authorize, Report,
              BeginCheckpoint, ProcessorReturns, ProcessorRaises,
              CountAttempts, DatabaseError
<1> QED
  BY <1>1, <1>2, <1>3, <1>4, <1>5 DEF Step

\* What any step does to the ledger.
LEMMA NextCases ==
  ASSUME Ownership, [Next]_vars
  PROVE  \/ \E skipped : RecoverExpired(skipped)
         \/ \E k \in Kind : \E j \in Runnable(k) : Acquire(j)
         \/ \E j \in Job, token \in Nat : AppendCheckpoint(j, token)
         \/ \E s \in Slot :
              /\ FinishAllowed(task[s].job, task[s].token, task[s].target)
              /\ FinishAttempt(task[s].job, task[s].token, task[s].target)
              /\ task[s].job \in Job
              /\ task[s].pc \in {"commit", "abort"} /\ task'[s].pc = "idle"
         \/ \E j \in Job : \/ Create(j) \/ RequestCancel(j) \/ ExplicitRetry(j)
                           \/ LeaseExpires(j) \/ BackoffEnds(j)
         \/ UNCHANGED ledgerVars
<1>1. ASSUME NEW w \in Worker, Poll(w) \/ Stop(w) \/ Restart(w) \/ Crash(w)
      PROVE  UNCHANGED ledgerVars
  BY <1>1 DEF Poll, Stop, Restart, Crash
<1>2. ASSUME NEW j \in Job, User(j) \/ Expire(j) \/ Backoff(j)
      PROVE  \/ Create(j) \/ RequestCancel(j) \/ ExplicitRetry(j)
             \/ LeaseExpires(j) \/ BackoffEnds(j)
  BY <1>2 DEF User, Dispatch, Cancel, Retry, Expire, Backoff
<1>3. ASSUME UNCHANGED vars PROVE UNCHANGED ledgerVars
  BY <1>3 DEF vars, ledgerVars
<1> QED
  BY <1>1, <1>2, <1>3, StepCases DEF Next

\* Whatever happens, a finished job keeps its state and its result until a user
\* reopens a failed one.
THEOREM TerminalStays == Spec => TerminalIsFinal
<1> DEFINE Stays ==
      \A j \in Job : status[j] \in Terminal =>
        \/ status'[j] = status[j] /\ output'[j] = output[j]
        \/ /\ status[j] \in {"failed", "dead_letter"}
           /\ retries'[j] = retries[j] + 1
<1>1. ASSUME Ownership, [Next]_vars PROVE Stays
  <2>0. TypeOK /\ LeaseIffRunning
    BY <1>1 DEF Ownership
  <2>1. CASE \E skipped : RecoverExpired(skipped)
    BY <2>0, <2>1 DEF RecoverExpired, Terminal, TypeOK
  <2>2. CASE \E k \in Kind : \E j \in Runnable(k) : Acquire(j)
    BY <2>0, <2>2 DEF Acquire, Runnable, Terminal, TypeOK
  <2>3. CASE \E s \in Slot :
               /\ FinishAllowed(task[s].job, task[s].token, task[s].target)
               /\ FinishAttempt(task[s].job, task[s].token, task[s].target)
               /\ task[s].job \in Job
               /\ task[s].pc \in {"commit", "abort"} /\ task'[s].pc = "idle"
    <3>1. PICK s \in Slot :
               /\ FinishAllowed(task[s].job, task[s].token, task[s].target)
               /\ FinishAttempt(task[s].job, task[s].token, task[s].target)
               /\ task[s].job \in Job /\ task[s].pc \in {"commit", "abort"}
      BY <2>3
    <3>2. status[task[s].job] = "running"
      BY <1>1, <2>0, <3>1
      DEF FinishAllowed, LeaseIffRunning, Ownership, Claims, Leased
    <3> QED
      BY <2>0, <3>1, <3>2 DEF FinishAttempt, Terminal, TypeOK
  <2>4. ASSUME NEW j \in Job, RequestCancel(j) PROVE Stays
    BY <2>0, <2>4 DEF RequestCancel, Terminal, TypeOK
  <2>5. ASSUME NEW j \in Job, ExplicitRetry(j) PROVE Stays
    <3>1. status[j] \in Terminal => status[j] \in {"failed", "dead_letter"}
      BY <2>5 DEF ExplicitRetry, MayMove, Transitions, Terminal, JobStatus
    <3> QED
      BY <2>0, <2>5, <3>1 DEF ExplicitRetry, TypeOK
  <2>6. ASSUME NEW j \in Job, Create(j) PROVE Stays
    BY <2>0, <2>6 DEF Create, Exists, Terminal, TypeOK
  <2>7. ASSUME UNCHANGED <<status, output>> PROVE Stays
    BY <2>7
  <2> QED
    BY <1>1, <2>1, <2>2, <2>3, <2>4, <2>5, <2>6, <2>7, NextCases
    DEF AppendCheckpoint, LeaseExpires, BackoffEnds, ledgerVars
<1>2. ASSUME UNCHANGED vars PROVE Stays
  BY <1>2 DEF vars
<1> QED
  BY <1>1, <1>2, OwnershipAlways, PTL DEF Spec, TerminalIsFinal

\* Nobody but its holder ends a lease that has not lapsed.
THEOREM LeaseEnds == Spec => LeaseEndsByHolder
<1> DEFINE Ends ==
      \A j \in Job : lease[j] # 0 /\ lease'[j] # lease[j] =>
        \/ expired[j]
        \/ \E s \in Slot : /\ task[s].job = j /\ task[s].token = lease[j]
                           /\ task[s].pc \in {"commit", "abort"}
                           /\ task'[s].pc = "idle"
<1>1. ASSUME Ownership, [Next]_vars PROVE Ends
  <2>0. TypeOK
    BY <1>1 DEF Ownership
  <2>1. CASE \E skipped : RecoverExpired(skipped)
    BY <2>0, <2>1 DEF RecoverExpired, LeaseLapsed, TypeOK
  <2>2. CASE \E k \in Kind : \E j \in Runnable(k) : Acquire(j)
    BY <2>0, <2>2 DEF Acquire, Runnable, TypeOK
  <2>3. CASE \E s \in Slot :
               /\ FinishAllowed(task[s].job, task[s].token, task[s].target)
               /\ FinishAttempt(task[s].job, task[s].token, task[s].target)
               /\ task[s].job \in Job
               /\ task[s].pc \in {"commit", "abort"} /\ task'[s].pc = "idle"
    BY <2>0, <2>3 DEF FinishAllowed, FinishAttempt, TypeOK
  <2>4. ASSUME UNCHANGED lease PROVE Ends
    BY <2>4
  <2> QED
    BY <1>1, <2>1, <2>2, <2>3, <2>4, NextCases
    DEF AppendCheckpoint, LeaseExpires, BackoffEnds, Create, RequestCancel,
        ExplicitRetry, ledgerVars
<1>2. ASSUME UNCHANGED vars PROVE Ends
  BY <1>2 DEF vars
<1> QED
  BY <1>1, <1>2, OwnershipAlways, PTL DEF Spec, LeaseEndsByHolder

\* A requested cancellation is never followed by a new attempt, whatever state a
\* failure or a recovery returns the job to, until a user retries the job.
THEOREM NoAttemptFollowsCancel == Spec => NoAttemptAfterCancel
<1> DEFINE Still == \A j \in Job : cancel[j] =>
                      /\ attempts'[j] = attempts[j]
                      /\ cancel'[j] \/ retries'[j] = retries[j] + 1
<1>1. ASSUME Ownership, [Next]_vars PROVE Still
  <2>0. TypeOK
    BY <1>1 DEF Ownership
  <2>1. CASE \E k \in Kind : \E j \in Runnable(k) : Acquire(j)
    BY <2>0, <2>1 DEF Acquire, Runnable, TypeOK
  <2>2. CASE \E j \in Job : RequestCancel(j) \/ ExplicitRetry(j)
    BY <2>0, <2>2 DEF RequestCancel, ExplicitRetry, TypeOK
  <2>3. ASSUME UNCHANGED <<attempts, cancel>> PROVE Still
    BY <2>3
  <2> QED
    BY <1>1, <2>1, <2>2, <2>3, NextCases
    DEF RecoverExpired, FinishAttempt, AppendCheckpoint, LeaseExpires,
        BackoffEnds, Create, ledgerVars
<1>2. ASSUME UNCHANGED vars PROVE Still
  BY <1>2 DEF vars
<1> QED
  BY <1>1, <1>2, OwnershipAlways, PTL DEF Spec, NoAttemptAfterCancel

-----------------------------------------------------------------------------
(* The ledger implements its contract *)

\* Only a completed job has a result: an attempt that ends otherwise clears the
\* column, and a completed job is never reopened.
Results == \A j \in Job : status[j] # "completed" => output[j] = 0

\* No result is stored before anything happened.
LEMMA InitResults == Init => Results
BY DEF Init, LedgerInit, Results

\* The steps that touch a row keep results and states together.
LEMMA NextResults ==
  ASSUME Ownership, Results, [Next]_vars
  PROVE  Results'
<1>0. TypeOK
  BY DEF Ownership
<1>1. CASE \E skipped : RecoverExpired(skipped)
  BY <1>0, <1>1 DEF RecoverExpired, Results, TypeOK
<1>2. CASE \E k \in Kind : \E j \in Runnable(k) : Acquire(j)
  BY <1>0, <1>2 DEF Acquire, Runnable, Results, TypeOK
<1>3. CASE \E s \in Slot :
             /\ FinishAttempt(task[s].job, task[s].token, task[s].target)
             /\ task[s].job \in Job
  BY <1>0, <1>3 DEF FinishAttempt, Results, TypeOK
<1>4. ASSUME NEW j \in Job,
             \/ Create(j) \/ RequestCancel(j) \/ ExplicitRetry(j)
             \/ LeaseExpires(j) \/ BackoffEnds(j)
      PROVE  Results'
  <2>1. output' = output
    BY <1>4 DEF Create, RequestCancel, ExplicitRetry, LeaseExpires, BackoffEnds
  <2>2. status[j] = "completed" => status' = status
    BY <1>4 DEF Create, RequestCancel, ExplicitRetry, LeaseExpires, BackoffEnds,
                Exists, MayMove, Transitions, Terminal, JobStatus
  <2>3. \A i \in Job \ {j} : status'[i] = status[i]
    BY <1>0, <1>4 DEF Create, RequestCancel, ExplicitRetry, LeaseExpires,
                      BackoffEnds, TypeOK
  <2> QED
    BY <2>1, <2>2, <2>3 DEF Results
<1>5. ASSUME UNCHANGED <<status, output>> PROVE Results'
  BY <1>5 DEF Results
<1> QED
  BY <1>1, <1>2, <1>3, <1>4, <1>5, NextCases DEF AppendCheckpoint, ledgerVars

\* A row is a view of the contract's type.
LEMMA ViewType == TypeOK => ContractView \in [Job -> Contract!View]
<1> SUFFICES ASSUME TypeOK, NEW j \in Job PROVE ContractView[j] \in Contract!View
  BY DEF ContractView
<1>1. PhaseOf[status[j]] \in Contract!Phase
  BY DEF TypeOK, PhaseOf, JobStatus, Contract!Phase
<1>2. MaximumAttempts + retries[j] \in Nat
  BY MaximumAttemptsAssumption DEF TypeOK
<1> DEFINE wish == IF cancel[j] THEN "stop" ELSE "run"
<1>3. wish \in {"run", "stop"}
  OBVIOUS
<1> HIDE DEF wish
<1>4. ContractView[j] = [phase |-> PhaseOf[status[j]], attempt |-> attempts[j],
                         result |-> output[j], allowance |-> MaximumAttempts + retries[j],
                         wish |-> wish]
  BY DEF ContractView, wish
<1> QED
  BY <1>1, <1>2, <1>3, <1>4 DEF Contract!View, TypeOK

\* An empty ledger is the contract's initial state.
LEMMA InitContract == Init => Contract!Init
BY MaximumAttemptsAssumption
DEF Init, LedgerInit, Contract!Init, Contract!Absent, ContractView, PhaseOf,
    JobStatus

(* The moves of the contract, written out. *)

Row(p, a, r, m, u) ==
  [phase |-> p, attempt |-> a, result |-> r, allowance |-> m, wish |-> u]

\* What a move makes of a row.
LEMMA RowMoves ==
  ASSUME NEW p, NEW a, NEW r, NEW m, NEW u, NEW v, v = Row(p, a, r, m, u)
  PROVE  /\ p = "absent" => Contract!Submit(v, Row("pending", a, r, m, u))
         /\ p = "pending" /\ a < m /\ u = "run" =>
              Contract!Begin(v, Row("owned", a + 1, r, m, u))
         /\ p = "owned" => Contract!Succeed(v, Row("completed", a, a, m, u))
         /\ p = "owned" /\ a < m => Contract!GiveBack(v, Row("pending", a, r, m, u))
         /\ p = "owned" => Contract!GiveUp(v, Row("stopped", a, r, m, u))
         /\ p = "owned" => Contract!AskToStop(v, Row(p, a, r, m, "stop"))
         /\ p = "pending" => Contract!Withdraw(v, Row("cancelled", a, r, m, "stop"))
         /\ p = "owned" => Contract!Interrupt(v, Row("cancelled", a, r, m, u))
         /\ p \in {"pending", "stopped"} =>
              Contract!Reopen(v, Row("pending", a, r, m + 1, "run"))
<1>f. /\ v.phase = p /\ v.attempt = a /\ v.result = r /\ v.allowance = m /\ v.wish = u
  BY DEF Row
<1>1. [v EXCEPT !.phase = "pending"] = Row("pending", a, r, m, u)
  BY DEF Row
<1>2. [v EXCEPT !.phase = "stopped"] = Row("stopped", a, r, m, u)
  BY DEF Row
<1>3. [v EXCEPT !.wish = "stop"] = Row(p, a, r, m, "stop")
  BY DEF Row
<1>4. [v EXCEPT !.phase = "owned", !.attempt = v.attempt + 1] = Row("owned", a + 1, r, m, u)
  <2> DEFINE x == [v EXCEPT !.phase = "owned"]
  <2>1. x = Row("owned", a, r, m, u)
    BY DEF Row
  <2>2. [v EXCEPT !.phase = "owned", !.attempt = v.attempt + 1] = [x EXCEPT !.attempt = v.attempt + 1]
    BY Zenon
  <2> HIDE DEF x
  <2>3. [x EXCEPT !.attempt = a + 1] = Row("owned", a + 1, r, m, u)
    BY <2>1 DEF Row
  <2> QED
    BY <1>f, <2>2, <2>3, Zenon
<1>5. [v EXCEPT !.phase = "completed", !.result = v.attempt] = Row("completed", a, a, m, u)
  <2> DEFINE x == [v EXCEPT !.phase = "completed"]
  <2>1. x = Row("completed", a, r, m, u)
    BY DEF Row
  <2>2. [v EXCEPT !.phase = "completed", !.result = v.attempt] = [x EXCEPT !.result = v.attempt]
    BY Zenon
  <2> HIDE DEF x
  <2>3. [x EXCEPT !.result = a] = Row("completed", a, a, m, u)
    BY <2>1 DEF Row
  <2> QED
    BY <1>f, <2>2, <2>3, Zenon
<1>6. [v EXCEPT !.phase = "cancelled", !.wish = "stop"] = Row("cancelled", a, r, m, "stop")
  <2> DEFINE x == [v EXCEPT !.phase = "cancelled"]
  <2>1. x = Row("cancelled", a, r, m, u)
    BY DEF Row
  <2>2. [v EXCEPT !.phase = "cancelled", !.wish = "stop"] = [x EXCEPT !.wish = "stop"]
    BY Zenon
  <2> HIDE DEF x
  <2>3. [x EXCEPT !.wish = "stop"] = Row("cancelled", a, r, m, "stop")
    BY <2>1 DEF Row
  <2> QED
    BY <2>2, <2>3, Zenon
<1>7. [v EXCEPT !.phase = "pending", !.allowance = v.allowance + 1, !.wish = "run"]
        = Row("pending", a, r, m + 1, "run")
  <2> DEFINE x == [v EXCEPT !.phase = "pending"]
             y == [x EXCEPT !.allowance = m + 1]
  <2>1. x = Row("pending", a, r, m, u)
    BY DEF Row
  <2>2. [v EXCEPT !.phase = "pending", !.allowance = m + 1, !.wish = "run"]
          = [y EXCEPT !.wish = "run"]
    BY Zenon
  <2> HIDE DEF x
  <2>3. y = Row("pending", a, r, m + 1, u)
    BY <2>1 DEF Row
  <2> HIDE DEF y
  <2>4. [y EXCEPT !.wish = "run"] = Row("pending", a, r, m + 1, "run")
    BY <2>3 DEF Row
  <2> QED
    BY <1>f, <2>2, <2>4, Zenon
<1> HIDE DEF Row
<1>8. p = "absent" => Contract!Submit(v, Row("pending", a, r, m, u))
  BY <1>f, <1>1, Zenon DEF Contract!Submit
<1>9. p = "pending" /\ a < m /\ u = "run" => Contract!Begin(v, Row("owned", a + 1, r, m, u))
  BY <1>f, <1>4, Zenon DEF Contract!Begin
<1>10. p = "owned" => Contract!Succeed(v, Row("completed", a, a, m, u))
  BY <1>f, <1>5, Zenon DEF Contract!Succeed
<1>11. p = "owned" /\ a < m => Contract!GiveBack(v, Row("pending", a, r, m, u))
  BY <1>f, <1>1, Zenon DEF Contract!GiveBack
<1>12. p = "owned" => Contract!GiveUp(v, Row("stopped", a, r, m, u))
  BY <1>f, <1>2, Zenon DEF Contract!GiveUp
<1>13. p = "owned" => Contract!AskToStop(v, Row(p, a, r, m, "stop"))
  BY <1>f, <1>3, Zenon DEF Contract!AskToStop
<1>14. p = "pending" => Contract!Withdraw(v, Row("cancelled", a, r, m, "stop"))
  BY <1>f, <1>6, Zenon DEF Contract!Withdraw
<1>16. p = "owned" => Contract!Interrupt(v, Row("cancelled", a, r, m, u))
  <2>1. [v EXCEPT !.phase = "cancelled"] = Row("cancelled", a, r, m, u)
    BY DEF Row
  <2> QED
    BY <1>f, <2>1, Zenon DEF Contract!Interrupt
<1>15. p \in {"pending", "stopped"} => Contract!Reopen(v, Row("pending", a, r, m + 1, "run"))
  BY <1>f, <1>7, Zenon DEF Contract!Reopen
<1> QED
  BY <1>8, <1>9, <1>10, <1>11, <1>12, <1>13, <1>14, <1>15, <1>16,
     Zenon

\* Every transaction is, for each job it touches, a move of the contract.
LEMMA NextContract ==
  ASSUME Ownership, Results, [Next]_vars, NEW j \in Job
  PROVE  \/ ContractView'[j] = ContractView[j]
         \/ Contract!Move(ContractView[j], ContractView'[j])
<1> DEFINE v == ContractView[j]
           w == ContractView'[j]
           limit == MaximumAttempts + retries[j]
           wish == IF cancel[j] THEN "stop" ELSE "run"
<1>0. TypeOK /\ LeaseIffRunning /\ Numbering
  BY DEF Ownership
<1>v. /\ v = Row(PhaseOf[status[j]], attempts[j], output[j], limit, wish)
      /\ w = Row(PhaseOf[status'[j]], attempts'[j], output'[j],
                 MaximumAttempts + retries'[j], IF cancel'[j] THEN "stop" ELSE "run")
  BY DEF ContractView, Row
<1>p. /\ PhaseOf["absent"] = "absent" /\ PhaseOf["queued"] = "pending"
      /\ PhaseOf["retry_scheduled"] = "pending"
      /\ PhaseOf["waiting_approval"] = "pending"
      /\ PhaseOf["running"] = "owned" /\ PhaseOf["completed"] = "completed"
      /\ PhaseOf["failed"] = "stopped" /\ PhaseOf["dead_letter"] = "stopped"
      /\ PhaseOf["cancelled"] = "cancelled"
  BY DEF PhaseOf, JobStatus
<1>t. /\ attempts[j] \in Nat /\ retries[j] \in Nat /\ output[j] \in Nat
      /\ MaximumAttempts \in Nat
  BY <1>0, MaximumAttemptsAssumption DEF TypeOK
<1> DEFINE p == PhaseOf[status[j]]
           a == attempts[j]
           r == output[j]
<1>m. /\ p = "absent" /\ w = Row("pending", a, r, limit, wish) => Contract!Move(v, w)
      /\ p = "pending" /\ a < limit /\ wish = "run"
           /\ w = Row("owned", a + 1, r, limit, wish) => Contract!Move(v, w)
      /\ p = "owned" /\ w = Row("completed", a, a, limit, wish) => Contract!Move(v, w)
      /\ p = "owned" /\ a < limit
           /\ w = Row("pending", a, r, limit, wish) => Contract!Move(v, w)
      /\ p = "owned" /\ w = Row("stopped", a, r, limit, wish) => Contract!Move(v, w)
      /\ p = "owned" /\ w = Row("owned", a, r, limit, "stop") => Contract!Move(v, w)
      /\ p = "pending" /\ w = Row("cancelled", a, r, limit, "stop") => Contract!Move(v, w)
      /\ p = "owned" /\ w = Row("cancelled", a, r, limit, wish) => Contract!Move(v, w)
      /\ p \in {"pending", "stopped"}
           /\ w = Row("pending", a, r, limit + 1, "run") => Contract!Move(v, w)
  <2>1. v = Row(p, a, r, limit, wish)
    BY <1>v
  <2> HIDE DEF v, w, p, a, r, limit, wish
  <2> QED
    BY <2>1, RowMoves, Zenon DEF Contract!Move
<1> HIDE DEF v, w
<1>1. ASSUME NEW skipped, RecoverExpired(skipped)
      PROVE  w = v \/ Contract!Move(v, w)
  <2>1. UNCHANGED <<attempts, output, retries, cancel>>
    BY <1>1 DEF RecoverExpired
  <2>2. \/ status'[j] = status[j]
        \/ /\ status[j] = "running" /\ status'[j] = "dead_letter"
        \/ /\ status[j] = "running" /\ status'[j] = "queued"
           /\ attempts[j] < MaximumAttempts
    BY <1>1, <1>t DEF RecoverExpired, AttemptsExhausted
  <2>3. CASE status'[j] = status[j]
    BY <1>v, <2>1, <2>3
  <2>4. CASE status[j] = "running" /\ status'[j] = "dead_letter"
    BY <1>m, <1>v, <1>p, <2>1, <2>4
  <2>5. CASE status[j] = "running" /\ status'[j] = "queued"
             /\ attempts[j] < MaximumAttempts
    BY <1>m, <1>v, <1>p, <1>t, <2>1, <2>5
  <2> QED
    BY <2>2, <2>3, <2>4, <2>5
<1>2. ASSUME NEW k \in Kind, NEW i \in Runnable(k), Acquire(i)
      PROVE  w = v \/ Contract!Move(v, w)
  <2>1. i \in Job /\ status[i] \in {"queued", "retry_scheduled"} /\ ~cancel[i]
    BY <1>2 DEF Runnable
  <2>2. CASE i # j
    BY <1>0, <1>2, <1>v, <2>1, <2>2 DEF Acquire, TypeOK
  <2>3. CASE i = j
    <3>1. /\ status'[j] = "running" /\ attempts'[j] = attempts[j] + 1
          /\ output'[j] = output[j] /\ retries'[j] = retries[j]
          /\ cancel'[j] = cancel[j] /\ attempts[j] < limit
      BY <1>0, <1>2, <2>1, <2>3 DEF Acquire, TypeOK, Numbering
    <3>2. PhaseOf[status[j]] = "pending" /\ wish = "run"
      BY <1>p, <2>1, <2>3
    <3>3. w = Row("owned", attempts[j] + 1, output[j], limit, wish)
      BY <1>v, <1>p, <3>1
    <3> QED
      BY <1>m, <3>1, <3>2, <3>3
  <2> QED
    BY <2>2, <2>3
<1>3. ASSUME NEW s \in Slot,
             FinishAllowed(task[s].job, task[s].token, task[s].target),
             FinishAttempt(task[s].job, task[s].token, task[s].target),
             task[s].job \in Job, task[s].pc \in {"commit", "abort"}
      PROVE  w = v \/ Contract!Move(v, w)
  <2>1. CASE task[s].job # j
    BY <1>0, <1>3, <1>v, <2>1 DEF FinishAttempt, TypeOK
  <2>2. CASE task[s].job = j
    <3>1. /\ task[s].token # 0 /\ lease[j] = task[s].token
          /\ task[s].target = "retry_scheduled" => task[s].token < MaximumAttempts
          /\ task[s].target \in {"completed", "failed", "cancelled",
                                 "dead_letter", "retry_scheduled"}
      BY <1>3, <2>2 DEF FinishAllowed, Ownership, Claims, Leased
    <3>2. status[j] = "running" /\ attempts[j] = task[s].token
      BY <1>0, <3>1 DEF LeaseIffRunning
    <3>3. /\ status'[j] = task[s].target /\ attempts'[j] = attempts[j]
          /\ retries'[j] = retries[j] /\ cancel'[j] = cancel[j]
          /\ output'[j] = IF task[s].target = "completed" THEN attempts[j] ELSE 0
          /\ output[j] = 0
      BY <1>0, <1>3, <2>2, <3>2 DEF FinishAttempt, TypeOK, Results
    <3>4. CASE task[s].target = "completed"
      <4>1. w = Row("completed", attempts[j], attempts[j], limit, wish)
        BY <1>v, <1>p, <3>3, <3>4
      <4> QED
        BY <1>m, <1>p, <3>2, <4>1
    <3>5. CASE task[s].target \in {"failed", "dead_letter"}
      <4>1. w = Row("stopped", attempts[j], output[j], limit, wish)
        BY <1>v, <1>p, <3>3, <3>5
      <4> QED
        BY <1>m, <1>p, <3>2, <4>1
    <3>6. CASE task[s].target = "cancelled"
      <4>1. w = Row("cancelled", attempts[j], output[j], limit, wish)
        BY <1>v, <1>p, <3>3, <3>6
      <4> QED
        BY <1>m, <1>p, <3>2, <4>1
    <3>7. CASE task[s].target = "retry_scheduled"
      <4>1. w = Row("pending", attempts[j], output[j], limit, wish)
        BY <1>v, <1>p, <3>3, <3>7
      <4>2. attempts[j] < limit
        BY <1>t, <3>1, <3>2, <3>7
      <4> QED
        BY <1>m, <1>p, <3>2, <4>1, <4>2
    <3> QED
      BY <3>1, <3>4, <3>5, <3>6, <3>7
  <2> QED
    BY <2>1, <2>2
<1>4. ASSUME NEW i \in Job,
             \/ Create(i) \/ RequestCancel(i) \/ ExplicitRetry(i)
             \/ LeaseExpires(i) \/ BackoffEnds(i)
      PROVE  w = v \/ Contract!Move(v, w)
  <2>0. attempts' = attempts /\ output' = output
    BY <1>4 DEF Create, RequestCancel, ExplicitRetry, LeaseExpires, BackoffEnds
  <2>1. CASE i # j
    BY <1>0, <1>4, <1>v, <2>0, <2>1
    DEF Create, RequestCancel, ExplicitRetry, LeaseExpires, BackoffEnds, TypeOK
  <2>2. CASE Create(j)
    <3>1. /\ status[j] = "absent" /\ status'[j] = "queued"
          /\ UNCHANGED <<retries, cancel>>
      BY <1>0, <2>2 DEF Create, Exists, TypeOK
    <3>2. w = Row("pending", attempts[j], output[j], limit, wish)
      BY <1>v, <1>p, <2>0, <3>1
    <3> QED
      BY <1>m, <1>p, <3>1, <3>2
  <2>3. CASE RequestCancel(j)
    <3>1. /\ retries' = retries /\ cancel'[j]
          /\ \/ /\ status[j] = "running" /\ status'[j] = status[j]
             \/ /\ status[j] \in {"queued", "retry_scheduled", "waiting_approval"}
                /\ status'[j] = "cancelled"
      BY <1>0, <2>3 DEF RequestCancel, Exists, Terminal, JobStatus, TypeOK
    <3>2. CASE status[j] = "running" /\ status'[j] = status[j]
      <4>1. w = Row("owned", attempts[j], output[j], limit, "stop")
        BY <1>v, <1>p, <2>0, <3>1, <3>2
      <4> QED
        BY <1>m, <1>p, <3>2, <4>1
    <3>3. CASE /\ status[j] \in {"queued", "retry_scheduled", "waiting_approval"}
               /\ status'[j] = "cancelled"
      <4>1. PhaseOf[status[j]] = "pending"
            /\ w = Row("cancelled", attempts[j], output[j], limit, "stop")
        BY <1>v, <1>p, <2>0, <3>1, <3>3
      <4> QED
        BY <1>m, <4>1
    <3> QED
      BY <3>1, <3>2, <3>3
  <2>4. CASE ExplicitRetry(j)
    <3>1. /\ status[j] \in {"waiting_approval", "retry_scheduled", "failed",
                            "dead_letter"}
          /\ status'[j] = "queued" /\ retries'[j] = retries[j] + 1 /\ ~cancel'[j]
      BY <1>0, <2>4 DEF ExplicitRetry, MayMove, Transitions, Exists, TypeOK,
                        JobStatus
    <3>2. MaximumAttempts + (retries[j] + 1) = limit + 1
      BY <1>t
    <3>3. w = Row("pending", attempts[j], output[j], limit + 1, "run")
      BY <1>v, <1>p, <2>0, <3>1, <3>2
    <3>4. PhaseOf[status[j]] = "pending" \/ PhaseOf[status[j]] = "stopped"
      BY <1>p, <3>1
    <3> QED
      BY <1>m, <3>3, <3>4
  <2>5. CASE LeaseExpires(j) \/ BackoffEnds(j)
    BY <1>v, <2>0, <2>5 DEF LeaseExpires, BackoffEnds
  <2> QED
    BY <1>4, <2>1, <2>2, <2>3, <2>4, <2>5
<1>5. ASSUME UNCHANGED <<status, attempts, output, retries, cancel>>
      PROVE  w = v
  BY <1>5, <1>v
<1> QED
  BY <1>1, <1>2, <1>3, <1>4, <1>5, NextCases
  DEF v, w, AppendCheckpoint, ledgerVars

\* Whatever workers, crashes, lapsing leases and users do, the ledger is the one
\* JobContract describes.
THEOREM LedgerImplementsContract == Spec => ImplementsContract
<1>1. Init => Contract!Init
  BY InitContract
<1>2. Spec => []Results
  <2>1. Ownership /\ Results /\ [Next]_vars => Results'
    BY NextResults
  <2> QED
    BY <2>1, InitResults, OwnershipAlways, PTL DEF Spec
<1>3. ASSUME Ownership, Ownership', Results, [Next]_vars
      PROVE  Contract!Next
  <2>1. ContractView' \in [Job -> Contract!View]
    <3>1. (TypeOK => ContractView \in [Job -> Contract!View])'
      BY ViewType, PTL
    <3> QED
      BY <1>3, <3>1 DEF Ownership
  <2> QED
    BY <1>3, <2>1, NextContract DEF Contract!Next
<1> QED
  BY <1>1, <1>2, <1>3, OwnershipAlways, PTL
  DEF Spec, ImplementsContract, Contract!Spec

-----------------------------------------------------------------------------
(* Checkpoints *)

\* A task between the two reads of save_checkpoint writes for an attempt that is
\* still open: only its holder could close it, and it is that holder.
Writing ==
  \A s \in Slot : task[s].pc = "insert" => task[s].token \in open[task[s].job]

Checkpoints == CheckpointNotBeforeWriter /\ Writing

\* There is no checkpoint and no task in the beginning.
LEMMA InitCheckpoints == Init => Checkpoints
BY DEF Init, LedgerInit, Idle, Checkpoints, CheckpointNotBeforeWriter, Writing

\* No step removes an attempt row.
LEMMA NextGrows ==
  ASSUME Ownership, [Next]_vars
  PROVE  AttemptsGrow
<1>0. TypeOK
  BY DEF Ownership
<1>1. CASE \E k \in Kind : \E j \in Runnable(k) : Acquire(j)
  BY <1>0, <1>1 DEF Acquire, Runnable, TypeOK, AttemptsGrow
<1>2. ASSUME UNCHANGED attempts PROVE AttemptsGrow
  BY <1>0, <1>2 DEF TypeOK, AttemptsGrow
<1> QED
  BY <1>1, <1>2, NextCases
  DEF RecoverExpired, FinishAttempt, AppendCheckpoint, LeaseExpires,
      BackoffEnds, Create, RequestCancel, ExplicitRetry, ledgerVars

\* Only a task at its insert writes a checkpoint.
LEMMA CheckpointWriters ==
  ASSUME Ownership, [Next]_vars
  PROVE  \/ UNCHANGED checkpoints
         \/ \E s \in Slot : /\ InsertCheckpoint(s)
                            /\ AppendCheckpoint(task[s].job, task[s].token)
<1>1. ASSUME NEW s \in Slot, Step(s)
      PROVE  \/ UNCHANGED checkpoints
             \/ /\ InsertCheckpoint(s)
                /\ AppendCheckpoint(task[s].job, task[s].token)
  BY <1>1
  DEF Step, Recover, RecoverExpired, AcquireJob, Acquire, NothingToAcquire,
      CheckCancelled, Authorize, Report, BeginCheckpoint, InsertCheckpoint,
      ProcessorReturns, ProcessorRaises, Commit, FinishAttempt, CountAttempts,
      Abort, DatabaseError, ledgerVars
<1>2. ASSUME NEW w \in Worker, Poll(w) \/ Stop(w) \/ Restart(w) \/ Crash(w)
      PROVE  UNCHANGED checkpoints
  BY <1>2 DEF Poll, Stop, Restart, Crash, ledgerVars
<1>3. ASSUME NEW j \in Job, User(j) \/ Expire(j) \/ Backoff(j)
      PROVE  UNCHANGED checkpoints
  BY <1>3
  DEF User, Dispatch, Cancel, Retry, Expire, Backoff, Create, RequestCancel,
      ExplicitRetry, LeaseExpires, BackoffEnds
<1>4. ASSUME UNCHANGED vars PROVE UNCHANGED checkpoints
  BY <1>4 DEF vars
<1> QED
  BY <1>1, <1>2, <1>3, <1>4 DEF Next

\* Only a finishing task closes an attempt of a job.
LEMMA OpenShrinks ==
  ASSUME Ownership, [Next]_vars, NEW j \in Job
  PROVE  \/ open[j] \subseteq open'[j]
         \/ \E t \in Slot :
              /\ FinishAllowed(task[t].job, task[t].token, task[t].target)
              /\ FinishAttempt(task[t].job, task[t].token, task[t].target)
              /\ task[t].job = j
              /\ task[t].pc \in {"commit", "abort"}
<1>0. TypeOK
  BY DEF Ownership
<1>1. CASE \E k \in Kind : \E i \in Runnable(k) : Acquire(i)
  BY <1>0, <1>1 DEF Acquire, Runnable, TypeOK
<1>2. CASE \E t \in Slot :
             /\ FinishAllowed(task[t].job, task[t].token, task[t].target)
             /\ FinishAttempt(task[t].job, task[t].token, task[t].target)
             /\ task[t].job \in Job
             /\ task[t].pc \in {"commit", "abort"}
  BY <1>0, <1>2 DEF FinishAttempt, TypeOK
<1> QED
  BY <1>1, <1>2, NextCases
  DEF RecoverExpired, AppendCheckpoint, LeaseExpires, BackoffEnds, Create,
      RequestCancel, ExplicitRetry, ledgerVars

\* A task arrives at its insert only by having seen its own lease.
LEMMA InsertEntered ==
  ASSUME TypeOK, [Next]_vars, NEW s \in Slot, task'[s].pc = "insert",
         task'[s] # task[s] \/ task[s].pc # "insert"
  PROVE  BeginCheckpoint(s) /\ CheckpointLeaseSeen(task[s].job, task[s].token)
<1>task. task \in [Slot -> Task] /\ task[s] \in Task
  BY DEF TypeOK
<1>1. ASSUME NEW t \in Slot, Step(t), t # s PROVE FALSE
  BY <1>1, <1>task
  DEF Step, Recover, AcquireJob, NothingToAcquire, CheckCancelled, Authorize,
      Report, BeginCheckpoint, InsertCheckpoint, ProcessorReturns,
      ProcessorRaises, Commit, CountAttempts, Abort, DatabaseError, Goto,
      GotoWith, Leave
<1>2. ASSUME Step(s), ~BeginCheckpoint(s) PROVE FALSE
  <2>1. /\ \A pc : Goto(s, pc) => task'[s].pc = pc
        /\ \A pc, target : GotoWith(s, pc, target) => task'[s].pc = pc
        /\ Leave(s) => task'[s].pc = "idle"
    BY <1>task DEF Goto, GotoWith, Leave, Idle, Task
  <2>2. ~AcquireJob(s)
    BY <1>task DEF AcquireJob, Task
  <2> QED
    BY <1>2, <2>1, <2>2
    DEF Step, Recover, NothingToAcquire, CheckCancelled, Authorize,
        Report, InsertCheckpoint, ProcessorReturns, ProcessorRaises, Commit,
        CountAttempts, Abort, DatabaseError
<1>3. ASSUME BeginCheckpoint(s) PROVE CheckpointLeaseSeen(task[s].job, task[s].token)
  BY <1>3, <1>task DEF BeginCheckpoint, Goto, Task
<1>4. ASSUME NEW w \in Worker, Poll(w) \/ Stop(w) \/ Restart(w) \/ Crash(w)
      PROVE  FALSE
  <2>1. CASE Poll(w)
    BY <2>1, <1>task DEF Poll, Idle
  <2>2. CASE Crash(w)
    BY <2>2, <1>task DEF Crash, Idle
  <2>3. CASE Stop(w) \/ Restart(w)
    BY <2>3 DEF Stop, Restart
  <2> QED
    BY <1>4, <2>1, <2>2, <2>3
<1>5. ASSUME NEW j \in Job, User(j) \/ Expire(j) \/ Backoff(j) PROVE FALSE
  BY <1>5 DEF User, Dispatch, Cancel, Retry, Expire, Backoff
<1>6. ASSUME UNCHANGED vars PROVE FALSE
  BY <1>6 DEF vars
<1> QED
  BY <1>1, <1>2, <1>3, <1>4, <1>5, <1>6 DEF Next

\* Checkpoints and their writers survive every step.
LEMMA NextCheckpoints ==
  ASSUME Ownership, Ownership', Checkpoints, [Next]_vars
  PROVE  Checkpoints'
<1>0. /\ TypeOK /\ LeaseIffRunning /\ DistinctTokens /\ Numbering /\ Claims
      /\ TypeOK' /\ Numbering'
  BY DEF Ownership
<1>grow. \A j \in Job : attempts'[j] >= attempts[j]
  BY NextGrows DEF AttemptsGrow
<1>task. \A s \in Slot :
           /\ task[s] \in Task
           /\ task[s].pc \in Leased => /\ task[s].job \in Job
                                       /\ task[s].token \in Nat
  BY <1>0 DEF TypeOK, Task, Claims
<1>1. CheckpointNotBeforeWriter'
  <2>1. CASE UNCHANGED checkpoints
    <3>1. SUFFICES ASSUME NEW j \in Job, NEW c \in checkpoints[j]
                   PROVE  c.writer <= c.attempt /\ c.attempt <= attempts'[j]
      BY <2>1 DEF CheckpointNotBeforeWriter
    <3>2. /\ c.writer <= c.attempt /\ c.attempt <= attempts[j]
          /\ c.attempt \in Nat
      BY <1>0 DEF Checkpoints, CheckpointNotBeforeWriter, TypeOK, Checkpoint
    <3> QED
      BY <1>0, <1>grow, <3>2 DEF TypeOK
  <2>2. ASSUME NEW s \in Slot, InsertCheckpoint(s),
               AppendCheckpoint(task[s].job, task[s].token)
        PROVE  CheckpointNotBeforeWriter'
    <3>0. /\ task[s].pc = "insert" /\ task[s].job \in Job /\ task[s].token \in Nat
          /\ task[s].token \in open[task[s].job]
          /\ attempts' = attempts
      BY <1>task, <2>2
      DEF InsertCheckpoint, At, Leased, Checkpoints, Writing, AppendCheckpoint
    <3>1. \A n \in LatestOpen(task[s].job) :
            n \in Nat /\ task[s].token <= n /\ n <= attempts[task[s].job]
      BY <1>0, <3>0 DEF LatestOpen, Numbering, TypeOK
    <3>2. SUFFICES ASSUME NEW j \in Job, NEW c \in checkpoints'[j]
                   PROVE  c.writer <= c.attempt /\ c.attempt <= attempts[j]
      BY <3>0 DEF CheckpointNotBeforeWriter
    <3>3. CASE c \in checkpoints[j]
      BY <3>3 DEF Checkpoints, CheckpointNotBeforeWriter
    <3>4. CASE c \notin checkpoints[j]
      <4>1. j = task[s].job /\
            c \in [attempt : LatestOpen(task[s].job), writer : {task[s].token}]
        BY <1>0, <2>2, <3>0, <3>4 DEF AppendCheckpoint, TypeOK
      <4> QED
        BY <3>1, <4>1
    <3> QED
      BY <3>3, <3>4
  <2>3. \/ UNCHANGED checkpoints
        \/ \E s \in Slot : /\ InsertCheckpoint(s)
                           /\ AppendCheckpoint(task[s].job, task[s].token)
    BY CheckpointWriters
  <2> QED
    BY <2>1, <2>2, <2>3
<1>2. Writing'
  <2>1. ASSUME NEW s \in Slot, task'[s].pc = "insert", task[s].pc = "insert",
               task'[s] = task[s]
        PROVE  task[s].token \in open'[task[s].job]
    <3> DEFINE j == task[s].job
    <3>0. j \in Job /\ task[s].token \in Nat /\ task[s].token \in open[j]
      BY <1>task, <2>1 DEF Leased, Checkpoints, Writing
    <3>1. CASE open[j] \subseteq open'[j]
      BY <3>0, <3>1
    <3>2. CASE \E t \in Slot :
                 /\ FinishAllowed(task[t].job, task[t].token, task[t].target)
                 /\ FinishAttempt(task[t].job, task[t].token, task[t].target)
                 /\ task[t].job = j
                 /\ task[t].pc \in {"commit", "abort"}
      <4>1. PICK t \in Slot :
                 /\ FinishAllowed(task[t].job, task[t].token, task[t].target)
                 /\ FinishAttempt(task[t].job, task[t].token, task[t].target)
                 /\ task[t].job = j
                 /\ task[t].pc \in {"commit", "abort"}
        BY <3>2
      <4>2. task[t].token # task[s].token
        BY <1>0, <2>1, <4>1 DEF DistinctTokens, Leased
      <4>3. lease[j] = task[t].token /\ task[t].token # 0
        BY <1>0, <4>1 DEF FinishAllowed, Claims, Leased
      <4>4. attempts[j] = task[t].token /\ attempts[j] \in open[j]
        BY <1>0, <3>0, <4>3 DEF LeaseIffRunning
      <4>5. task[s].token \notin LatestOpen(j)
        <5>1. task[s].token <= attempts[j] /\ attempts[j] \in Nat
          BY <1>0, <3>0 DEF Numbering, TypeOK
        <5>2. ~(attempts[j] <= task[s].token)
          BY <3>0, <4>2, <4>4, <5>1
        <5> QED
          BY <4>4, <5>2 DEF LatestOpen
      <4>6. open'[j] = open[j] \ LatestOpen(j)
        BY <1>0, <3>0, <4>1 DEF FinishAttempt, TypeOK
      <4> QED
        BY <3>0, <4>5, <4>6
    <3>3. \/ open[j] \subseteq open'[j]
          \/ \E t \in Slot :
                 /\ FinishAllowed(task[t].job, task[t].token, task[t].target)
                 /\ FinishAttempt(task[t].job, task[t].token, task[t].target)
                 /\ task[t].job = j
                 /\ task[t].pc \in {"commit", "abort"}
      BY <3>0, OpenShrinks
    <3> QED
      BY <3>1, <3>2, <3>3
  <2>2. ASSUME NEW s \in Slot, task'[s].pc = "insert",
               task'[s] # task[s] \/ task[s].pc # "insert"
        PROVE  /\ task'[s].token \in open[task'[s].job]
               /\ UNCHANGED open
    <3>1. BeginCheckpoint(s) /\ CheckpointLeaseSeen(task[s].job, task[s].token)
      BY <1>0, <2>2, InsertEntered
    <3>2. task'[s].token = task[s].token /\ task'[s].job = task[s].job
      BY <1>0, <3>1 DEF BeginCheckpoint, Goto, TypeOK, Task
    <3>3. lease[task[s].job] = task[s].token /\ task[s].token # 0
          /\ task[s].job \in Job
      BY <1>0, <3>1 DEF CheckpointLeaseSeen, BeginCheckpoint, At, Claims, Leased
    <3> QED
      BY <1>0, <3>1, <3>2, <3>3 DEF LeaseIffRunning, BeginCheckpoint, ledgerVars
  <2> QED
    BY <2>1, <2>2 DEF Writing
<1> QED
  BY <1>1, <1>2 DEF Checkpoints

\* A checkpoint names an attempt that was begun and is not older than the task
\* that wrote it, even if the lease passed on between the two reads.
THEOREM CheckpointsCorrect == Spec => []CheckpointNotBeforeWriter
<1>1. Ownership /\ Ownership' /\ Checkpoints /\ [Next]_vars => Checkpoints'
  BY NextCheckpoints
<1>2. Checkpoints => CheckpointNotBeforeWriter
  BY DEF Checkpoints
<1> QED
  BY <1>1, <1>2, InitCheckpoints, OwnershipAlways, PTL DEF Spec
=============================================================================
