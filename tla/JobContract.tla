----------------------------- MODULE JobContract -----------------------------
(***************************************************************************)
(* What the background-job ledger promises its users, job by job, with no  *)
(* worker, lease, clock or crash in sight.  A job is worked on by one      *)
(* numbered attempt at a time; there are never more attempts than the      *)
(* allowance; a result is published once, by the attempt in progress;      *)
(* nothing begins once the users want the job to stop; and nothing happens *)
(* to a finished job except that a user reopens a failed one with an       *)
(* allowance of one more attempt.  It does not promise that a job is       *)
(* cancelled only if somebody wants it to stop: an attempt that is         *)
(* interrupted ends its job as cancelled, whoever interrupted it.          *)
(***************************************************************************)
EXTENDS Naturals

CONSTANTS Job, Allowance

VARIABLE view

Phase == {"absent", "pending", "owned", "completed", "stopped", "cancelled"}

\* `attempt` is the number of attempts begun, `result` the attempt that
\* published one, `allowance` the attempts allowed so far, `wish` what the
\* users want of the job.
View == [phase : Phase, attempt : Nat, result : Nat, allowance : Nat,
         wish : {"run", "stop"}]

Absent ==
  [phase |-> "absent", attempt |-> 0, result |-> 0, allowance |-> Allowance,
   wish |-> "run"]

Submit(v, w) == v.phase = "absent" /\ w = [v EXCEPT !.phase = "pending"]

Begin(v, w) ==
  /\ v.phase = "pending" /\ v.attempt < v.allowance /\ v.wish = "run"
  /\ w = [v EXCEPT !.phase = "owned", !.attempt = @ + 1]

Succeed(v, w) ==
  /\ v.phase = "owned"
  /\ w = [v EXCEPT !.phase = "completed", !.result = v.attempt]

GiveBack(v, w) ==
  /\ v.phase = "owned" /\ v.attempt < v.allowance
  /\ w = [v EXCEPT !.phase = "pending"]

GiveUp(v, w) == v.phase = "owned" /\ w = [v EXCEPT !.phase = "stopped"]

AskToStop(v, w) == v.phase = "owned" /\ w = [v EXCEPT !.wish = "stop"]

Withdraw(v, w) ==
  /\ v.phase = "pending"
  /\ w = [v EXCEPT !.phase = "cancelled", !.wish = "stop"]

Interrupt(v, w) == v.phase = "owned" /\ w = [v EXCEPT !.phase = "cancelled"]

Reopen(v, w) ==
  /\ v.phase \in {"pending", "stopped"}
  /\ w = [v EXCEPT !.phase = "pending", !.allowance = @ + 1, !.wish = "run"]

Move(v, w) ==
  \/ Submit(v, w) \/ Begin(v, w) \/ Succeed(v, w) \/ GiveBack(v, w)
  \/ GiveUp(v, w) \/ AskToStop(v, w) \/ Withdraw(v, w) \/ Interrupt(v, w)
  \/ Reopen(v, w)

Init == view = [j \in Job |-> Absent]

\* One transaction may move several jobs: the recovery of lapsed leases does.
Next ==
  /\ view' \in [Job -> View]
  /\ \A j \in Job : view'[j] = view[j] \/ Move(view[j], view'[j])

Spec == Init /\ [][Next]_view
=============================================================================
