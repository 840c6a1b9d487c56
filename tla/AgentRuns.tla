----------------------------- MODULE AgentRuns -----------------------------
(***************************************************************************)
(* Agent runs: the graph of agents/application/orchestrator.py executed by *)
(* the in-process supervisor of agents/application/supervisor.py, the row  *)
(* of the run (chat), its approval (tools) and the two user requests that  *)
(* race with it, "decide" and "cancel".                                    *)
(*                                                                         *)
(* A run has at most one task, whose control point is stage[r]:            *)
(*   none       no task                                                    *)
(*   scheduled  waiting for the semaphore of the supervisor                *)
(*   begin      start(), before its try block                              *)
(*   authority  resume(), revalidating the delegated authority             *)
(*   mark       in the node checkpoint[r], about to write RUNNING          *)
(*   check      about to read cancel_requested                             *)
(*   body       the rest of the node                                       *)
(*   wait .. report    the steps of _tool_node around the approval         *)
(*   answered, announce   the steps of _respond_node after its answer      *)
(*   caught, fail   the except block: _fail reads, then writes the run     *)
(*                                                                         *)
(* An operator whose name has the form X_Y is X with one plausible bug.    *)
(* No specification uses it; it stands beside X to show which property     *)
(* would report that bug.                                                  *)
(***************************************************************************)
EXTENDS Naturals, FiniteSets

CONSTANTS
  Run,            \* agent runs, one per user message
  Decider,        \* requests deciding an approval that may be in flight
  NoRun,          \* the run of a request that is not in flight
  Cancellable,    \* the runs whose users press cancel
  Capacity,       \* agent_max_concurrency of the supervisor
  MaxFaults       \* bound: process deaths and database failures

ASSUME NoRunAssumption == NoRun \notin Run
ASSUME CapacityAssumption == Capacity \in Nat \ {0}
ASSUME FaultsAssumption == MaxFaults \in Nat
ASSUME CancellableAssumption == Cancellable \subseteq Run

VARIABLES
  status,      \* agent_runs.status; "unsent" before the message exists
  cancel,      \* agent_runs.cancel_requested
  approval,    \* approval_requests.status of the tool call of the run
  checkpoint,  \* the next node of the graph, as the checkpointer has it
  risk,        \* the risk of the planned tool call
  executed,    \* times the tool has been called with effect
  answers,     \* assistant messages stored for the run
  stage,       \* control point of the task of the run
  resumptions, \* history: tasks of the run that resume() has scheduled
  decision,    \* the decide() requests
  withdrawal,  \* the cancel() request of the run
  faults       \* faults so far

vars == <<status, cancel, approval, checkpoint, risk, executed, answers,
          stage, resumptions, decision, withdrawal, faults>>

\* Variables of the rows and of the tool.
RunStatus == {"unsent", "queued", "running", "waiting_approval", "completed",
              "failed", "cancelled"}
Terminal == {"completed", "failed", "cancelled"}

Node == {"authenticate", "guardrails", "memory", "classify", "authorize",
         "route", "retrieve", "plan", "execute_tool", "verify",
         "create_artifact", "review", "respond", "end"}

\* The edges of _build_graph with the targets of its conditional edges.
Edge == {<<"authenticate", "guardrails">>, <<"guardrails", "memory">>,
         <<"memory", "classify">>, <<"classify", "authorize">>,
         <<"authorize", "route">>, <<"route", "review">>,
         <<"route", "retrieve">>, <<"route", "plan">>,
         <<"retrieve", "plan">>, <<"retrieve", "review">>,
         <<"plan", "execute_tool">>, <<"plan", "create_artifact">>,
         <<"plan", "review">>, <<"execute_tool", "verify">>,
         <<"verify", "review">>, <<"create_artifact", "review">>,
         <<"review", "respond">>}

\* Nodes that write RUNNING and then look for a cancellation, and those
\* that look for it only.
Marking == {"memory", "classify", "retrieve", "plan", "create_artifact",
            "respond"}
Checking == Marking \cup {"guardrails"}

Stage == {"none", "scheduled", "begin", "authority", "mark", "check", "body",
          "wait", "interrupt", "decided", "permit", "call", "report",
          "answered", "announce", "caught", "fail"}

\* Control points inside a try block that ends in _fail.
Guarded == Stage \ {"none", "scheduled", "begin", "caught", "fail"}
Admitted == Stage \ {"none", "scheduled"}

Active(r) == stage[r] # "none"

Goto(r, s) == stage' = [stage EXCEPT ![r] = s]

Idle == [step |-> "idle", run |-> NoRun, choice |-> "none"]

Init ==
  /\ status = [r \in Run |-> "unsent"]
  /\ cancel = [r \in Run |-> FALSE]
  /\ approval = [r \in Run |-> "none"]
  /\ checkpoint = [r \in Run |-> "authenticate"]
  /\ risk = [r \in Run |-> "none"]
  /\ executed = [r \in Run |-> 0]
  /\ answers = [r \in Run |-> 0]
  /\ stage = [r \in Run |-> "none"]
  /\ resumptions = [r \in Run |-> 0]
  /\ decision = [d \in Decider |-> Idle]
  /\ withdrawal = [r \in Run |-> "idle"]
  /\ faults = 0

RowsUnchanged == UNCHANGED <<cancel, approval, risk, answers>>
RequestsUnchanged == UNCHANGED <<decision, withdrawal, faults>>

-----------------------------------------------------------------------------
(* The supervisor.                                                         *)

\* ChatService.send_message: the run is created and its task scheduled.
SendMessage(r) ==
  /\ status[r] = "unsent"
  /\ status' = [status EXCEPT ![r] = "queued"]
  /\ Goto(r, "scheduled")
  /\ RowsUnchanged /\ RequestsUnchanged
  /\ UNCHANGED <<checkpoint, executed, resumptions>>

\* _bounded takes the semaphore and enters start() or resume().
Admit_CountsWaiting(r) ==
  /\ stage[r] = "scheduled"
  /\ Cardinality({q \in Run : \/ stage[q] \in Admitted
                             \/ status[q] = "waiting_approval"}) < Capacity
  /\ Goto(r, IF resumptions[r] > 0 THEN "authority" ELSE "begin")
  /\ RowsUnchanged /\ RequestsUnchanged
  /\ UNCHANGED <<status, checkpoint, executed, resumptions>>
Admit(r) ==
  /\ stage[r] = "scheduled"
  /\ Cardinality({q \in Run : stage[q] \in Admitted}) < Capacity
  /\ Goto(r, IF resumptions[r] > 0 THEN "authority" ELSE "begin")
  /\ RowsUnchanged /\ RequestsUnchanged
  /\ UNCHANGED <<status, checkpoint, executed, resumptions>>

\* Where the task of a run enters the node n.
Entry_SkipsRespond(n) == IF n \in Marking \ {"respond"} THEN "mark"
                         ELSE IF n = "guardrails" THEN "check" ELSE "body"
Entry(n) == IF n \in Marking THEN "mark"
            ELSE IF n \in Checking THEN "check" ELSE "body"

\* start(): RUNNING, then the first node.
Begin(r) ==
  /\ stage[r] = "begin"
  /\ status' = [status EXCEPT ![r] = "running"]
  /\ Goto(r, Entry("authenticate"))
  /\ RowsUnchanged /\ RequestsUnchanged
  /\ UNCHANGED <<checkpoint, executed, resumptions>>

\* resume(): the current authority is denied, the run fails.
Deny(r) ==
  /\ stage[r] = "authority"
  /\ Goto(r, "caught")
  /\ RowsUnchanged /\ RequestsUnchanged
  /\ UNCHANGED <<status, checkpoint, executed, resumptions>>

\* resume(): RUNNING, whatever the status was, and the graph re-enters the
\* node it was interrupted in; a finished graph has none and returns.
Reopen(r) ==
  /\ stage[r] = "authority"
  /\ status' = [status EXCEPT ![r] = "running"]
  /\ Goto(r, IF checkpoint[r] = "end" THEN "none" ELSE Entry(checkpoint[r]))
  /\ RowsUnchanged /\ RequestsUnchanged
  /\ UNCHANGED <<checkpoint, executed, resumptions>>

-----------------------------------------------------------------------------
(* The nodes.                                                              *)

\* The node is done: the checkpointer records the next one.
Advance(r, n) ==
  /\ <<checkpoint[r], n>> \in Edge
  /\ checkpoint' = [checkpoint EXCEPT ![r] = n]
  /\ Goto(r, Entry(n))

Mark(r) ==
  /\ stage[r] = "mark"
  /\ status' = [status EXCEPT ![r] = "running"]
  /\ Goto(r, "check")
  /\ RowsUnchanged /\ RequestsUnchanged
  /\ UNCHANGED <<checkpoint, executed, resumptions>>

\* _check_cancelled: the CancelledError it raises ends the task.
Check(r) ==
  /\ stage[r] = "check"
  /\ IF cancel[r] THEN /\ status' = [status EXCEPT ![r] = "cancelled"]
                       /\ Goto(r, "none")
                  ELSE /\ UNCHANGED status
                       /\ Goto(r, "body")
  /\ RowsUnchanged /\ RequestsUnchanged
  /\ UNCHANGED <<checkpoint, executed, resumptions>>

\* Every node but the tool's and the last; the planner picks the tool.
Proceed(r) ==
  /\ stage[r] = "body"
  /\ checkpoint[r] \notin {"execute_tool", "respond"}
  /\ \E n \in Node :
       /\ Advance(r, n)
       /\ IF n = "execute_tool"
          THEN \E k \in {"read_only", "mutating"} :
                 risk' = [risk EXCEPT ![r] = k]
          ELSE UNCHANGED risk
  /\ RequestsUnchanged
  /\ UNCHANGED <<status, cancel, approval, answers, executed,
                 resumptions>>

-----------------------------------------------------------------------------
(* The tool node and its approval.                                         *)

InTool(r, s) == checkpoint[r] = "execute_tool" /\ stage[r] = s

RequiresApproval_Never(r) == FALSE
RequiresApproval(r) == risk[r] # "read_only"

\* An unknown tool, invalid arguments, a rejection or a policy denial:
\* _rejected_tool returns an error result and the graph goes on.
Reject(r) ==
  /\ \/ InTool(r, "body")
     \/ InTool(r, "permit")
     \/ InTool(r, "decided") /\ approval[r] # "approved"
  /\ Advance(r, "verify")
  /\ RowsUnchanged /\ RequestsUnchanged
  /\ UNCHANGED <<status, executed, resumptions>>

\* The approval of the call is found or created.
RequestApproval(r) ==
  /\ InTool(r, "body")
  /\ RequiresApproval(r)
  /\ IF approval[r] = "none"
     THEN approval' = [approval EXCEPT ![r] = "pending"]
     ELSE UNCHANGED approval
  /\ Goto(r, "wait")
  /\ RequestsUnchanged
  /\ UNCHANGED <<status, cancel, risk, answers, checkpoint,
                 executed, resumptions>>

SkipApproval(r) ==
  /\ InTool(r, "body")
  /\ ~RequiresApproval(r)
  /\ Goto(r, "permit")
  /\ RowsUnchanged /\ RequestsUnchanged
  /\ UNCHANGED <<status, checkpoint, executed, resumptions>>

Wait(r) ==
  /\ InTool(r, "wait")
  /\ status' = [status EXCEPT ![r] = "waiting_approval"]
  /\ Goto(r, "interrupt")
  /\ RowsUnchanged /\ RequestsUnchanged
  /\ UNCHANGED <<checkpoint, executed, resumptions>>

\* interrupt() suspends the graph the first time, and returns in a task
\* that was scheduled by resume().
Interrupt(r) ==
  /\ InTool(r, "interrupt")
  /\ Goto(r, IF resumptions[r] > 0 THEN "decided" ELSE "none")
  /\ RowsUnchanged /\ RequestsUnchanged
  /\ UNCHANGED <<status, checkpoint, executed, resumptions>>

ReadDecision_Any(r) ==
  /\ InTool(r, "decided")
  /\ approval[r] # "none"
  /\ Goto(r, "permit")
  /\ RowsUnchanged /\ RequestsUnchanged
  /\ UNCHANGED <<status, checkpoint, executed, resumptions>>
ReadDecision(r) ==
  /\ InTool(r, "decided")
  /\ approval[r] = "approved"
  /\ Goto(r, "permit")
  /\ RowsUnchanged /\ RequestsUnchanged
  /\ UNCHANGED <<status, checkpoint, executed, resumptions>>

Permit(r) ==
  /\ InTool(r, "permit")
  /\ status' = [status EXCEPT ![r] = "running"]
  /\ Goto(r, "call")
  /\ RowsUnchanged /\ RequestsUnchanged
  /\ UNCHANGED <<checkpoint, executed, resumptions>>

\* call_tool: the tool acts, or reports an error without acting.
CallTool(r) ==
  /\ InTool(r, "call")
  /\ \E acts \in {0, 1} :
       executed' = [executed EXCEPT ![r] = @ + acts]
  /\ Goto(r, "report")
  /\ RowsUnchanged /\ RequestsUnchanged
  /\ UNCHANGED <<status, checkpoint, resumptions>>

Report(r) ==
  /\ InTool(r, "report")
  /\ Advance(r, "verify")
  /\ RowsUnchanged /\ RequestsUnchanged
  /\ UNCHANGED <<status, executed, resumptions>>

-----------------------------------------------------------------------------
(* The last node and the failures.                                         *)

\* The assistant message is stored.
Answer(r) ==
  /\ checkpoint[r] = "respond" /\ stage[r] = "body"
  /\ answers' = [answers EXCEPT ![r] = @ + 1]
  /\ Goto(r, "answered")
  /\ RequestsUnchanged
  /\ UNCHANGED <<status, cancel, approval, risk, checkpoint,
                 executed, resumptions>>

Complete(r) ==
  /\ stage[r] = "answered"
  /\ status' = [status EXCEPT ![r] = "completed"]
  /\ Goto(r, "announce")
  /\ RowsUnchanged /\ RequestsUnchanged
  /\ UNCHANGED <<checkpoint, executed, resumptions>>

\* RUN_COMPLETED is emitted and the graph has ended.
Announce(r) ==
  /\ stage[r] = "announce"
  /\ checkpoint' = [checkpoint EXCEPT ![r] = "end"]
  /\ Goto(r, "none")
  /\ RowsUnchanged /\ RequestsUnchanged
  /\ UNCHANGED <<status, executed, resumptions>>

\* An exception of the task, or the timeout of the graph, at any await of
\* a try block.
Raise(r) ==
  /\ stage[r] \in Guarded
  /\ Goto(r, "caught")
  /\ RowsUnchanged /\ RequestsUnchanged
  /\ UNCHANGED <<status, checkpoint, executed, resumptions>>

\* _fail leaves a cancelled run alone.
Catch_Retries(r) ==
  /\ stage[r] = "caught"
  /\ Goto(r, IF status[r] = "cancelled" THEN "none"
             ELSE IF resumptions[r] > 0 THEN "body" ELSE "fail")
  /\ RowsUnchanged /\ RequestsUnchanged
  /\ UNCHANGED <<status, checkpoint, executed, resumptions>>
Catch_SkipsResumed(r) ==
  /\ stage[r] = "caught"
  /\ Goto(r, IF status[r] = "cancelled" \/ resumptions[r] > 0 THEN "none" ELSE "fail")
  /\ RowsUnchanged /\ RequestsUnchanged
  /\ UNCHANGED <<status, checkpoint, executed, resumptions>>
Catch(r) ==
  /\ stage[r] = "caught"
  /\ Goto(r, IF status[r] = "cancelled" THEN "none" ELSE "fail")
  /\ RowsUnchanged /\ RequestsUnchanged
  /\ UNCHANGED <<status, checkpoint, executed, resumptions>>
Fail(r) ==
  /\ stage[r] = "fail"
  /\ status' = [status EXCEPT ![r] = "failed"]
  /\ Goto(r, "none")
  /\ RequestsUnchanged
  /\ UNCHANGED <<cancel, approval, risk, answers, checkpoint, executed,
                 resumptions>>

-----------------------------------------------------------------------------
(* ApprovalService.decide, one request d.                                  *)

ReadApproval(d, r) ==
  /\ decision[d].step = "idle"
  /\ approval[r] = "pending"
  /\ \E c \in {"approved", "rejected"} :
       decision' = [decision EXCEPT
                      ![d] = [step |-> "record", run |-> r, choice |-> c]]
  /\ UNCHANGED <<status, cancel, approval, checkpoint, risk, executed,
                 answers, stage, resumptions, withdrawal,
                 faults>>

\* Only the first decision is recorded; every request goes on to resume.
Record_Last(d) ==
  LET r == decision[d].run IN
  /\ decision[d].step = "record"
  /\ approval' = [approval EXCEPT ![r] = decision[d].choice]
  /\ decision' = [decision EXCEPT ![d].step = "resume"]
  /\ UNCHANGED <<status, cancel, checkpoint, risk, executed, answers,
                 stage, resumptions, withdrawal, faults>>
Record(d) ==
  LET r == decision[d].run IN
  /\ decision[d].step = "record"
  /\ IF approval[r] = "pending"
     THEN approval' = [approval EXCEPT ![r] = decision[d].choice]
     ELSE UNCHANGED approval
  /\ decision' = [decision EXCEPT ![d].step = "resume"]
  /\ UNCHANGED <<status, cancel, checkpoint, risk, executed, answers,
                 stage, resumptions, withdrawal, faults>>

\* AgentTaskSupervisor._schedule: nothing if the run has an active task.
ResumeRun(d) ==
  LET r == decision[d].run IN
  /\ decision[d].step = "resume"
  /\ IF Active(r)
     THEN UNCHANGED <<stage, resumptions>>
     ELSE /\ Goto(r, "scheduled")
          /\ resumptions' = [resumptions EXCEPT ![r] = @ + 1]
  /\ decision' = [decision EXCEPT ![d] = Idle]
  /\ UNCHANGED <<status, cancel, approval, checkpoint, risk, executed,
                 answers, withdrawal, faults>>

-----------------------------------------------------------------------------
(* ChatService.cancel, one request at a time for a run.                    *)

\* get_run: a queued or waiting run will be written CANCELLED below.
SeeRun(r) ==
  /\ r \in Cancellable
  /\ withdrawal[r] = "idle"
  /\ status[r] # "unsent"
  /\ withdrawal' =
       [withdrawal EXCEPT
          ![r] = IF status[r] \in {"queued", "waiting_approval"}
                 THEN "flag_and_write" ELSE "flag"]
  /\ UNCHANGED <<status, cancel, approval, checkpoint, risk, executed,
                 answers, stage, resumptions, decision,
                 faults>>

\* request_cancel.
FlagRun(r) ==
  /\ withdrawal[r] \in {"flag", "flag_and_write"}
  /\ cancel' = [cancel EXCEPT ![r] = TRUE]
  /\ withdrawal' = [withdrawal EXCEPT
                      ![r] = IF @ = "flag" THEN "idle" ELSE "write"]
  /\ UNCHANGED <<status, approval, checkpoint, risk, executed, answers,
                 stage, resumptions, decision, faults>>

\* The write that follows relies on the status read before the flag.
WriteCancelled(r) ==
  /\ withdrawal[r] = "write"
  /\ status' = [status EXCEPT ![r] = "cancelled"]
  /\ withdrawal' = [withdrawal EXCEPT ![r] = "idle"]
  /\ UNCHANGED <<cancel, approval, checkpoint, risk, executed, answers,
                 stage, resumptions, decision, faults>>

-----------------------------------------------------------------------------
(* Faults.                                                                 *)

\* A database failure outside the try blocks: in start() before its own,
\* or in _fail.  The exception ends the task.
Escape(r) ==
  /\ faults < MaxFaults
  /\ stage[r] \in {"begin", "caught", "fail"}
  /\ Goto(r, "none")
  /\ faults' = faults + 1
  /\ RowsUnchanged
  /\ UNCHANGED <<status, checkpoint, executed, resumptions, decision,
                 withdrawal>>

\* The process stops, cleanly (shutdown cancels the tasks, and "except
\* Exception" does not catch CancelledError) or not.
Crash ==
  /\ faults < MaxFaults
  /\ stage' = [r \in Run |-> "none"]
  /\ decision' = [d \in Decider |-> Idle]
  /\ withdrawal' = [r \in Run |-> "idle"]
  /\ faults' = faults + 1
  /\ RowsUnchanged
  /\ UNCHANGED <<status, checkpoint, executed, resumptions>>

-----------------------------------------------------------------------------
\* A step of the task of r.
Step(r) ==
  \/ Admit(r) \/ Begin(r) \/ Deny(r) \/ Reopen(r)
  \/ Mark(r) \/ Check(r) \/ Proceed(r)
  \/ Reject(r) \/ RequestApproval(r) \/ SkipApproval(r) \/ Wait(r)
  \/ Interrupt(r) \/ ReadDecision(r) \/ Permit(r) \/ CallTool(r) \/ Report(r)
  \/ Answer(r) \/ Complete(r) \/ Announce(r)
  \/ Raise(r) \/ Catch(r) \/ Fail(r)

Decide(d) == (\E r \in Run : ReadApproval(d, r)) \/ Record(d) \/ ResumeRun(d)

CancelRun(r) == SeeRun(r) \/ FlagRun(r) \/ WriteCancelled(r)

Next ==
  \/ \E r \in Run : SendMessage(r) \/ Step(r) \/ CancelRun(r) \/ Escape(r)
  \/ \E d \in Decider : Decide(d)
  \/ Crash

Spec == Init /\ [][Next]_vars

\* The event loop runs every task that can run, and a request that has been
\* started; nobody is obliged to send, to decide or to cancel.
Fairness ==
  /\ \A r \in Run : WF_vars(Step(r)) /\ WF_vars(FlagRun(r))
                    /\ WF_vars(WriteCancelled(r))
  /\ \A d \in Decider : WF_vars(Record(d)) /\ WF_vars(ResumeRun(d))

FairSpec == Spec /\ Fairness

-----------------------------------------------------------------------------
(* What the code promises.                                                 *)

\* Every variable stays in its type.
TypeOK ==
  /\ status \in [Run -> RunStatus]
  /\ cancel \in [Run -> BOOLEAN]
  /\ approval \in [Run -> {"none", "pending", "approved", "rejected"}]
  /\ checkpoint \in [Run -> Node]
  /\ risk \in [Run -> {"none", "read_only", "mutating"}]
  /\ executed \in [Run -> Nat]
  /\ answers \in [Run -> Nat]
  /\ stage \in [Run -> Stage]
  /\ resumptions \in [Run -> Nat]
  /\ decision \in [Decider -> [step : {"idle", "record", "resume"},
                               run : Run \cup {NoRun},
                               choice : {"none", "approved", "rejected"}]]
  /\ \A d \in Decider : decision[d].step # "idle" => decision[d].run \in Run
  /\ withdrawal \in [Run -> {"idle", "flag", "flag_and_write", "write"}]
  /\ faults \in Nat

\* A tool that changes something has acted only for a run whose user has
\* approved the call: across timeouts, resumes, competing decisions and
\* crashes no path of _tool_node reaches call_tool around the approval.
ToolNeedsApproval ==
  \A r \in Run : executed[r] > 0 /\ risk[r] # "read_only"
                   => approval[r] = "approved"

\* A decision is immutable: requests that both saw the approval pending
\* cannot replace each other's answer (SqlAlchemyApprovalRepository.decide).
DecisionIsImmutable ==
  [][\A r \in Run : approval[r] \in {"approved", "rejected"}
                      => approval'[r] = approval[r]]_vars

\* A tool acts at most once in the run of one message, and in a run that was
\* resumed at most once for each time a decision resumed it: whatever fails
\* after the call, only a further decision leads back to it.
CallsPerResumption ==
  \A r \in Run : executed[r] <= IF resumptions[r] > 0 THEN resumptions[r] ELSE 1

\* A run stores at most one assistant message, or one for each time a decision
\* resumed it.
AnswersPerResumption ==
  \A r \in Run : answers[r] <= IF resumptions[r] > 0 THEN resumptions[r] ELSE 1

\* Without a process death or a database failure no run is left behind: one
\* without a task is not queued or running, as nothing would move it.  The one
\* exception is an answered run that a further decision has resumed: its graph
\* has ended, and its row says RUNNING for ever.
NoRunLeftBehind ==
  \A r \in Run :
    faults = 0 /\ ~Active(r) /\ status[r] \in {"queued", "running"}
      => checkpoint[r] = "end" /\ answers[r] > 0 /\ resumptions[r] > 1

\* Nodes from which the planner's look for a cancellation is still to come.
BeforePlan == {"authenticate", "guardrails", "memory", "classify",
               "authorize", "route", "retrieve"}

\* Cooperative cancellation is effective from the next node on: once it is
\* requested before the planner's check no tool is ever called, and before
\* the last node is reached no answer is ever stored.
CancelStops ==
  \A r \in Run :
    /\ [](cancel[r] /\ checkpoint[r] \in BeforePlan => [](executed[r] = 0))
    /\ [](cancel[r] /\ checkpoint[r] \notin {"respond", "end"}
           => [](answers[r] = 0))

\* Without faults every run that is queued or running comes to an outcome, to
\* a question for its user or to its answer, with more runs than the supervisor
\* admits.  (A decision that resumes a run a second time, after it completed,
\* writes RUNNING over its outcome: that run has had its answer.)
RunsSettle ==
  \A r \in Run :
    status[r] \in {"queued", "running"}
      ~> \/ status[r] \in Terminal \cup {"waiting_approval"}
         \/ answers[r] > 0 \/ faults > 0

-----------------------------------------------------------------------------
(* The runs implement the promise of the approvals to their users.         *)

ToolGate == INSTANCE ToolGate WITH Call <- Run
ImplementsToolGate == ToolGate!Spec

-----------------------------------------------------------------------------
(* What the documentation says and the code does not do.                   *)

\* decide "resume[s] the run once": but requests that all saw the approval
\* pending go on to resume, one after the other, whoever recorded the decision.
ResumedOnce == \A r \in Run : resumptions[r] <= 1

\* "A run waiting for approval [...] can be cancelled": but a decision that
\* is recorded after that resumes it, and its tool is called.
CancelledWaitIsInert ==
  \A r \in Run : [](status[r] = "cancelled" /\ InTool(r, "none")
                      /\ executed[r] = 0 => [](executed[r] = 0))

\* decide "resume[s] the run once": but a decision made while the task that
\* asked for it has not yet ended resumes nothing, then or later.
DecisionResumes ==
  \A r \in Run :
    approval[r] \in {"approved", "rejected"} /\ status[r] = "waiting_approval"
      ~> status[r] # "waiting_approval"

=============================================================================
