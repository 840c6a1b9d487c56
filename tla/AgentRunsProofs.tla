-------------------------- MODULE AgentRunsProofs --------------------------
(***************************************************************************)
(* Proofs about AgentRuns for every set of runs and of requests, every     *)
(* capacity and any number of faults.                                      *)
(*                                                                         *)
(* ToolNeedsApproval is not inductive: it has to know that a task past its *)
(* approval (Passed) was right to go on, and that planning, which sets the *)
(* risk of the call, comes before any call (Unplanned).                    *)
(***************************************************************************)
EXTENDS AgentRuns, TLAPS

\* A task about to call the tool has an approved call or a read.
Passed ==
  \A r \in Run : stage[r] \in {"permit", "call"} /\ risk[r] # "read_only"
                 => approval[r] = "approved"

\* Up to the planner no tool has been called.
Unplanned ==
  \A r \in Run : checkpoint[r] \in BeforePlan \cup {"plan"} => executed[r] = 0

IInv == TypeOK /\ ToolNeedsApproval /\ Passed /\ Unplanned

-----------------------------------------------------------------------------

\* A node of the graph is entered at one of three control points.
LEMMA EntryType ==
  \A n \in Node : Entry(n) \in {"mark", "check", "body"}
  BY DEF Entry

\* The initial state satisfies the inductive invariant.
LEMMA InitInvariant == Init => IInv
  BY DEF Init, IInv, TypeOK, ToolNeedsApproval, Passed, Unplanned, RunStatus,
         Node, Stage, Idle

-----------------------------------------------------------------------------
(* Types.                                                                  *)

LEMMA StepType ==
  ASSUME TypeOK, NEW r \in Run, Step(r)
  PROVE  TypeOK'
<1> USE EntryType DEF TypeOK, RunStatus, Stage, Goto, RowsUnchanged,
        RequestsUnchanged
<1>1. CASE Admit(r)
  BY <1>1 DEF Admit
<1>2. CASE Begin(r)
  BY <1>2 DEF Begin, Node
<1>3. CASE Deny(r)
  BY <1>3 DEF Deny
<1>4. CASE Reopen(r)
  BY <1>4 DEF Reopen
<1>5. CASE Mark(r)
  BY <1>5 DEF Mark
<1>6. CASE Check(r)
  <2>1. CASE cancel[r]
    BY <1>6, <2>1 DEF Check
  <2>2. CASE ~cancel[r]
    BY <1>6, <2>2 DEF Check
  <2> QED
    BY <2>1, <2>2
<1>7. CASE Proceed(r)
  BY <1>7 DEF Proceed, Advance
<1>8. CASE Reject(r)
  BY <1>8 DEF Reject, Advance, Node
<1>9. CASE RequestApproval(r)
  BY <1>9 DEF RequestApproval
<1>10. CASE SkipApproval(r)
  BY <1>10 DEF SkipApproval
<1>11. CASE Wait(r)
  BY <1>11 DEF Wait
<1>12. CASE Interrupt(r)
  BY <1>12 DEF Interrupt
<1>13. CASE ReadDecision(r)
  BY <1>13 DEF ReadDecision
<1>14. CASE Permit(r)
  BY <1>14 DEF Permit
<1>15. CASE CallTool(r)
  BY <1>15 DEF CallTool
<1>16. CASE Report(r)
  BY <1>16 DEF Report, Advance, Node
<1>17. CASE Answer(r)
  BY <1>17 DEF Answer
<1>18. CASE Complete(r)
  BY <1>18 DEF Complete
<1>19. CASE Announce(r)
  BY <1>19 DEF Announce, Node
<1>20. CASE Raise(r)
  BY <1>20 DEF Raise
<1>21. CASE Catch(r)
  BY <1>21 DEF Catch
<1>22. CASE Fail(r)
  BY <1>22 DEF Fail
<1> QED
  BY <1>1, <1>2, <1>3, <1>4, <1>5, <1>6, <1>7, <1>8, <1>9, <1>10, <1>11,
     <1>12, <1>13, <1>14, <1>15, <1>16, <1>17, <1>18, <1>19, <1>20, <1>21,
     <1>22 DEF Step

\* Requests and faults keep the types.
LEMMA NextType == TypeOK /\ [Next]_vars => TypeOK'
<1> SUFFICES ASSUME TypeOK, [Next]_vars PROVE TypeOK'
  OBVIOUS
<1> USE DEF TypeOK, RunStatus, Stage, Goto, RowsUnchanged, RequestsUnchanged
<1>1. CASE UNCHANGED vars
  BY <1>1 DEF vars
<1>2. ASSUME NEW r \in Run, SendMessage(r) PROVE TypeOK'
  BY <1>2 DEF SendMessage
<1>3. ASSUME NEW r \in Run, Step(r) PROVE TypeOK'
  BY <1>3, StepType
<1>4. ASSUME NEW r \in Run, CancelRun(r) PROVE TypeOK'
  <2>1. CASE SeeRun(r)
    BY <2>1 DEF SeeRun
  <2>2. CASE FlagRun(r)
    BY <2>2 DEF FlagRun
  <2>3. CASE WriteCancelled(r)
    BY <2>3 DEF WriteCancelled
  <2> QED
    BY <1>4, <2>1, <2>2, <2>3 DEF CancelRun
<1>5. ASSUME NEW r \in Run, Escape(r) PROVE TypeOK'
  BY <1>5 DEF Escape
<1>6. ASSUME NEW d \in Decider, Decide(d) PROVE TypeOK'
  <2>1. ASSUME NEW r \in Run, ReadApproval(d, r) PROVE TypeOK'
    BY <2>1 DEF ReadApproval
  <2>2. CASE Record(d)
    BY <2>2 DEF Record
  <2>3. CASE ResumeRun(d)
    BY <2>3 DEF ResumeRun, Idle
  <2> QED
    BY <1>6, <2>1, <2>2, <2>3 DEF Decide
<1>7. CASE Crash
  BY <1>7 DEF Crash, Idle
<1> QED
  BY <1>1, <1>2, <1>3, <1>4, <1>5, <1>6, <1>7 DEF Next

-----------------------------------------------------------------------------
(* The approval guards the call.                                           *)

\* What a step leaves of the three parts if it moves the task to a control
\* point before the approval and touches neither rows nor tool.
LEMMA HarmlessStep ==
  ASSUME IInv, NEW r \in Run, NEW s \in Stage \ {"permit", "call"}, Goto(r, s),
         UNCHANGED <<approval, risk, executed>>,
         \A q \in Run : checkpoint'[q] \in BeforePlan \cup {"plan"}
                        => checkpoint[q] \in BeforePlan \cup {"plan"}
  PROVE  ToolNeedsApproval' /\ Passed' /\ Unplanned'
  BY DEF IInv, TypeOK, ToolNeedsApproval, Passed, Unplanned, Goto, Stage

\* The planner's node and those before it are entered from such nodes only.
LEMMA EdgesLeavePlan ==
  \A m, n \in Node :
    <<m, n>> \in Edge /\ n \in BeforePlan \cup {"plan"}
      => m \in BeforePlan \cup {"plan"} /\ n # "execute_tool"
  BY DEF Edge, Node, BeforePlan

\* The tool is planned in the planner's node.
LEMMA ToolFollowsPlan ==
  \A m \in Node : <<m, "execute_tool">> \in Edge => m = "plan"
  BY DEF Edge, Node

\* No step of a task lets a tool act around the approval of its call.
LEMMA StepGuard ==
  ASSUME IInv, NEW r \in Run, Step(r)
  PROVE  ToolNeedsApproval' /\ Passed' /\ Unplanned'
<1>1. TypeOK
  BY DEF IInv
<1> DEFINE Calm == UNCHANGED <<approval, risk, executed, checkpoint>>
<1>2. ASSUME NEW s \in Stage \ {"permit", "call"}, Goto(r, s), Calm
      PROVE  ToolNeedsApproval' /\ Passed' /\ Unplanned'
  BY <1>2, HarmlessStep
<1>3. CASE \/ Admit(r) \/ Begin(r) \/ Deny(r) \/ Reopen(r) \/ Mark(r)
           \/ Check(r) \/ Wait(r) \/ Interrupt(r) \/ Complete(r) \/ Raise(r)
           \/ Catch(r) \/ Fail(r) \/ Answer(r)
  <2>1. Calm
    BY <1>3 DEF Admit, Begin, Deny, Reopen, Mark, Check, Wait, Interrupt,
       Complete, Raise, Catch, Fail, Answer, RowsUnchanged
  <2>2. \E s \in Stage \ {"permit", "call"} : Goto(r, s)
    <3>1. CASE Admit(r) \/ Begin(r) \/ Deny(r) \/ Mark(r)
      BY <3>1, EntryType DEF Admit, Begin, Deny, Mark, Stage, Node
    <3>2. CASE Reopen(r)
      BY <1>1, <3>2, EntryType DEF TypeOK, Reopen, Stage
    <3>3. CASE Check(r) \/ Wait(r) \/ Interrupt(r) \/ Complete(r)
      BY <3>3 DEF Check, Wait, Interrupt, Complete, Stage
    <3>4. CASE Raise(r) \/ Catch(r) \/ Fail(r) \/ Answer(r)
      BY <3>4 DEF Raise, Catch, Fail, Answer, Stage
    <3> QED
      BY <1>3, <3>1, <3>2, <3>3, <3>4
  <2> QED
    BY <1>2, <2>1, <2>2
<1>4. CASE Announce(r)
  <2>1. \A q \in Run : checkpoint'[q] \in BeforePlan \cup {"plan"}
                       => checkpoint[q] \in BeforePlan \cup {"plan"}
    BY <1>1, <1>4 DEF Announce, TypeOK, BeforePlan
  <2> QED
    BY <1>4, <2>1, HarmlessStep DEF Announce, RowsUnchanged, Stage
<1>5. ASSUME NEW n \in Node, Advance(r, n), UNCHANGED <<approval, risk, executed>>
      PROVE  ToolNeedsApproval' /\ Passed' /\ Unplanned'
  <2>1. Entry(n) \in Stage \ {"permit", "call"} /\ Goto(r, Entry(n))
    BY <1>5, EntryType DEF Advance, Stage
  <2>2. checkpoint[r] \in Node /\ <<checkpoint[r], n>> \in Edge
    BY <1>1, <1>5 DEF TypeOK, Advance
  <2>3. n \in BeforePlan \cup {"plan"}
          => checkpoint[r] \in BeforePlan \cup {"plan"}
    BY <2>2, EdgesLeavePlan
  <2>4. checkpoint' = [checkpoint EXCEPT ![r] = n]
    BY <1>5 DEF Advance
  <2>5. \A q \in Run : checkpoint'[q] \in BeforePlan \cup {"plan"}
                       => checkpoint[q] \in BeforePlan \cup {"plan"}
    BY <1>1, <2>3, <2>4 DEF TypeOK
  <2> QED
    BY <1>5, <2>1, <2>5, HarmlessStep
<1>6. CASE Reject(r) \/ Report(r)
  BY <1>5, <1>6 DEF Reject, Report, RowsUnchanged, Node
<1>7. CASE Proceed(r)
  <2>1. PICK n \in Node :
          /\ Advance(r, n)
          /\ IF n = "execute_tool"
             THEN \E k \in {"read_only", "mutating"} :
                    risk' = [risk EXCEPT ![r] = k]
             ELSE UNCHANGED risk
    BY <1>7 DEF Proceed
  <2>2. UNCHANGED <<approval, executed>>
    BY <1>7 DEF Proceed
  <2>3. CASE n # "execute_tool"
    BY <1>5, <2>1, <2>2, <2>3
  <2>4. CASE n = "execute_tool"
    <3>1. PICK k \in {"read_only", "mutating"} : risk' = [risk EXCEPT ![r] = k]
      BY <2>1, <2>4
    <3>2. checkpoint[r] = "plan" /\ checkpoint' = [checkpoint EXCEPT ![r] = n]
      BY <1>1, <2>1, <2>4, ToolFollowsPlan DEF TypeOK, Advance
    <3>3. executed[r] = 0
      BY <3>2 DEF IInv, Unplanned
    <3>4. ToolNeedsApproval'
      BY <1>1, <2>2, <3>1, <3>3 DEF IInv, TypeOK, ToolNeedsApproval
    <3>5. stage' = [stage EXCEPT ![r] = Entry(n)]
          /\ Entry(n) \notin {"permit", "call"}
      BY <2>1, EntryType DEF Advance, Goto
    <3>6. Passed'
      BY <1>1, <2>2, <3>1, <3>5 DEF IInv, TypeOK, Passed
    <3>7. Unplanned'
      BY <1>1, <2>2, <3>2, <3>3 DEF IInv, TypeOK, Unplanned
    <3> QED
      BY <3>4, <3>6, <3>7
  <2> QED
    BY <2>3, <2>4
<1>8. CASE RequestApproval(r)
  <2>1. approval[r] # "none" => UNCHANGED approval
    BY <1>8 DEF RequestApproval
  <2>2. UNCHANGED <<risk, executed, checkpoint>> /\ Goto(r, "wait")
    BY <1>8 DEF RequestApproval
  <2>3. \A q \in Run : approval[q] = "approved" => approval'[q] = "approved"
    BY <1>1, <1>8 DEF RequestApproval, TypeOK
  <2> QED
    BY <1>1, <2>2, <2>3 DEF IInv, TypeOK, ToolNeedsApproval, Passed,
       Unplanned, Goto
<1>9. CASE SkipApproval(r) \/ ReadDecision(r) \/ Permit(r)
  <2>1. Calm
    BY <1>9 DEF SkipApproval, ReadDecision, Permit, RowsUnchanged
  <2>2. risk[r] # "read_only" => approval[r] = "approved"
    BY <1>9 DEF SkipApproval, ReadDecision, Permit, RequiresApproval, InTool,
       IInv, Passed
  <2>3. \A q \in Run : q # r => stage'[q] = stage[q]
    BY <1>1, <1>9 DEF SkipApproval, ReadDecision, Permit, Goto, TypeOK
  <2> QED
    BY <2>1, <2>2, <2>3 DEF IInv, ToolNeedsApproval, Passed, Unplanned
<1>10. CASE CallTool(r)
  <2>1. PICK acts \in {0, 1} : executed' = [executed EXCEPT ![r] = @ + acts]
    BY <1>10 DEF CallTool
  <2>2. UNCHANGED <<approval, risk, checkpoint>> /\ Goto(r, "report")
    BY <1>10 DEF CallTool, RowsUnchanged
  <2>3. checkpoint[r] \notin BeforePlan \cup {"plan"}
    BY <1>10 DEF CallTool, InTool, BeforePlan
  <2>4. risk[r] # "read_only" => approval[r] = "approved"
    BY <1>10 DEF CallTool, InTool, IInv, Passed
  <2>5. \A q \in Run : q # r => executed'[q] = executed[q]
    BY <1>1, <2>1 DEF TypeOK
  <2>6. Passed'
    BY <1>1, <2>2 DEF IInv, TypeOK, Passed, Goto
  <2> QED
    BY <2>2, <2>3, <2>4, <2>5, <2>6 DEF IInv, ToolNeedsApproval, Unplanned
<1> QED
  BY <1>3, <1>4, <1>6, <1>7, <1>8, <1>9, <1>10 DEF Step

\* Every step keeps the inductive invariant.
LEMMA NextInvariant == IInv /\ [Next]_vars => IInv'
<1> SUFFICES ASSUME IInv, [Next]_vars
             PROVE  ToolNeedsApproval' /\ Passed' /\ Unplanned'
  BY NextType DEF IInv
<1>1. TypeOK
  BY DEF IInv
<1> USE DEF ToolNeedsApproval, Passed, Unplanned
<1>2. CASE UNCHANGED vars
  BY <1>2 DEF vars, IInv
<1>3. ASSUME NEW r \in Run, Step(r)
      PROVE  ToolNeedsApproval' /\ Passed' /\ Unplanned'
  BY <1>3, StepGuard
<1>4. ASSUME NEW r \in Run, SendMessage(r) \/ CancelRun(r) \/ Escape(r)
      PROVE  ToolNeedsApproval' /\ Passed' /\ Unplanned'
  <2>1. UNCHANGED <<approval, risk, executed, checkpoint>>
    BY <1>4 DEF SendMessage, CancelRun, SeeRun, FlagRun, WriteCancelled,
       Escape, RowsUnchanged
  <2>2. \A q \in Run : stage'[q] \in {"permit", "call"} => stage'[q] = stage[q]
    BY <1>1, <1>4 DEF SendMessage, CancelRun, SeeRun, FlagRun,
       WriteCancelled, Escape, Goto, TypeOK
  <2> QED
    BY <2>1, <2>2 DEF IInv
<1>5. ASSUME NEW d \in Decider, Decide(d)
      PROVE  ToolNeedsApproval' /\ Passed' /\ Unplanned'
  <2>1. UNCHANGED <<risk, executed, checkpoint>>
    BY <1>5 DEF Decide, ReadApproval, Record, ResumeRun
  <2>2. \A q \in Run : stage'[q] \in {"permit", "call"} => stage'[q] = stage[q]
    BY <1>1, <1>5 DEF Decide, ReadApproval, Record, ResumeRun, Goto, TypeOK
  <2>3. \A q \in Run : approval[q] = "approved" => approval'[q] = "approved"
    BY <1>1, <1>5 DEF Decide, ReadApproval, Record, ResumeRun, TypeOK
  <2> QED
    BY <2>1, <2>2, <2>3 DEF IInv
<1>6. CASE Crash
  BY <1>1, <1>6 DEF Crash, RowsUnchanged, IInv
<1> QED
  BY <1>2, <1>3, <1>4, <1>5, <1>6 DEF Next

-----------------------------------------------------------------------------
(* The theorems.                                                           *)

LEMMA Invariance == Spec => []IInv
<1>1. Init => IInv
  BY InitInvariant
<1>2. IInv /\ [Next]_vars => IInv'
  BY NextInvariant
<1> QED
  BY <1>1, <1>2, PTL DEF Spec

\* Rows, tasks and requests keep their types.
THEOREM TypeCorrect == Spec => []TypeOK
<1>1. IInv => TypeOK
  BY DEF IInv
<1> QED
  BY <1>1, Invariance, PTL

\* A tool that changes something acts only with the approval of its user.
THEOREM ToolGuarded == Spec => []ToolNeedsApproval
<1>1. IInv => ToolNeedsApproval
  BY DEF IInv
<1> QED
  BY <1>1, Invariance, PTL

\* A step of a task creates approvals and never touches a decided one.
LEMMA StepKeepsDecisions ==
  ASSUME TypeOK, NEW q \in Run, Step(q), NEW r \in Run,
         approval[r] \in {"approved", "rejected"}
  PROVE  approval'[r] = approval[r]
<1>1. CASE RequestApproval(q)
  BY <1>1 DEF RequestApproval, TypeOK
<1>2. CASE ~RequestApproval(q)
  BY <1>2 DEF Step, Admit, Begin, Deny, Reopen, Mark, Check, Proceed, Reject,
     SkipApproval, Wait, Interrupt, ReadDecision, Permit, CallTool, Report,
     Answer, Complete, Announce, Raise, Catch, Fail, RowsUnchanged
<1> QED
  BY <1>1, <1>2

\* Neither a competing request nor anything else replaces a decision.
THEOREM DecisionStays == Spec => DecisionIsImmutable
<1> DEFINE Stays == \A r \in Run : approval[r] \in {"approved", "rejected"}
                                   => approval'[r] = approval[r]
<1>1. TypeOK /\ [Next]_vars => [Stays]_vars
  <2> SUFFICES ASSUME TypeOK, Next, NEW r \in Run,
                      approval[r] \in {"approved", "rejected"}
               PROVE  approval'[r] = approval[r]
    OBVIOUS
  <2>1. ASSUME NEW q \in Run, Step(q) PROVE approval'[r] = approval[r]
    BY <2>1, StepKeepsDecisions
  <2>2. ASSUME NEW q \in Run, SendMessage(q) \/ CancelRun(q) \/ Escape(q)
        PROVE  approval'[r] = approval[r]
    BY <2>2 DEF SendMessage, CancelRun, SeeRun, FlagRun, WriteCancelled,
       Escape, RowsUnchanged
  <2>3. ASSUME NEW d \in Decider, Decide(d) PROVE approval'[r] = approval[r]
    BY <2>3 DEF Decide, ReadApproval, Record, ResumeRun, TypeOK
  <2>4. CASE Crash
    BY <2>4 DEF Crash, RowsUnchanged
  <2> QED
    BY <2>1, <2>2, <2>3, <2>4 DEF Next
<1> QED
  BY <1>1, TypeCorrect, PTL DEF Spec, DecisionIsImmutable

-----------------------------------------------------------------------------

(***************************************************************************)
(* A run acts and answers once, or once for each time a decision resumed   *)
(* it; no run is left behind but one that was resumed after its answer;    *)
(* and the approvals keep their promise (ToolGate): for every set of runs  *)
(* and of requests, every capacity and any number of faults.               *)
(*                                                                         *)
(* The invariant says what a task finds: the one its message starts, and   *)
(* those that decisions resume, whose number bounds what they do.  Every   *)
(* part of it speaks of one run.                                           *)
(***************************************************************************)

\* Nodes after the tool's.
AfterTool == {"verify", "review", "respond", "end"}

Decided(r) == approval[r] \in {"approved", "rejected"}
Deciding(r) == \E d \in Decider : decision[d].step # "idle" /\ decision[d].run = r

\* What the tasks of a run may do: its first one, if nobody has to be asked,
\* or those that were resumed.
Allowed(r) == IF approval[r] = "none" THEN 1 ELSE resumptions[r]

\* A run that was not sent has done nothing.
Fresh(r) ==
  /\ status[r] = "unsent" => stage[r] = "none" /\ approval[r] = "none"
                             /\ resumptions[r] = 0 /\ checkpoint[r] = "authenticate"
  /\ resumptions[r] = 0 /\ stage[r] \in {"scheduled", "begin"} => checkpoint[r] = "authenticate"
  /\ stage[r] = "begin" => resumptions[r] = 0

\* The risk is set by the planner, for good, and only a call that changes
\* something is asked for.
Risked(r) ==
  /\ checkpoint[r] \in BeforePlan \cup {"plan"} => risk[r] = "none"
  /\ checkpoint[r] = "execute_tool" => risk[r] # "none"
  /\ approval[r] # "none" => risk[r] = "mutating"
                             /\ checkpoint[r] \in {"execute_tool"} \cup AfterTool

\* The first task of a run ends with its question; the others go on with it.
TwoTasks(r) ==
  /\ resumptions[r] = 0 /\ approval[r] # "none" =>
       /\ checkpoint[r] = "execute_tool"
       /\ stage[r] \in {"wait", "interrupt", "none", "caught", "fail"}
  /\ resumptions[r] > 0 => Decided(r)
  /\ stage[r] \in {"authority", "decided"} => resumptions[r] > 0
  /\ stage[r] \in {"permit", "call", "report"} => resumptions[r] > 0 \/ approval[r] = "none"
  /\ checkpoint[r] = "end" /\ stage[r] \in {"scheduled", "authority"} => resumptions[r] > 1

\* The control points of the tool's node and of the last one are in it.
Placed(r) ==
  /\ stage[r] \in {"wait", "interrupt", "decided", "permit", "call", "report"}
       => checkpoint[r] = "execute_tool"
  /\ stage[r] \in {"answered", "announce"} => checkpoint[r] = "respond"
  /\ checkpoint[r] = "end" => stage[r] \in {"none", "scheduled", "authority", "caught", "fail"}

\* A tool that has acted is behind its task, and only a further task leads
\* back to it.
Acted(r) ==
  /\ executed[r] <= Allowed(r)
  /\ executed[r] > 0 => checkpoint[r] \in {"execute_tool"} \cup AfterTool
  /\ checkpoint[r] = "execute_tool" =>
       /\ stage[r] \in {"scheduled", "authority", "mark", "check", "body", "decided",
                        "permit", "call"} => executed[r] < Allowed(r)
       /\ stage[r] \in {"wait", "interrupt"} /\ resumptions[r] > 0 => executed[r] < Allowed(r)

\* An answer that is stored is behind its task.
Answered(r) ==
  /\ answers[r] <= Allowed(r)
  /\ answers[r] > 0 => checkpoint[r] \in {"respond", "end"}
  /\ checkpoint[r] = "respond" /\ stage[r] \in {"scheduled", "authority", "mark", "check", "body"}
       => answers[r] < Allowed(r)
  /\ stage[r] \in {"answered", "announce"} \/ checkpoint[r] = "end" => answers[r] > 0

\* Without faults a task ends with what its run is to be, but for one that
\* finds its graph at the end.
Ended(r) ==
  faults = 0 =>
    /\ stage[r] = "none" => \/ status[r] \notin {"queued", "running"}
                            \/ checkpoint[r] = "end" /\ resumptions[r] > 1
    /\ stage[r] = "interrupt" => status[r] \in {"waiting_approval", "cancelled"}
    /\ stage[r] = "announce" => status[r] \in {"completed", "cancelled"}

Sequel(r) ==
  Fresh(r) /\ Risked(r) /\ TwoTasks(r) /\ Placed(r) /\ Acted(r) /\ Answered(r) /\ Ended(r)

\* What a request is about to record or to resume.
Recording ==
  \A d \in Decider :
    /\ decision[d].step = "record" => /\ approval[decision[d].run] # "none"
                                       /\ decision[d].choice \in {"approved", "rejected"}
    /\ decision[d].step = "resume" => Decided(decision[d].run)

Once == TypeOK /\ (\A r \in Run : Sequel(r)) /\ Recording

-----------------------------------------------------------------------------

\* The initial state satisfies the invariant.
LEMMA InitOnce == Init => Once
<1> SUFFICES ASSUME Init PROVE Once
  OBVIOUS
<1>1. TypeOK
  BY InitInvariant DEF IInv
<1>2. Recording
  BY DEF Init, Recording, Idle
<1>3. ASSUME NEW r \in Run PROVE Sequel(r)
  BY <1>3 DEF Init, Idle, Sequel, Fresh, Risked, TwoTasks, Placed, Acted, Answered, Ended,
     Decided, Allowed, AfterTool, BeforePlan
<1> QED
  BY <1>1, <1>2, <1>3 DEF Once

\* Where the edges lead.
LEMMA EdgeTargets ==
  ASSUME NEW m \in Node, NEW n \in Node, <<m, n>> \in Edge
  PROVE  /\ m \notin {"respond", "end"} /\ n # "end" /\ n # "authenticate"
         /\ m = "execute_tool" => n = "verify"
         /\ m \in {"verify", "create_artifact", "review"} => n \in {"review", "respond"}
         /\ n \in BeforePlan \cup {"plan"} => m \in BeforePlan
         /\ n = "execute_tool" => m = "plan"
         /\ n = "respond" => m = "review"
BY DEF Edge, Node, BeforePlan

\* A step of a task leaves the other runs as they are.
LEMMA StepFrame ==
  ASSUME TypeOK, NEW r \in Run, Step(r), NEW q \in Run, q # r
  PROVE  /\ status'[q] = status[q] /\ cancel'[q] = cancel[q] /\ approval'[q] = approval[q]
         /\ checkpoint'[q] = checkpoint[q] /\ risk'[q] = risk[q]
         /\ executed'[q] = executed[q] /\ answers'[q] = answers[q]
         /\ stage'[q] = stage[q] /\ resumptions'[q] = resumptions[q]
<1> USE DEF TypeOK, Goto, RowsUnchanged, RequestsUnchanged
<1>1. CASE Admit(r) \/ Begin(r) \/ Deny(r) \/ Reopen(r) \/ Mark(r) \/ Check(r)
  BY <1>1 DEF Admit, Begin, Deny, Reopen, Mark, Check
<1>2. CASE Proceed(r) \/ Reject(r) \/ RequestApproval(r) \/ SkipApproval(r) \/ Wait(r)
  BY <1>2 DEF Proceed, Reject, Advance, RequestApproval, SkipApproval, Wait
<1>3. CASE Interrupt(r) \/ ReadDecision(r) \/ Permit(r) \/ CallTool(r) \/ Report(r)
  BY <1>3 DEF Interrupt, ReadDecision, Permit, CallTool, Report, Advance
<1>4. CASE Answer(r) \/ Complete(r) \/ Announce(r) \/ Raise(r) \/ Catch(r) \/ Fail(r)
  BY <1>4 DEF Answer, Complete, Announce, Raise, Catch, Fail
<1> QED
  BY <1>1, <1>2, <1>3, <1>4 DEF Step

\* A step of a task sees no request and no fault.
LEMMA StepRequests ==
  ASSUME NEW r \in Run, Step(r)
  PROVE  UNCHANGED <<decision, withdrawal, faults>>
BY DEF Step, RequestsUnchanged, Admit, Begin, Deny, Reopen, Mark, Check, Proceed, Reject,
   RequestApproval, SkipApproval, Wait, Interrupt, ReadDecision, Permit, CallTool, Report,
   Answer, Complete, Announce, Raise, Catch, Fail

-----------------------------------------------------------------------------
(* A task.                                                                 *)

\* What a run has is as it was.
Same(q) ==
  /\ status'[q] = status[q] /\ approval'[q] = approval[q]
  /\ checkpoint'[q] = checkpoint[q] /\ risk'[q] = risk[q]
  /\ executed'[q] = executed[q] /\ answers'[q] = answers[q]
  /\ stage'[q] = stage[q] /\ resumptions'[q] = resumptions[q]

LEMMA SameSequel ==
  ASSUME NEW q \in Run, Sequel(q), Same(q), faults' # 0 \/ faults' = faults
  PROVE  Sequel(q)'
BY DEF Same, Sequel, Fresh, Risked, TwoTasks, Placed, Acted, Answered, Ended, Decided, Allowed

\* One step of the task of r, for r itself.
LEMMA StepSequel ==
  ASSUME TypeOK, NEW r \in Run, Step(r), Sequel(r)
  PROVE  Sequel(r)'
<1> DEFINE Rows == /\ approval'[r] = approval[r] /\ risk'[r] = risk[r]
                   /\ answers'[r] = answers[r] /\ executed'[r] = executed[r]
           Place == checkpoint'[r] = checkpoint[r] /\ resumptions'[r] = resumptions[r]
<1>0. /\ faults' = faults /\ executed[r] \in Nat /\ answers[r] \in Nat
      /\ resumptions[r] \in Nat /\ stage[r] \in Stage
  BY StepRequests DEF TypeOK
<1> USE DEF Sequel, Fresh, Risked, TwoTasks, Placed, Acted, Answered, Ended, Decided, Allowed
<1>1. CASE Admit(r) \/ Begin(r) \/ Deny(r) \/ Reopen(r)
  <2>1. Rows /\ Place
    BY <1>1 DEF Admit, Begin, Deny, Reopen, RowsUnchanged
  <2>2. checkpoint[r] \in Node
    BY DEF TypeOK
  <2>3. CASE Admit(r)
    <3>1. stage[r] = "scheduled" /\ status'[r] = status[r]
          /\ stage'[r] = IF resumptions[r] > 0 THEN "authority" ELSE "begin"
      BY <2>3 DEF Admit, Goto, TypeOK
    <3> QED
      BY <1>0, <2>1, <3>1
  <2>4. CASE Begin(r)
    <3>1. stage[r] = "begin" /\ status'[r] = "running" /\ stage'[r] = "body"
      BY <2>4 DEF Begin, Goto, TypeOK, Entry, Marking, Checking
    <3> QED
      BY <1>0, <2>1, <3>1
  <2>5. CASE Deny(r)
    <3>1. stage[r] = "authority" /\ status'[r] = status[r] /\ stage'[r] = "caught"
      BY <2>5 DEF Deny, Goto, TypeOK
    <3> QED
      BY <1>0, <2>1, <3>1
  <2>6. CASE Reopen(r)
    <3>1. /\ stage[r] = "authority" /\ status'[r] = "running"
          /\ stage'[r] = IF checkpoint[r] = "end" THEN "none" ELSE Entry(checkpoint[r])
      BY <2>6 DEF Reopen, Goto, TypeOK
    <3>2. stage'[r] \in {"none", "mark", "check", "body"}
      BY <2>2, <3>1, EntryType
    <3>3. stage'[r] = "none" <=> checkpoint[r] = "end"
      BY <2>2, <3>1, EntryType
    <3>4. resumptions[r] > 0 /\ approval[r] # "none" /\ status[r] # "unsent"
      BY <1>0, <3>1
    <3>5. checkpoint[r] \in {"execute_tool"} \cup AfterTool
      BY <3>4
    <3> QED
      BY <1>0, <2>1, <3>1, <3>2, <3>3, <3>4, <3>5 DEF BeforePlan
  <2> QED
    BY <1>1, <2>3, <2>4, <2>5, <2>6
<1>2. CASE Mark(r) \/ Check(r) \/ Wait(r) \/ Interrupt(r) \/ SkipApproval(r)
           \/ ReadDecision(r) \/ Permit(r)
  <2>1. Rows /\ Place
    BY <1>2 DEF Mark, Check, Wait, Interrupt, SkipApproval, ReadDecision, Permit, RowsUnchanged
  <2>2. CASE Mark(r)
    <3>1. stage[r] = "mark" /\ status'[r] = "running" /\ stage'[r] = "check"
      BY <2>2 DEF Mark, Goto, TypeOK
    <3> QED
      BY <1>0, <2>1, <3>1
  <2>3. CASE Check(r)
    <3>1. /\ stage[r] = "check"
          /\ \/ stage'[r] = "none" /\ status'[r] = "cancelled"
             \/ stage'[r] = "body" /\ status'[r] = status[r]
      BY <2>3 DEF Check, Goto, TypeOK
    <3>2. CASE stage'[r] = "none" /\ status'[r] = "cancelled"
      BY <1>0, <2>1, <3>1, <3>2
    <3>3. CASE stage'[r] = "body" /\ status'[r] = status[r]
      BY <1>0, <2>1, <3>1, <3>3
    <3> QED
      BY <3>1, <3>2, <3>3
  <2>4. CASE Wait(r)
    <3>1. stage[r] = "wait" /\ status'[r] = "waiting_approval" /\ stage'[r] = "interrupt"
      BY <2>4 DEF Wait, InTool, Goto, TypeOK
    <3> QED
      BY <1>0, <2>1, <3>1
  <2>5. CASE Interrupt(r)
    <3>1. stage[r] = "interrupt" /\ status'[r] = status[r]
          /\ stage'[r] = IF resumptions[r] > 0 THEN "decided" ELSE "none"
      BY <2>5 DEF Interrupt, InTool, Goto, TypeOK
    <3> QED
      BY <1>0, <2>1, <3>1
  <2>6. CASE SkipApproval(r)
    <3>1. stage[r] = "body" /\ status'[r] = status[r] /\ stage'[r] = "permit"
          /\ checkpoint[r] = "execute_tool" /\ risk[r] = "read_only"
      BY <2>6 DEF SkipApproval, RequiresApproval, InTool, Goto, TypeOK
    <3> QED
      BY <1>0, <2>1, <3>1
  <2>7. CASE ReadDecision(r)
    <3>1. stage[r] = "decided" /\ status'[r] = status[r] /\ stage'[r] = "permit"
      BY <2>7 DEF ReadDecision, InTool, Goto, TypeOK
    <3> QED
      BY <1>0, <2>1, <3>1
  <2>8. CASE Permit(r)
    <3>1. stage[r] = "permit" /\ status'[r] = "running" /\ stage'[r] = "call"
      BY <2>8 DEF Permit, InTool, Goto, TypeOK
    <3> QED
      BY <1>0, <2>1, <3>1
  <2> QED
    BY <1>2, <2>2, <2>3, <2>4, <2>5, <2>6, <2>7, <2>8
<1>3. CASE Proceed(r) \/ Reject(r) \/ Report(r)
  <2>1. PICK n \in Node : /\ Advance(r, n)
                          /\ n = "verify" \/ Proceed(r)
                          /\ n = "execute_tool" \/ risk' = risk
                          /\ n = "execute_tool" =>
                               \E k \in {"read_only", "mutating"} : risk' = [risk EXCEPT ![r] = k]
    BY <1>3 DEF Proceed, Reject, Report, RowsUnchanged, Node
  <2>2. /\ status'[r] = status[r] /\ approval'[r] = approval[r] /\ answers'[r] = answers[r]
        /\ executed'[r] = executed[r] /\ resumptions'[r] = resumptions[r]
    BY <1>3 DEF Proceed, Reject, Report, RowsUnchanged
  <2>3. /\ checkpoint[r] \in Node /\ <<checkpoint[r], n>> \in Edge
        /\ checkpoint'[r] = n /\ stage'[r] = Entry(n)
    BY <2>1 DEF Advance, Goto, TypeOK
  <2>4. stage'[r] \in {"mark", "check", "body"}
    BY <2>3, EntryType
  <2>5. /\ checkpoint[r] \notin {"respond", "end"} /\ n # "end" /\ n # "authenticate"
        /\ checkpoint[r] = "execute_tool" => n = "verify"
        /\ checkpoint[r] \in {"verify", "create_artifact", "review"} => n \in {"review", "respond"}
        /\ n \in BeforePlan \cup {"plan"} => checkpoint[r] \in BeforePlan
        /\ n = "execute_tool" => checkpoint[r] = "plan"
    BY <2>3, EdgeTargets
  <2>6. CASE checkpoint[r] \in BeforePlan \cup {"plan", "create_artifact"}
    <3>1. approval[r] = "none" /\ executed[r] = 0 /\ answers[r] = 0 /\ resumptions[r] = 0
      BY <1>0, <2>6 DEF BeforePlan, AfterTool
    <3>2. n \in BeforePlan \cup {"plan"} => risk'[r] = "none"
      BY <2>1, <2>5, <2>6 DEF BeforePlan
    <3>3. n = "execute_tool" => risk'[r] # "none"
      BY <2>1 DEF TypeOK
    <3>4. stage[r] \notin {"scheduled", "begin", "authority", "none"}
      BY <1>3, <2>6 DEF Proceed, Reject, InTool, Report
    <3>5. status[r] # "unsent"
      BY <3>4
    <3>6. Allowed(r)' = 1
      BY <2>2, <3>1
    <3>7. Fresh(r)' /\ TwoTasks(r)' /\ Placed(r)' /\ Ended(r)'
      BY <1>0, <2>2, <2>3, <2>4, <2>5, <3>1, <3>5
    <3>8. Risked(r)'
      BY <2>2, <2>3, <3>1, <3>2, <3>3
    <3>9. Acted(r)' /\ Answered(r)'
      BY <2>2, <2>3, <2>4, <2>5, <3>1, <3>6
    <3> QED
      BY <3>7, <3>8, <3>9
  <2>7. CASE checkpoint[r] = "execute_tool"
    <3>1. stage[r] \in {"body", "permit", "decided", "report"}
      BY <1>3, <2>7 DEF Proceed, Reject, InTool, Report
    <3>2. n = "verify" /\ risk'[r] = risk[r]
      BY <2>1, <2>5, <2>7
    <3>3. status[r] # "unsent"
      BY <3>1
    <3>4. answers[r] = 0
      BY <1>0, <2>7
    <3> QED
      BY <1>0, <2>2, <2>3, <2>4, <2>7, <3>1, <3>2, <3>3, <3>4 DEF BeforePlan, AfterTool
  <2>8. CASE checkpoint[r] \in {"verify", "review"}
    <3>1. stage[r] = "body"
      BY <1>3, <2>8 DEF Proceed, Reject, InTool, Report
    <3>2. n \in {"review", "respond"} /\ risk'[r] = risk[r]
      BY <2>1, <2>5, <2>8
    <3>3. status[r] # "unsent"
      BY <3>1
    <3>4. answers[r] = 0 /\ Allowed(r) > 0
      BY <1>0, <2>8 DEF TypeOK
    <3> QED
      BY <1>0, <2>2, <2>3, <2>4, <2>8, <3>1, <3>2, <3>3, <3>4 DEF BeforePlan, AfterTool
  <2> QED
    BY <2>3, <2>5, <2>6, <2>7, <2>8 DEF Node, BeforePlan
<1>4. CASE RequestApproval(r)
  <2>1. /\ checkpoint[r] = "execute_tool" /\ stage[r] = "body" /\ stage'[r] = "wait"
        /\ risk[r] # "read_only"
        /\ approval'[r] = IF approval[r] = "none" THEN "pending" ELSE approval[r]
        /\ status'[r] = status[r] /\ risk'[r] = risk[r] /\ answers'[r] = answers[r]
        /\ executed'[r] = executed[r] /\ checkpoint'[r] = checkpoint[r]
        /\ resumptions'[r] = resumptions[r]
    BY <1>4 DEF RequestApproval, RequiresApproval, InTool, Goto, TypeOK
  <2>2. risk[r] = "mutating"
    BY <2>1 DEF TypeOK
  <2>3. answers[r] = 0 /\ executed[r] < Allowed(r)
    BY <1>0, <2>1
  <2>4. Allowed(r)' = resumptions[r]
    BY <2>1
  <2>5. approval[r] = "none" => resumptions[r] = 0 /\ executed[r] = 0
    BY <1>0, <2>3
  <2> QED
    BY <1>0, <2>1, <2>2, <2>3, <2>4, <2>5 DEF BeforePlan, AfterTool
<1>5. CASE CallTool(r)
  <2>1. /\ checkpoint[r] = "execute_tool" /\ stage[r] = "call" /\ stage'[r] = "report"
        /\ approval'[r] = approval[r] /\ status'[r] = status[r] /\ risk'[r] = risk[r]
        /\ answers'[r] = answers[r] /\ checkpoint'[r] = checkpoint[r]
        /\ resumptions'[r] = resumptions[r] /\ executed'[r] \in {executed[r], executed[r] + 1}
    BY <1>5 DEF CallTool, RowsUnchanged, InTool, Goto, TypeOK
  <2>2. executed[r] < Allowed(r) /\ executed'[r] <= Allowed(r) /\ Allowed(r)' = Allowed(r)
    BY <1>0, <2>1
  <2> QED
    BY <1>0, <2>1, <2>2
<1>6. CASE Answer(r)
  <2>1. /\ checkpoint[r] = "respond" /\ stage[r] = "body" /\ stage'[r] = "answered"
        /\ approval'[r] = approval[r] /\ status'[r] = status[r] /\ risk'[r] = risk[r]
        /\ answers'[r] = answers[r] + 1 /\ checkpoint'[r] = checkpoint[r]
        /\ resumptions'[r] = resumptions[r] /\ executed'[r] = executed[r]
    BY <1>6 DEF Answer, Goto, TypeOK
  <2>2. answers[r] < Allowed(r) /\ answers'[r] <= Allowed(r) /\ Allowed(r)' = Allowed(r)
        /\ answers'[r] > 0
    BY <1>0, <2>1
  <2> QED
    BY <1>0, <2>1, <2>2
<1>7. CASE Complete(r) \/ Announce(r)
  <2>1. Rows /\ resumptions'[r] = resumptions[r]
    BY <1>7 DEF Complete, Announce, RowsUnchanged
  <2>2. CASE Complete(r)
    <3>1. /\ stage[r] = "answered" /\ status'[r] = "completed" /\ stage'[r] = "announce"
          /\ checkpoint'[r] = checkpoint[r]
      BY <2>2 DEF Complete, Goto, TypeOK
    <3> QED
      BY <1>0, <2>1, <3>1
  <2>3. CASE Announce(r)
    <3>1. /\ stage[r] = "announce" /\ status'[r] = status[r] /\ stage'[r] = "none"
          /\ checkpoint'[r] = "end"
      BY <2>3 DEF Announce, Goto, TypeOK
    <3> QED
      BY <1>0, <2>1, <3>1 DEF BeforePlan, AfterTool
  <2> QED
    BY <1>7, <2>2, <2>3
<1>8. CASE Raise(r) \/ Catch(r) \/ Fail(r)
  <2>1. Rows /\ Place
    BY <1>8 DEF Raise, Catch, Fail, RowsUnchanged
  <2>2. CASE Raise(r)
    <3>1. stage[r] \notin {"none", "scheduled", "begin"} /\ status'[r] = status[r]
          /\ stage'[r] = "caught"
      BY <2>2 DEF Raise, Guarded, Goto, TypeOK
    <3> QED
      BY <1>0, <2>1, <3>1
  <2>3. CASE Catch(r)
    <3>1. stage[r] = "caught" /\ status'[r] = status[r]
          /\ stage'[r] = IF status[r] = "cancelled" THEN "none" ELSE "fail"
      BY <2>3 DEF Catch, Goto, TypeOK
    <3> QED
      BY <1>0, <2>1, <3>1
  <2>4. CASE Fail(r)
    <3>1. stage[r] = "fail" /\ status'[r] = "failed" /\ stage'[r] = "none"
      BY <2>4 DEF Fail, Goto, TypeOK
    <3> QED
      BY <1>0, <2>1, <3>1
  <2> QED
    BY <1>8, <2>2, <2>3, <2>4
<1> QED
  BY <1>1, <1>2, <1>3, <1>4, <1>5, <1>6, <1>7, <1>8 DEF Step

\* A step of a task keeps the invariant.
LEMMA StepOnce ==
  ASSUME Once, NEW r \in Run, Step(r)
  PROVE  Once'
<1>1. TypeOK /\ TypeOK'
  BY StepType DEF Once
<1>2. UNCHANGED <<decision, faults>>
  BY StepRequests
<1>3. ASSUME NEW q \in Run, q # r PROVE Sequel(q)'
  <2>1. Same(q)
    BY <1>1, <1>3, StepFrame DEF Same
  <2> QED
    BY <1>2, <2>1, SameSequel DEF Once
<1>4. Sequel(r)'
  BY <1>1, StepSequel DEF Once
<1>5. \A q \in Run : approval[q] # "none" => approval'[q] = approval[q]
  BY <1>1, StepFrame DEF TypeOK, Step, RowsUnchanged, Admit, Begin, Deny, Reopen, Mark, Check,
     Proceed, Reject, RequestApproval, SkipApproval, Wait, Interrupt, ReadDecision, Permit,
     CallTool, Report, Answer, Complete, Announce, Raise, Catch, Fail
<1>6. Recording'
  BY <1>1, <1>2, <1>5 DEF Once, Recording, Decided, TypeOK
<1> QED
  BY <1>1, <1>3, <1>4, <1>6 DEF Once

-----------------------------------------------------------------------------
(* Requests and faults.                                                    *)

\* A decision is recorded once, and each request that saw it pending resumes
\* the run if it has no task.
LEMMA DecideOnce ==
  ASSUME Once, NEW d \in Decider, Decide(d), TypeOK'
  PROVE  Once'
<1>1. TypeOK /\ Recording /\ \A q \in Run : Sequel(q)
  BY DEF Once
<1>2. /\ UNCHANGED <<status, checkpoint, risk, executed, answers, faults>>
      /\ \A e \in Decider : e # d => decision'[e] = decision[e]
  BY <1>1 DEF Decide, ReadApproval, Record, ResumeRun, TypeOK
<1>3. \A q \in Run : Decided(q) => approval'[q] = approval[q]
  BY <1>1 DEF Decide, ReadApproval, Record, ResumeRun, Decided, TypeOK
<1>4. \A q \in Run : approval[q] # "none" => approval'[q] # "none"
  BY <1>1 DEF Decide, ReadApproval, Record, ResumeRun, Recording, TypeOK
<1>5. ASSUME /\ decision'[d].step = "record" => /\ approval'[decision'[d].run] # "none"
                                               /\ decision'[d].choice \in {"approved", "rejected"}
             /\ decision'[d].step = "resume" => approval'[decision'[d].run] \in {"approved", "rejected"}
      PROVE  Recording'
  <2>1. ASSUME NEW e \in Decider, e # d
        PROVE  /\ decision'[e].step = "record" => /\ approval'[decision'[e].run] # "none"
                                                  /\ decision'[e].choice \in {"approved", "rejected"}
               /\ decision'[e].step = "resume"
                    => approval'[decision'[e].run] \in {"approved", "rejected"}
    <3>1. decision'[e] = decision[e] /\ (decision[e].step # "idle" => decision[e].run \in Run)
      BY <1>1, <1>2, <2>1 DEF TypeOK
    <3>2. /\ decision[e].step = "record" => /\ approval[decision[e].run] # "none"
                                            /\ decision[e].choice \in {"approved", "rejected"}
          /\ decision[e].step = "resume" => Decided(decision[e].run)
      BY <1>1 DEF Recording
    <3> QED
      BY <1>3, <1>4, <3>1, <3>2 DEF Decided
  <2> QED
    BY <1>5, <2>1 DEF Recording, Decided
<1> USE DEF Decided
<1>6. ASSUME NEW r \in Run, ReadApproval(d, r) PROVE Once'
  <2>1. /\ decision'[d].step = "record" /\ decision'[d].run = r /\ approval[r] = "pending"
        /\ decision'[d].choice \in {"approved", "rejected"}
    BY <1>1, <1>6 DEF ReadApproval, TypeOK
  <2>2. UNCHANGED <<approval, stage, resumptions>>
    BY <1>6 DEF ReadApproval
  <2>3. Recording'
    BY <1>5, <2>1, <2>2
  <2>4. ASSUME NEW q \in Run PROVE Sequel(q)'
    BY <1>1, <1>2, <2>2, SameSequel DEF Same
  <2> QED
    BY <2>3, <2>4 DEF Once
<1>7. CASE Record(d)
  <2> DEFINE r == decision[d].run
  <2>1. /\ decision[d].step = "record" /\ r \in Run /\ approval[r] # "none"
        /\ decision[d].choice \in {"approved", "rejected"}
    BY <1>1, <1>7 DEF Record, TypeOK, Recording
  <2>2. /\ decision'[d].step = "resume" /\ decision'[d].run = r
        /\ \A q \in Run : q # r => approval'[q] = approval[q]
        /\ UNCHANGED <<stage, resumptions>>
    BY <1>1, <1>7, <2>1 DEF Record, TypeOK
  <2>3. approval'[r] \in {"approved", "rejected"}
    BY <1>1, <1>7, <2>1 DEF Record, TypeOK
  <2>4. Recording'
    BY <1>5, <2>2, <2>3
  <2>5. ASSUME NEW q \in Run PROVE Sequel(q)'
    <3>1. Sequel(q)
      BY <1>1
    <3>2. CASE q # r \/ Decided(r)
      <4>1. Same(q)
        BY <1>2, <1>3, <2>1, <2>2, <3>2 DEF Same
      <4> QED
        BY <1>2, <3>1, <4>1, SameSequel
    <3>3. CASE q = r /\ ~Decided(r)
      <4>1. resumptions[q] = 0 /\ Allowed(q)' = Allowed(q) /\ status[q] # "unsent"
        BY <1>1, <2>1, <2>2, <2>3, <3>1, <3>3
        DEF Sequel, TwoTasks, Fresh, Allowed, TypeOK
      <4> QED
        BY <1>2, <2>1, <2>2, <2>3, <3>1, <3>3, <4>1
        DEF Sequel, Fresh, Risked, TwoTasks, Placed, Acted, Answered, Ended
    <3> QED
      BY <3>2, <3>3
  <2> QED
    BY <2>4, <2>5 DEF Once
<1>8. CASE ResumeRun(d)
  <2> DEFINE r == decision[d].run
  <2>1. decision[d].step = "resume" /\ r \in Run /\ Decided(r)
    BY <1>1, <1>8 DEF ResumeRun, TypeOK, Recording
  <2>2. decision'[d].step = "idle" /\ approval' = approval
    BY <1>1, <1>8 DEF ResumeRun, TypeOK, Idle
  <2>3. \/ stage' = stage /\ resumptions' = resumptions
        \/ /\ stage[r] = "none" /\ stage' = [stage EXCEPT ![r] = "scheduled"]
           /\ resumptions' = [resumptions EXCEPT ![r] = @ + 1]
    BY <1>8 DEF ResumeRun, Goto, Active
  <2>4. Recording'
    BY <1>5, <2>2
  <2>5. ASSUME NEW q \in Run PROVE Sequel(q)'
    <3>1. Sequel(q)
      BY <1>1
    <3>2. CASE stage'[q] = stage[q] /\ resumptions'[q] = resumptions[q]
      BY <1>2, <2>2, <3>1, <3>2, SameSequel DEF Same
    <3>3. CASE q = r /\ stage[q] = "none" /\ stage'[q] = "scheduled"
               /\ resumptions'[q] = resumptions[q] + 1
      <4>1. /\ executed[q] \in Nat /\ answers[q] \in Nat /\ resumptions[q] \in Nat
        BY <1>1 DEF TypeOK
      <4>2. /\ approval[q] # "none" /\ status[q] # "unsent"
            /\ executed[q] <= resumptions[q] /\ answers[q] <= resumptions[q]
            /\ resumptions[q] = 0 => checkpoint[q] = "execute_tool"
        BY <2>1, <3>1, <3>3 DEF Sequel, Fresh, TwoTasks, Acted, Answered, Allowed
      <4>3. resumptions'[q] > 0 /\ (resumptions[q] > 0 => resumptions'[q] > 1)
            /\ executed'[q] < resumptions'[q] /\ answers'[q] < resumptions'[q]
        BY <1>2, <3>3, <4>1, <4>2
      <4>4. Allowed(q)' = resumptions'[q]
        BY <2>2, <4>2 DEF Allowed
      <4>5. Fresh(q)' /\ Risked(q)' /\ Placed(q)' /\ Ended(q)'
        BY <1>2, <2>2, <3>1, <3>3, <4>2, <4>3 DEF Sequel, Fresh, Risked, Placed, Ended
      <4>6. TwoTasks(q)'
        BY <1>2, <2>1, <2>2, <3>1, <3>3, <4>1, <4>2, <4>3 DEF Sequel, TwoTasks
      <4>7. Acted(q)' /\ Answered(q)'
        BY <1>2, <2>2, <3>1, <3>3, <4>1, <4>3, <4>4 DEF Sequel, Acted, Answered
      <4> QED
        BY <4>5, <4>6, <4>7 DEF Sequel
    <3>4. \/ stage'[q] = stage[q] /\ resumptions'[q] = resumptions[q]
          \/ q = r /\ stage[q] = "none" /\ stage'[q] = "scheduled"
             /\ resumptions'[q] = resumptions[q] + 1
      BY <1>1, <2>1, <2>3 DEF TypeOK
    <3> QED
      BY <3>2, <3>3, <3>4
  <2> QED
    BY <2>4, <2>5 DEF Once
<1> QED
  BY <1>6, <1>7, <1>8 DEF Decide

\* Every step keeps the invariant.
LEMMA NextOnce ==
  ASSUME Once, [Next]_vars
  PROVE  Once'
<1>1. TypeOK /\ Recording /\ \A q \in Run : Sequel(q)
  BY DEF Once
<1>2. TypeOK'
  BY <1>1, NextType
<1>3. ASSUME \A q \in Run : Same(q), faults' # 0 \/ faults' = faults, Recording' PROVE Once'
  BY <1>1, <1>2, <1>3, SameSequel DEF Once
<1>4. CASE UNCHANGED vars
  <2>1. Recording' /\ \A q \in Run : Same(q)
    <3>1. Recording'
      BY <1>1, <1>4 DEF vars, Recording, Decided
    <3>2. \A q \in Run : Same(q)
      BY <1>4 DEF vars, Same
    <3> QED
      BY <3>1, <3>2
  <2>2. faults' = faults
    BY <1>4 DEF vars
  <2> QED
    BY <1>3, <2>1, <2>2
<1>5. ASSUME NEW r \in Run, SendMessage(r) PROVE Once'
  <2>1. /\ status[r] = "unsent" /\ status'[r] = "queued" /\ stage'[r] = "scheduled"
        /\ resumptions' = resumptions /\ resumptions[r] = 0
    BY <1>1, <1>5 DEF SendMessage, Goto, TypeOK, Sequel, Fresh
  <2>2. UNCHANGED <<approval, risk, executed, answers, checkpoint, decision, faults>>
    BY <1>5 DEF SendMessage, RowsUnchanged, RequestsUnchanged
  <2>3. Recording'
    BY <1>1, <2>2 DEF Recording, Decided
  <2>4. ASSUME NEW q \in Run PROVE Sequel(q)'
    <3>2. CASE q # r
      <4>1. Same(q)
        BY <1>1, <1>5, <2>2, <3>2 DEF SendMessage, Goto, Same, TypeOK
      <4> QED
        BY <1>1, <2>2, <4>1, SameSequel
    <3>3. CASE q = r
      BY <1>1, <2>1, <2>2, <3>3 DEF Sequel, Fresh, Risked, TwoTasks, Placed, Acted, Answered,
         Ended, Decided, Allowed, TypeOK, AfterTool
    <3> QED
      BY <3>2, <3>3
  <2> QED
    BY <1>2, <2>3, <2>4 DEF Once
<1>6. ASSUME NEW r \in Run, Step(r) PROVE Once'
  BY <1>6, StepOnce
<1>7. ASSUME NEW r \in Run, CancelRun(r) PROVE Once'
  <2>1. UNCHANGED <<approval, risk, executed, answers, checkpoint, stage, resumptions, decision, faults>>
    BY <1>7 DEF CancelRun, SeeRun, FlagRun, WriteCancelled
  <2>2. \A q \in Run : status'[q] = status[q] \/ status'[q] = "cancelled"
    BY <1>1, <1>7 DEF CancelRun, SeeRun, FlagRun, WriteCancelled, TypeOK
  <2>3. Recording'
    BY <1>1, <2>1 DEF Recording, Decided
  <2>4. ASSUME NEW q \in Run PROVE Sequel(q)'
    BY <1>1, <2>1, <2>2 DEF Sequel, Fresh, Risked, TwoTasks, Placed, Acted, Answered,
       Ended, Decided, Allowed
  <2> QED
    BY <1>2, <2>3, <2>4 DEF Once
<1>8. CASE \/ \E r \in Run : Escape(r)
           \/ Crash
  <2>1. /\ UNCHANGED <<status, approval, risk, executed, answers, checkpoint, resumptions>>
        /\ faults' # 0
        /\ \A d \in Decider : decision'[d] = decision[d] \/ decision'[d].step = "idle"
        /\ \A q \in Run : stage'[q] = stage[q] \/ stage'[q] = "none"
    BY <1>1, <1>8 DEF Escape, Crash, RowsUnchanged, Goto, Idle, TypeOK
  <2>2. Recording'
    BY <1>1, <2>1 DEF Recording, Decided
  <2>3. ASSUME NEW q \in Run PROVE Sequel(q)'
    BY <1>1, <2>1 DEF Sequel, Fresh, Risked, TwoTasks, Placed, Acted, Answered,
       Ended, Decided, Allowed
  <2> QED
    BY <1>2, <2>2, <2>3 DEF Once
<1>9. ASSUME NEW d \in Decider, Decide(d) PROVE Once'
  BY <1>2, <1>9, DecideOnce
<1> QED
  BY <1>4, <1>5, <1>6, <1>7, <1>8, <1>9 DEF Next

LEMMA OnceAlways == Spec => []Once
<1>1. Once /\ [Next]_vars => Once'
  BY NextOnce
<1> QED
  BY <1>1, InitOnce, PTL DEF Spec

-----------------------------------------------------------------------------
(* The theorems.                                                           *)

\* A run calls its tool at most once, or once for each time a decision resumed
\* it: through timeouts after the call, failures of resumptions, competing
\* decisions and crashes.
THEOREM CallsBounded == Spec => []CallsPerResumption
<1>1. Once => CallsPerResumption
  BY DEF Once, Sequel, TwoTasks, Acted, Allowed, Decided, CallsPerResumption, TypeOK
<1> QED
  BY <1>1, OnceAlways, PTL

\* A run stores at most one answer, or one for each time a decision resumed it.
THEOREM AnswersBounded == Spec => []AnswersPerResumption
<1>1. Once => AnswersPerResumption
  BY DEF Once, Sequel, TwoTasks, Answered, Allowed, Decided, AnswersPerResumption, TypeOK
<1> QED
  BY <1>1, OnceAlways, PTL

\* While nothing dies or fails to write, a run without a task waits for its
\* user or has its outcome, or was resumed again after its answer.
THEOREM NoneLeftBehind == Spec => []NoRunLeftBehind
<1>1. Once => NoRunLeftBehind
  BY DEF Once, Sequel, Ended, Answered, NoRunLeftBehind, Active
<1> QED
  BY <1>1, OnceAlways, PTL

-----------------------------------------------------------------------------
(* Refinement.                                                             *)

\* A step of the runs plans, asks, decides, resumes or executes one call, or
\* does nothing that ToolGate sees.
LEMMA NextGate ==
  ASSUME IInv, Once, [Next]_vars
  PROVE  [ToolGate!Next]_<<risk, approval, resumptions, executed>>
<1>1. TypeOK /\ Recording /\ \A q \in Run : Sequel(q)
  BY DEF Once
<1> DEFINE Quiet == UNCHANGED <<risk, approval, resumptions, executed>>
<1>2. CASE UNCHANGED vars
  BY <1>2 DEF vars
<1>3. ASSUME NEW r \in Run, SendMessage(r) \/ CancelRun(r) \/ Escape(r) PROVE Quiet
  BY <1>3 DEF SendMessage, CancelRun, SeeRun, FlagRun, WriteCancelled, Escape, RowsUnchanged
<1>4. CASE Crash
  BY <1>4 DEF Crash, RowsUnchanged
<1>5. ASSUME NEW d \in Decider, Decide(d) PROVE ToolGate!Next \/ Quiet
  <2>1. CASE Record(d)
    <3>1. decision[d].run \in Run /\ decision[d].choice \in {"approved", "rejected"}
      BY <1>1, <2>1 DEF Record, TypeOK, Recording
    <3>2. CASE approval[decision[d].run] = "pending"
      <4>1. ToolGate!Decide(decision[d].run)
        BY <2>1, <3>1, <3>2 DEF Record, ToolGate!Decide
      <4> QED
        BY <3>1, <4>1 DEF ToolGate!Next
    <3>3. CASE approval[decision[d].run] # "pending"
      BY <2>1, <3>3 DEF Record
    <3> QED
      BY <3>2, <3>3
  <2>2. CASE ResumeRun(d)
    <3>1. decision[d].run \in Run /\ Decided(decision[d].run)
      BY <1>1, <2>2 DEF ResumeRun, TypeOK, Recording
    <3>2. CASE Active(decision[d].run)
      BY <2>2, <3>2 DEF ResumeRun
    <3>3. CASE ~Active(decision[d].run)
      <4>1. ToolGate!Resume(decision[d].run)
        BY <2>2, <3>1, <3>3 DEF ResumeRun, ToolGate!Resume, Decided
      <4> QED
        BY <3>1, <4>1 DEF ToolGate!Next
    <3> QED
      BY <3>2, <3>3
  <2>3. CASE ~Record(d) /\ ~ResumeRun(d)
    BY <1>5, <2>3 DEF Decide, ReadApproval
  <2> QED
    BY <2>1, <2>2, <2>3
<1>6. ASSUME NEW r \in Run, Step(r) PROVE ToolGate!Next \/ Quiet
  <2>1. CASE Proceed(r)
    <3>1. PICK n \in Node :
            /\ Advance(r, n)
            /\ IF n = "execute_tool"
               THEN \E k \in {"read_only", "mutating"} : risk' = [risk EXCEPT ![r] = k]
               ELSE UNCHANGED risk
      BY <2>1 DEF Proceed
    <3>2. UNCHANGED <<approval, resumptions, executed>>
      BY <2>1 DEF Proceed
    <3>3. CASE n = "execute_tool"
      <4>1. checkpoint[r] = "plan"
        BY <1>1, <3>1, <3>3, EdgeTargets DEF Advance, TypeOK
      <4>2. risk[r] = "none"
        BY <1>1, <4>1 DEF Sequel, Risked
      <4>3. ToolGate!Plan(r)
        BY <3>1, <3>2, <3>3, <4>2 DEF ToolGate!Plan
      <4> QED
        BY <4>3 DEF ToolGate!Next
    <3> QED
      BY <3>1, <3>2, <3>3
  <2>2. CASE RequestApproval(r)
    <3>1. CASE approval[r] = "none"
      <4>1. risk[r] = "mutating"
        BY <1>1, <2>2 DEF RequestApproval, RequiresApproval, InTool, TypeOK, Sequel, Risked
      <4>2. ToolGate!Ask(r)
        BY <2>2, <3>1, <4>1 DEF RequestApproval, ToolGate!Ask
      <4> QED
        BY <4>2 DEF ToolGate!Next
    <3> QED
      BY <2>2, <3>1 DEF RequestApproval
  <2>3. CASE CallTool(r)
    <3>1. PICK acts \in {0, 1} : executed' = [executed EXCEPT ![r] = @ + acts]
      BY <2>3 DEF CallTool
    <3>2. UNCHANGED <<risk, approval, resumptions>>
      BY <2>3 DEF CallTool, RowsUnchanged
    <3>3. /\ executed[r] < Allowed(r) /\ executed \in [Run -> Nat] /\ resumptions[r] \in Nat
          /\ resumptions[r] > 0 => Decided(r)
          /\ risk[r] \in {"none", "read_only", "mutating"}
          /\ approval[r] # "none" => risk[r] = "mutating"
      BY <1>1, <2>3 DEF CallTool, InTool, Sequel, TwoTasks, Risked, Acted, TypeOK
    <3>4. risk[r] = "read_only" \/ approval[r] = "approved"
      BY <2>3 DEF CallTool, InTool, IInv, Passed
    <3>5. CASE acts = 0
      BY <3>1, <3>2, <3>3, <3>5
    <3>6. CASE acts = 1
      <4>1. \/ risk[r] = "read_only" /\ executed[r] = 0
            \/ approval[r] = "approved" /\ executed[r] < resumptions[r]
        BY <3>3, <3>4 DEF Allowed
      <4>2. ToolGate!Execute(r)
        BY <3>1, <3>2, <3>6, <4>1 DEF ToolGate!Execute
      <4> QED
        BY <4>2 DEF ToolGate!Next
    <3> QED
      BY <3>1, <3>5, <3>6
  <2>4. CASE ~(Proceed(r) \/ RequestApproval(r) \/ CallTool(r))
    BY <1>6, <2>4 DEF Step, Admit, Begin, Deny, Reopen, Mark, Check, Reject, SkipApproval,
       Wait, Interrupt, ReadDecision, Permit, Report, Answer, Complete, Announce, Raise, Catch,
       Fail, RowsUnchanged
  <2> QED
    BY <2>1, <2>2, <2>3, <2>4
<1> QED
  BY <1>2, <1>3, <1>4, <1>5, <1>6 DEF Next

\* The runs implement what approvals promise: every call is planned, asked for
\* if it changes something, decided once, and made only if approved, once for
\* each time a decision has the run resumed.
THEOREM GateImplemented == Spec => ImplementsToolGate
<1>1. Init => ToolGate!Init
  BY DEF Init, ToolGate!Init
<1>2. IInv /\ Once /\ [Next]_vars => [ToolGate!Next]_(ToolGate!gate)
  BY NextGate DEF ToolGate!gate
<1> QED
  BY <1>1, <1>2, Invariance, OnceAlways, PTL DEF Spec, ImplementsToolGate, ToolGate!Spec

-----------------------------------------------------------------------------
(* Cancellation.                                                           *)

\* The first task starts at the first node, and the last node's answer is its.
Started(r) ==
  /\ status[r] = "unsent" => /\ stage[r] = "none" /\ checkpoint[r] = "authenticate"
                             /\ approval[r] = "none" /\ ~Deciding(r)
  /\ resumptions[r] = 0 /\ stage[r] \in {"scheduled", "begin"} => checkpoint[r] = "authenticate"
  /\ stage[r] = "begin" => resumptions[r] = 0
  /\ stage[r] \in {"answered", "announce"} => checkpoint[r] = "respond"
  /\ answers[r] > 0 => checkpoint[r] \in {"respond", "end"}

AllStarted == \A r \in Run : Started(r)

\* A cancelled run that has not passed the planner's look cannot.
NoCall(r) ==
  /\ cancel[r] /\ executed[r] = 0
  /\ \/ checkpoint[r] \in BeforePlan
     \/ checkpoint[r] = "plan" /\ stage[r] # "body"
     \/ checkpoint[r] \in AfterTool \cup {"create_artifact"}

\* A cancelled run that has not passed the look of the last node cannot.
NoAnswer(r) ==
  /\ cancel[r] /\ answers[r] = 0
  /\ \/ checkpoint[r] \notin {"respond", "end"}
     \/ checkpoint[r] = "respond" /\ stage[r] \notin {"body", "answered", "announce"}

\* What a step keeps of one run.
Kept(r) ==
  Started(r) => /\ Started(r)'
                /\ NoCall(r) => NoCall(r)'
                /\ NoAnswer(r) => NoAnswer(r)'

\* The nodes that follow those a call is not made in.
LEMMA CalmEdges ==
  ASSUME NEW m \in Node, NEW n \in Node, <<m, n>> \in Edge,
         m \in BeforePlan \cup AfterTool \cup {"create_artifact"}
  PROVE  n \in BeforePlan \cup AfterTool \cup {"create_artifact", "plan"}
BY DEF Edge, Node, BeforePlan, AfterTool

\* The planner and the last node are entered before their look.
LEMMA CheckedEntries == Entry("plan") = "mark" /\ Entry("respond") = "mark"
BY DEF Entry, Marking

\* The task of a cancelled run.
LEMMA StepKeeps ==
  ASSUME TypeOK, NEW r \in Run, Step(r)
  PROVE  Kept(r)
<1> SUFFICES ASSUME Started(r)
             PROVE  Started(r)' /\ (NoCall(r) => NoCall(r)') /\ (NoAnswer(r) => NoAnswer(r)')
  BY DEF Kept
<1> DEFINE Place == checkpoint'[r] = checkpoint[r] /\ resumptions'[r] = resumptions[r]
           Counts == executed'[r] = executed[r] /\ answers'[r] = answers[r]
<1>0. /\ Deciding(r)' = Deciding(r)
      /\ checkpoint[r] \in Node /\ stage[r] \in Stage /\ stage[r] # "none"
      /\ cancel'[r] = cancel[r] /\ resumptions[r] \in Nat
  <2>1. stage[r] # "none"
    BY DEF Step, Admit, Begin, Deny, Reopen, Mark, Check, Proceed, Reject, InTool, Guarded,
       RequestApproval, SkipApproval, Wait, Interrupt, ReadDecision, Permit, CallTool, Report,
       Answer, Complete, Announce, Raise, Catch, Fail
  <2>2. cancel' = cancel
    BY DEF Step, Admit, Begin, Deny, Reopen, Mark, Check, Proceed, Reject, RowsUnchanged,
       RequestApproval, SkipApproval, Wait, Interrupt, ReadDecision, Permit, CallTool, Report,
       Answer, Complete, Announce, Raise, Catch, Fail
  <2> QED
    BY <2>1, <2>2, StepRequests DEF TypeOK, Deciding
<1>1. status[r] # "unsent" /\ status'[r] # "unsent"
  <2>1. status[r] # "unsent"
    BY <1>0 DEF Started
  <2> QED
    BY <2>1 DEF TypeOK, Step, Admit, Begin, Deny, Reopen, Mark, Check, Proceed, Reject,
       RequestApproval, SkipApproval, Wait, Interrupt, ReadDecision, Permit, CallTool, Report,
       Answer, Complete, Announce, Raise, Catch, Fail
<1> USE DEF Started, NoCall, NoAnswer
<1>2. CASE Proceed(r) \/ Reject(r) \/ Report(r)
  <2>1. PICK n \in Node : Advance(r, n)
    BY <1>2 DEF Proceed, Reject, Report, Node
  <2>2. Counts /\ resumptions'[r] = resumptions[r]
    BY <1>2 DEF Proceed, Reject, Report, RowsUnchanged
  <2>3. <<checkpoint[r], n>> \in Edge /\ checkpoint'[r] = n /\ stage'[r] = Entry(n)
    BY <2>1 DEF Advance, Goto, TypeOK
  <2>4. stage'[r] \in {"mark", "check", "body"}
    BY <2>3, EntryType
  <2>5. checkpoint[r] \notin {"respond", "end"} /\ n # "end"
    BY <1>0, <2>3, EdgeTargets
  <2>6. n \in {"plan", "respond"} => stage'[r] = "mark"
    BY <2>3, CheckedEntries
  <2>7. CASE checkpoint[r] \in BeforePlan \cup AfterTool \cup {"create_artifact"}
    <3>1. n \in BeforePlan \cup AfterTool \cup {"create_artifact", "plan"}
      BY <1>0, <2>3, <2>7, CalmEdges
    <3> QED
      BY <1>0, <1>1, <2>2, <2>3, <2>4, <2>5, <2>6, <3>1
  <2>8. CASE checkpoint[r] \notin BeforePlan \cup AfterTool \cup {"create_artifact"}
    <3>1. checkpoint[r] = "plan" => stage[r] = "body"
      BY <1>2 DEF Proceed, Reject, Report, InTool
    <3> QED
      BY <1>0, <1>1, <2>2, <2>3, <2>4, <2>5, <2>6, <2>8, <3>1
  <2> QED
    BY <2>7, <2>8
<1>3. CASE Admit(r) \/ Begin(r) \/ Reopen(r) \/ Check(r)
  <2>1. Counts /\ Place
    BY <1>3 DEF Admit, Begin, Reopen, Check, RowsUnchanged
  <2>2. CASE Admit(r)
    <3>1. stage[r] = "scheduled" /\ stage'[r] = IF resumptions[r] > 0 THEN "authority" ELSE "begin"
      BY <2>2 DEF Admit, Goto, TypeOK
    <3> QED
      BY <1>0, <1>1, <2>1, <3>1
  <2>3. CASE Begin(r)
    <3>1. stage[r] = "begin" /\ stage'[r] = "body"
      BY <2>3 DEF Begin, Goto, TypeOK, Entry, Marking, Checking
    <3> QED
      BY <1>0, <1>1, <2>1, <3>1 DEF BeforePlan
  <2>4. CASE Reopen(r)
    <3>1. stage'[r] \in {"none", "mark", "check", "body"}
          /\ (checkpoint[r] \in {"plan", "respond"} => stage'[r] = "mark")
      BY <1>0, <2>4, EntryType, CheckedEntries DEF Reopen, Goto, TypeOK
    <3> QED
      BY <1>0, <1>1, <2>1, <3>1
  <2>5. CASE Check(r)
    <3>1. stage'[r] = IF cancel[r] THEN "none" ELSE "body"
      BY <2>5 DEF Check, Goto, TypeOK
    <3> QED
      BY <1>0, <1>1, <2>1, <3>1
  <2> QED
    BY <1>3, <2>2, <2>3, <2>4, <2>5
<1>4. CASE \/ Deny(r) \/ Mark(r) \/ Wait(r) \/ Interrupt(r) \/ Complete(r) \/ Raise(r)
           \/ Catch(r) \/ Fail(r) \/ SkipApproval(r) \/ ReadDecision(r) \/ Permit(r)
           \/ RequestApproval(r)
  <2>1. Counts /\ Place
    BY <1>4 DEF Deny, Mark, Wait, Interrupt, Complete, Raise, Catch, Fail, SkipApproval,
       ReadDecision, Permit, RequestApproval, RowsUnchanged
  <2>2. stage'[r] \notin {"scheduled", "begin", "body", "answered"}
    BY <1>4 DEF Deny, Mark, Wait, Interrupt, Complete, Raise, Catch, Fail, SkipApproval,
       ReadDecision, Permit, RequestApproval, Goto, TypeOK
  <2>3. stage'[r] = "announce" => stage[r] = "answered"
    BY <1>4 DEF Deny, Mark, Wait, Interrupt, Complete, Raise, Catch, Fail, SkipApproval,
       ReadDecision, Permit, RequestApproval, Goto, TypeOK
  <2> QED
    BY <1>0, <1>1, <2>1, <2>2, <2>3
<1>5. CASE CallTool(r)
  <2>1. /\ checkpoint[r] = "execute_tool" /\ stage'[r] = "report"
        /\ answers'[r] = answers[r] /\ Place
    BY <1>5 DEF CallTool, RowsUnchanged, InTool, Goto, TypeOK
  <2> QED
    BY <1>0, <1>1, <2>1 DEF BeforePlan, AfterTool
<1>6. CASE Answer(r)
  <2>1. /\ checkpoint[r] = "respond" /\ stage[r] = "body" /\ stage'[r] = "answered"
        /\ executed'[r] = executed[r] /\ Place
    BY <1>6 DEF Answer, Goto, TypeOK
  <2> QED
    BY <1>0, <1>1, <2>1
<1>7. CASE Announce(r)
  <2>1. /\ stage[r] = "announce" /\ stage'[r] = "none" /\ checkpoint'[r] = "end"
        /\ Counts /\ resumptions'[r] = resumptions[r]
    BY <1>7 DEF Announce, RowsUnchanged, Goto, TypeOK
  <2> QED
    BY <1>0, <1>1, <2>1 DEF AfterTool
<1> QED
  BY <1>2, <1>3, <1>4, <1>5, <1>6, <1>7 DEF Step

\* Every step keeps them for every run.
LEMMA NextKeeps ==
  ASSUME TypeOK, AllStarted, [Next]_vars, NEW r \in Run
  PROVE  Kept(r)
<1> USE DEF AllStarted, Kept, Started, NoCall, NoAnswer
<1>1. CASE UNCHANGED vars
  BY <1>1 DEF vars, Deciding
<1>2. ASSUME NEW q \in Run, SendMessage(q) PROVE Kept(r)
  <2>1. UNCHANGED <<approval, executed, answers, checkpoint, decision, cancel>>
    BY <1>2 DEF SendMessage, RowsUnchanged, RequestsUnchanged
  <2>2. CASE q = r
    <3>1. status[r] = "unsent" /\ status'[r] = "queued" /\ stage'[r] = "scheduled"
      BY <1>2, <2>2 DEF SendMessage, Goto, TypeOK
    <3> QED
      BY <2>1, <3>1
  <2>3. CASE q # r
    <3>1. status'[r] = status[r] /\ stage'[r] = stage[r] /\ resumptions'[r] = resumptions[r]
      BY <1>2, <2>3 DEF SendMessage, Goto, TypeOK
    <3> QED
      BY <2>1, <3>1 DEF Deciding
  <2> QED
    BY <2>2, <2>3
<1>3. ASSUME NEW q \in Run, Step(q) PROVE Kept(r)
  <2>1. CASE q = r
    BY <1>3, <2>1, StepKeeps
  <2>2. CASE q # r
    BY <1>3, <2>2, StepFrame, StepRequests DEF Deciding
  <2> QED
    BY <2>1, <2>2
<1>4. ASSUME NEW q \in Run, CancelRun(q) PROVE Kept(r)
  <2>1. UNCHANGED <<approval, executed, answers, checkpoint, stage, resumptions, decision>>
    BY <1>4 DEF CancelRun, SeeRun, FlagRun, WriteCancelled
  <2>2. /\ status'[r] = status[r] \/ status'[r] = "cancelled"
        /\ cancel'[r] = cancel[r] \/ cancel'[r] = TRUE
    BY <1>4 DEF CancelRun, SeeRun, FlagRun, WriteCancelled, TypeOK
  <2> QED
    BY <2>1, <2>2 DEF Deciding
<1>5. CASE Crash \/ \E q \in Run : Escape(q)
  <2>1. /\ UNCHANGED <<status, cancel, approval, executed, answers, checkpoint, resumptions>>
        /\ \A d \in Decider : decision'[d] = decision[d] \/ decision'[d].step = "idle"
        /\ stage'[r] = stage[r] \/ stage'[r] = "none"
    BY <1>5 DEF Escape, Crash, RowsUnchanged, Goto, Idle, TypeOK
  <2>2. Deciding(r)' => Deciding(r)
    BY <2>1 DEF Deciding
  <2> QED
    BY <2>1, <2>2
<1>6. ASSUME NEW d \in Decider, Decide(d) PROVE Kept(r)
  <2>1. UNCHANGED <<status, cancel, executed, answers, checkpoint>>
    BY <1>6 DEF Decide, ReadApproval, Record, ResumeRun
  <2>2. \/ stage'[r] = stage[r] /\ resumptions'[r] = resumptions[r]
        \/ stage'[r] = "scheduled" /\ resumptions'[r] = resumptions[r] + 1 /\ Deciding(r)
    <3>1. CASE ResumeRun(d)
      <4>1. decision[d].step # "idle"
        BY <3>1 DEF ResumeRun
      <4>2. CASE decision[d].run = r
        BY <3>1, <4>1, <4>2 DEF ResumeRun, Goto, Deciding, TypeOK
      <4>3. CASE decision[d].run # r
        BY <3>1, <4>3 DEF ResumeRun, Goto, TypeOK
      <4> QED
        BY <4>2, <4>3
    <3>2. CASE ~ResumeRun(d)
      BY <1>6, <3>2 DEF Decide, ReadApproval, Record
    <3> QED
      BY <3>1, <3>2
  <2>3. status[r] = "unsent" => approval'[r] = "none" /\ ~Deciding(r)'
    <3>1. CASE status[r] = "unsent"
      <4>1. approval[r] = "none" /\ ~Deciding(r)
        BY <3>1
      <4>2. \A e \in Decider : e # d => decision'[e] = decision[e]
        BY <1>6 DEF Decide, ReadApproval, Record, ResumeRun, TypeOK
      <4>3. \/ decision'[d].step = "idle"
            \/ decision'[d].run # r
        BY <1>6, <4>1 DEF Decide, ReadApproval, Record, ResumeRun, TypeOK, Deciding, Idle
      <4>4. approval'[r] = approval[r]
        BY <1>6, <4>1 DEF Decide, ReadApproval, Record, ResumeRun, TypeOK, Deciding
      <4> QED
        BY <4>1, <4>2, <4>3, <4>4 DEF Deciding
    <3> QED
      BY <3>1
  <2>4. resumptions[r] \in Nat
    BY DEF TypeOK
  <2> QED
    BY <2>1, <2>2, <2>3, <2>4
<1> QED
  BY <1>1, <1>2, <1>3, <1>4, <1>5, <1>6 DEF Next

LEMMA StartedAlways == Spec => []AllStarted
<1>1. Init => AllStarted
  BY DEF Init, AllStarted, Started, Deciding, Idle
<1>2. TypeOK /\ AllStarted /\ [Next]_vars => AllStarted'
  BY NextKeeps DEF Kept, AllStarted
<1> QED
  BY <1>1, <1>2, TypeCorrect, PTL DEF Spec

\* A cancellation that is requested before the planner looks for it means no
\* call, then or ever, and one before the last node no answer: through timeouts,
\* crashes and any number of decisions that resume the run.
THEOREM CancellationHolds == Spec => CancelStops
<1>1. ASSUME NEW r \in Run
      PROVE  Spec => /\ [](cancel[r] /\ checkpoint[r] \in BeforePlan => [](executed[r] = 0))
                     /\ [](cancel[r] /\ checkpoint[r] \notin {"respond", "end"}
                            => [](answers[r] = 0))
  <2>1. IInv /\ cancel[r] /\ checkpoint[r] \in BeforePlan => NoCall(r)
    BY DEF IInv, NoCall, Unplanned
  <2>2. IInv /\ AllStarted /\ cancel[r] /\ checkpoint[r] \notin {"respond", "end"} => NoAnswer(r)
    BY DEF IInv, NoAnswer, AllStarted, Started, TypeOK
  <2>3. IInv /\ AllStarted /\ [Next]_vars
          => (NoCall(r) => NoCall(r)') /\ (NoAnswer(r) => NoAnswer(r)')
    BY NextKeeps DEF IInv, Kept, AllStarted
  <2>4. (NoCall(r) => executed[r] = 0) /\ (NoAnswer(r) => answers[r] = 0)
    BY DEF NoCall, NoAnswer
  <2> QED
    BY <2>1, <2>2, <2>3, <2>4, Invariance, StartedAlways, PTL DEF Spec
<1> QED
  BY <1>1 DEF CancelStops

=============================================================================
