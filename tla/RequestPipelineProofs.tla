------------------------ MODULE RequestPipelineProofs ------------------------
(***************************************************************************)
(* Proofs about what one request goes through: RequestPipeline, for every  *)
(* set of documents, messages, tools and spaces, every limit and any       *)
(* number of changes; the schedule of its plan (PlanSchedule), for every   *)
(* plan; and the decisions on the agents it may use (AgentAccess), for any *)
(* number of requests, users, assignments and cached decisions.            *)
(*                                                                         *)
(* Snapshots is what makes the two rules of reading one: the snapshot of a *)
(* ready document says what its row says.  Routed follows the class of the *)
(* work from the first classification through both plans.  ScheduleInv is  *)
(* about a wave in the making, AccessInv about what a cached decision may  *)
(* be used for.                                                            *)
(***************************************************************************)
EXTENDS RequestPipeline, PlanSchedule, AgentAccess, FiniteSetTheorems,
        SequenceTheorems, NaturalsInduction, WellFoundedInduction, TLAPS

\* The snapshot of a document that is ready agrees with its row.
Snapshots ==
  /\ DOMAIN status = Document
  /\ DOMAIN acl = Document
  /\ scope \in [Document -> {"personal", "organization"}]
  /\ \A d \in Document : status[d] = "ready" => acl[d] = scope[d]

\* Evidence is a pair of sets; the authority in the state is the one the run
\* was admitted with, and as long as the policy is of the same version the
\* user's own.
Admitted ==
  /\ evidence \in [content : SUBSET Document, listing : SUBSET Document]
  /\ context.version = admitted
  /\ policy \in Nat /\ admitted \in Nat /\ admitted <= policy
  /\ policy = admitted => context = CurrentContext

\* The plan is the one of the message, and announces what its tools may do.
Planned ==
  IF node = "start" THEN plan = NoPlan
  ELSE /\ plan.work = decision.work
       /\ decision.media \in {0, 1}
       /\ plan.tools \cap Mutating # {} => plan.approval

\* Background work is neither read for nor acted for in the foreground.
Routed ==
  /\ node = "start" => evidence = NoEvidence /\ called = {}
  /\ node # "start" /\ plan.work = "background" =>
       /\ evidence = NoEvidence /\ called = {}
       /\ node \notin {"retrieve", "execute_tool", "interrupted"}
       /\ node \in {"review", "respond", "end", "create_artifact"} => job # "none"

PInv == Snapshots /\ Admitted /\ Planned /\ Routed

USE DEF request, retrieval, toolUse, outcome, authority, rows, knowledgeVars

-----------------------------------------------------------------------------
(* Data *)

\* What a built plan takes over, and announces.
LEMMA BuildShape ==
  ASSUME NEW d, NEW known, NEW tools \in Seq(Tool)
  PROVE  LET p == Build(d, known, tools)
         IN /\ p.work = d.work /\ p.media = d.media /\ p.version = known
            /\ p.tools \cap Mutating # {} => p.approval
<1> DEFINE n == IF Len(tools) < MaxToolCalls THEN Len(tools) ELSE MaxToolCalls
           part == SubSeq(tools, 1, n)
           p == Build(d, known, tools)
<1>1. n \in 0..Len(tools)
  BY CallsAssumption
<1> HIDE DEF n
<1>2. /\ p.work = d.work /\ p.media = d.media /\ p.version = known
      /\ p.tools = Range(part) /\ p.approval = (Range(tools) \cap Mutating # {})
  BY DEF Build, n
<1>3. \A t \in Range(part) : t \in Range(tools)
  BY <1>1 DEF Range
<1> QED
  BY <1>2, <1>3

\* The classifier counts at most one medium.
LEMMA MediaShape == \A m : Classify(m).media \in {0, 1}
BY DEF Classify, Estimate, Flag

\* Background work has a job of some kind.
LEMMA JobKindExists ==
  ASSUME NEW p, p.media \in {0, 1}
  PROVE  JobKind(p) # "none"
<1>1. CASE p.media = 1
  BY <1>1 DEF JobKind
<1>2. CASE p.media = 0
  <2>1. JobKind(p) \in {"report_bi", "integration_automation", "document_ocr"}
    BY <1>2 DEF JobKind
  <2> QED
    BY <2>1
<1> QED
  BY <1>1, <1>2

-----------------------------------------------------------------------------
(* Readers *)

\* Both rules of reading are the same rule, and it is the promised one.
LEMMA OneRule ==
  ASSUME Snapshots, NEW d \in Document, NEW c
  PROVE  /\ Authorized(d, c) <=> d \in LocalMatches(c)
         /\ Authorized(d, c) => Readable(d, c)
BY DEF Snapshots, Authorized, LocalMatches, DocumentScope, Cleared, Readable

\* What a search adds to the evidence is readable and not suspicious.
EvidenceStep ==
  \A d \in evidence'.content \ evidence.content :
    /\ Readable(d, context) /\ d \notin Suspicious
    /\ policy = admitted => Readable(d, CurrentContext)

\* Both searches put some of their matches into the evidence.
LEMMA MatchedShape ==
  ASSUME NEW S, S \subseteq Document, Matched(S)
  PROVE  /\ evidence' \in [content : SUBSET S, listing : SUBSET Document]
         /\ UNCHANGED <<request, toolUse, outcome>>
         /\ node' \in {node, "plan", "review"}
<1>1. Narrowed(S) \subseteq S
  BY DEF Narrowed
<1> QED
  BY <1>1 DEF Matched, Retrieved, Goto

LEMMA NextEvidence ==
  ASSUME PInv, [PipelineNext]_pipelineVars
  PROVE  /\ EvidenceStep
         /\ evidence' \in [content : SUBSET Document, listing : SUBSET Document]
<1>0. /\ Snapshots
      /\ evidence \in [content : SUBSET Document, listing : SUBSET Document]
      /\ policy = admitted => context = CurrentContext
  BY DEF PInv, Admitted
<1> DEFINE Goal == /\ EvidenceStep
                   /\ evidence' \in [content : SUBSET Document, listing : SUBSET Document]
<1>1. evidence' = evidence => Goal
  BY <1>0 DEF EvidenceStep
<1>2. evidence' = NoEvidence => Goal
  BY DEF EvidenceStep, NoEvidence
<1>3. Inventory => Goal
  <2> SUFFICES ASSUME Inventory PROVE Goal
    OBVIOUS
  <2>1. \E L \in SUBSET Document : evidence' = [content |-> {}, listing |-> L]
    BY DEF Inventory, Retrieved, Listed
  <2> QED
    BY <2>1 DEF EvidenceStep
<1>4. ASSUME NEW S, S \subseteq Document, Matched(Safe(S)),
             \A d \in S : Readable(d, context)
      PROVE  Goal
  <2>1. Safe(S) \subseteq S /\ \A d \in Safe(S) : d \notin Suspicious
    BY DEF Safe
  <2>2. evidence' \in [content : SUBSET Safe(S), listing : SUBSET Document]
    BY <1>4, <2>1, MatchedShape
  <2> QED
    BY <1>0, <1>4, <2>1, <2>2 DEF EvidenceStep
<1>5. QueryHybrid => Goal
  <2> SUFFICES ASSUME QueryHybrid PROVE Goal
    OBVIOUS
  <2>1. PICK S \in SUBSET HybridMatches(context, queried) : Matched(Safe(S))
    BY DEF QueryHybrid, Ranked
  <2>2. S \subseteq Document /\ \A d \in S : Readable(d, context)
    BY <1>0, <2>1, OneRule DEF HybridMatches
  <2> HIDE DEF Goal
  <2> QED
    BY <1>4, <2>1, <2>2
<1>6. QueryLocal => Goal
  <2> SUFFICES ASSUME QueryLocal PROVE Goal
    OBVIOUS
  <2>1. PICK S \in SUBSET LocalMatches(context) : Matched(Safe(S))
    BY DEF QueryLocal, Ranked
  <2>2. S \subseteq Document /\ \A d \in S : Readable(d, context)
    BY <1>0, <2>1, OneRule DEF LocalMatches
  <2> HIDE DEF Goal
  <2> QED
    BY <1>4, <2>1, <2>2
<1>7. AddProjectSources => Goal
  <2> SUFFICES ASSUME AddProjectSources PROVE Goal
    OBVIOUS
  <2>1. \E S \in SUBSET Document : evidence' = [evidence EXCEPT !.listing = S]
    BY DEF AddProjectSources, Retrieved, Ranked, Listed
  <2> QED
    BY <1>0, <2>1 DEF EvidenceStep
<1> HIDE DEF Goal
<1>8. Nodes => Goal
  <2>1. Retrieve => Goal
    BY <1>1, <1>2, <1>3, <1>5, <1>6, <1>7
       DEF Retrieve, RetrievalRefused, RetrievalDenied, Retrieved, Fail, EmbedQuery
  <2> QED
    BY <1>1, <2>1
       DEF Nodes, Receive, Authorize, Plan, PlanFails, CallRefused, Propose, Resume,
           ResumeRefused, CallTool, RejectTool, CreateArtifact, CreateArtifactFails,
           Review, Respond, Fail
<1>9. Goal
  BY <1>1, <1>8 DEF PipelineNext, Others, ChangeAuthority, pipelineVars
<1> QED
  BY <1>9 DEF Goal

-----------------------------------------------------------------------------
(* The invariant is inductive *)

LEMMA InitInvariant == PipelineInit => PInv
<1> SUFFICES ASSUME PipelineInit PROVE PInv
  OBVIOUS
<1>1. Snapshots
  BY DEF PipelineInit, KnowledgeInit, Snapshots
<1>2. Admitted
  BY DEF PipelineInit, Admitted, CurrentContext, NoEvidence
<1>3. Planned /\ Routed
  BY DEF PipelineInit, Planned, Routed
<1> QED
  BY <1>1, <1>2, <1>3 DEF PInv

\* Writers of documents keep the snapshots in step with the rows.
LEMMA NextSnapshots ==
  ASSUME PInv, [PipelineNext]_pipelineVars
  PROVE  Snapshots'
<1>0. Snapshots
  BY DEF PInv
<1>1. CASE UNCHANGED <<status, scope, acl>>
  BY <1>0, <1>1 DEF Snapshots
<1>2. ASSUME NEW d \in Document, NEW s \in {"processing", "failed"}, SetStatus(d, s)
      PROVE  Snapshots'
  BY <1>0, <1>2 DEF SetStatus, Snapshots
<1>3. ASSUME NEW d \in Document, MarkReady(d) PROVE Snapshots'
  BY <1>0, <1>3 DEF MarkReady, Snapshots
<1>4. ASSUME NEW d \in Document, PromoteDocument(d) PROVE Snapshots'
  BY <1>0, <1>4 DEF PromoteDocument, Snapshots
<1>5. ASSUME NEW d \in Document, RevokeDocument(d) PROVE Snapshots'
  BY <1>0, <1>5 DEF RevokeDocument, Snapshots
<1>6. \A d \in Document : Index(d) => UNCHANGED <<status, scope, acl>>
  BY DEF Index
<1> QED
  BY <1>1, <1>2, <1>3, <1>4, <1>5, <1>6
     DEF PipelineNext, Others, ChangeAuthority, KnowledgeChanges, SwitchSpace, pipelineVars

\* The authority in the state changes only with the admission.
LEMMA NextAdmitted ==
  ASSUME PInv, [PipelineNext]_pipelineVars
  PROVE  Admitted'
<1>1. evidence' \in [content : SUBSET Document, listing : SUBSET Document]
  BY NextEvidence
<1>2. \/ context' = context /\ admitted' = admitted
      \/ context' = CurrentContext /\ admitted' = policy
  BY DEF PipelineNext, Others, ChangeAuthority, pipelineVars, Nodes, Receive, Authorize,
         Retrieve, RetrievalRefused, RetrievalDenied, Inventory, EmbedQuery, QueryHybrid,
         QueryLocal, AddProjectSources, Matched, Retrieved, Plan, PlanFails, CallRefused,
         Propose, Resume, ResumeRefused, CallTool, RejectTool, CreateArtifact,
         CreateArtifactFails, Review, Respond, Fail
<1>3. context'.version = admitted'
  BY <1>2 DEF PInv, Admitted, CurrentContext
<1>4. \/ UNCHANGED authority
      \/ UNCHANGED <<context, admitted>> /\ policy' = policy + 1
  BY DEF PipelineNext, Others, ChangeAuthority, pipelineVars
<1>5. /\ policy' \in Nat /\ admitted' \in Nat /\ admitted' <= policy'
      /\ policy' = admitted' => context' = CurrentContext'
  BY <1>2, <1>4 DEF PInv, Admitted, CurrentContext
<1> QED
  BY <1>1, <1>3, <1>5 DEF Admitted

\* The plans and the work that they stand for.
LEMMA NextPlanned ==
  ASSUME PInv, [PipelineNext]_pipelineVars
  PROVE  Planned' /\ Routed'
<1>0. Planned /\ Routed
  BY DEF PInv
<1> DEFINE Goal == Planned' /\ Routed'
\* Steps that leave the plan alone and enter no foreground node.
<1>1. ASSUME node # "start", UNCHANGED <<plan, decision, called, job>>,
             \/ evidence' = evidence
             \/ plan.work # "background",
             \/ node' \in {"failed", node}
             \/ plan.work # "background" /\ node' # "start"
             \/ /\ node \in {"review", "respond", "end", "create_artifact"}
                /\ node' \in {"review", "respond", "end", "create_artifact"}
      PROVE  Goal
  BY <1>0, <1>1 DEF Planned, Routed
<1>2. CASE UNCHANGED <<node, plan, decision, called, job, evidence>>
  BY <1>0, <1>2 DEF Planned, Routed
<1>3. Receive => Goal
  <2> SUFFICES ASSUME Receive PROVE Goal
    OBVIOUS
  <2>1. PICK r \in Requests :
          /\ decision'.work = r.decision.work /\ decision'.media = r.decision.media
          /\ plan' = Build(r.decision, policy, <<>>)
          /\ node' \in {"authorize", "failed"}
    BY DEF Receive, Goto
  <2>2. r.decision.media \in {0, 1}
    BY MediaShape DEF Requests, Received
  <2>3. /\ plan'.work = r.decision.work
        /\ plan'.tools \cap Mutating # {} => plan'.approval
    <3>1. <<>> \in Seq(Tool)
      OBVIOUS
    <3> QED
      BY <2>1, <3>1, BuildShape
  <2>4. evidence' = NoEvidence /\ called' = {}
    BY <1>0 DEF Receive, Routed
  <2> QED
    BY <2>1, <2>2, <2>3, <2>4 DEF Planned, Routed
<1> HIDE DEF Goal
<1>4. Authorize => Goal
  <2> SUFFICES ASSUME Authorize PROVE Goal
    OBVIOUS
  <2>1. /\ node = "authorize" /\ UNCHANGED <<plan, decision, called, job, evidence>>
        /\ node' \in {"review", "plan", "retrieve", "failed"}
    BY DEF Authorize, Goto, Fail
  <2>2. plan.work = "background" => node' \in {"plan", "failed"}
    BY DEF Authorize, Goto, Fail, RouteAfterClassification
  <2>3. CASE plan.work = "background"
    BY <1>0, <2>1, <2>2, <2>3 DEF Goal, Planned, Routed
  <2> QED
    BY <1>1, <2>1, <2>3
<1>5. Retrieve => Goal
  <2> SUFFICES ASSUME Retrieve PROVE Goal
    OBVIOUS
  <2>1. node = "retrieve"
    BY DEF Retrieve, RetrievalRefused, RetrievalDenied, Inventory, EmbedQuery,
           QueryHybrid, QueryLocal, AddProjectSources
  <2>2. plan.work # "background"
    BY <1>0, <2>1 DEF Routed
  <2>3. /\ UNCHANGED <<plan, decision, called, job>>
        /\ node' \in {node, "plan", "review", "failed"}
    BY DEF Retrieve, RetrievalRefused, RetrievalDenied, Inventory, EmbedQuery,
           QueryHybrid, QueryLocal, AddProjectSources, Matched, Retrieved, Fail, Goto
  <2> QED
    BY <1>1, <2>1, <2>2, <2>3
<1>6. Plan => Goal
  <2> SUFFICES ASSUME Plan PROVE Goal
    OBVIOUS
  <2>1. PICK tools \in Seq(Tool) :
          LET built == Build(decision, context.version, tools)
          IN /\ plan' = built
             /\ job' = IF built.work = "background" THEN JobKind(built) ELSE job
    <3>1. PICK seen \in ToolLists :
            LET tools == IF decision.tools THEN seen ELSE <<>>
                built == Build(decision, context.version, tools)
            IN /\ plan' = built
               /\ job' = IF built.work = "background" THEN JobKind(built) ELSE job
      BY DEF Plan
    <3>2. seen \in Seq(Tool) /\ <<>> \in Seq(Tool)
      BY ListsAssumption
    <3> QED
      BY <3>1, <3>2
  <2> DEFINE built == Build(decision, context.version, tools)
  <2>2. /\ built.work = decision.work /\ built.media = decision.media
        /\ built.tools \cap Mutating # {} => built.approval
    BY BuildShape
  <2>3. /\ node = "plan" /\ UNCHANGED <<decision, called, evidence>>
        /\ plan' = built
        /\ job' = IF built.work = "background" THEN JobKind(built) ELSE job
    BY <2>1 DEF Plan
  <2>4. /\ node' \in {"create_artifact", "execute_tool", "review"}
        /\ built.work = "background" => node' \in {"create_artifact", "review"}
    <3>1. \A c : NextAfterPlan(decision, c) \in {"create_artifact", "execute_tool", "review"}
      BY DEF NextAfterPlan
    <3>2. NextAfterPlan(decision, NoCall) \in {"create_artifact", "review"}
      BY DEF NextAfterPlan
    <3>3. /\ \E c : Goto(NextAfterPlan(decision, c))
          /\ plan'.work = "background" => Goto(NextAfterPlan(decision, NoCall))
      BY DEF Plan
    <3> QED
      BY <2>3, <3>1, <3>2, <3>3 DEF Goto
  <2> HIDE DEF built
  <2>5. /\ plan.work = decision.work /\ decision.media \in {0, 1}
        /\ plan.work = "background" => evidence = NoEvidence /\ called = {}
    BY <1>0, <2>3 DEF Planned, Routed
  <2>6. built.work = "background" => job' # "none"
    BY <2>2, <2>3, <2>5, JobKindExists
  <2> QED
    BY <2>2, <2>3, <2>4, <2>5, <2>6 DEF Goal, Planned, Routed
<1>7. PlanFails \/ CallRefused \/ ResumeRefused \/ CreateArtifactFails => Goal
  BY <1>1 DEF PlanFails, CallRefused, ResumeRefused, CreateArtifactFails, Fail, Goto
<1>8. Propose \/ Resume \/ RejectTool => Goal
  <2>1. Propose \/ Resume \/ RejectTool =>
          /\ node \in {"execute_tool", "interrupted"}
          /\ node' \in {"execute_tool", "interrupted", "review"}
          /\ UNCHANGED <<plan, decision, called, job, evidence>>
    BY DEF Propose, Resume, RejectTool, Goto
  <2>2. node \in {"execute_tool", "interrupted"} => plan.work # "background"
    BY <1>0 DEF Routed
  <2> QED
    BY <1>1, <2>1, <2>2
<1>9. CallTool => Goal
  <2> SUFFICES ASSUME CallTool PROVE Goal
    OBVIOUS
  <2>1. /\ node = "execute_tool" /\ node' = "review"
        /\ UNCHANGED <<plan, decision, job, evidence>>
    BY DEF CallTool, Goto
  <2>2. plan.work # "background"
    BY <1>0, <2>1 DEF Routed
  <2> QED
    BY <1>0, <2>1, <2>2 DEF Goal, Planned, Routed
<1>10. CreateArtifact \/ Review \/ Respond => Goal
  <2>1. CreateArtifact \/ Review \/ Respond =>
          /\ node \in {"create_artifact", "review", "respond"}
          /\ node' \in {"review", "respond", "end", "failed"}
          /\ UNCHANGED <<plan, decision, called, job, evidence>>
    BY DEF CreateArtifact, Review, Respond, Goto
  <2> QED
    BY <1>1, <2>1
<1>11. UNCHANGED <<node, plan, decision, called, job, evidence>> => Goal
  BY <1>2 DEF Goal
<1>12. Goal
  BY <1>3, <1>4, <1>5, <1>6, <1>7, <1>8, <1>9, <1>10, <1>11
     DEF PipelineNext, Nodes, Others, ChangeAuthority, pipelineVars
<1> QED
  BY <1>12 DEF Goal

-----------------------------------------------------------------------------
(* The theorems *)

LEMMA Invariant == PipelineSpec => []PInv
<1>1. PInv /\ [PipelineNext]_pipelineVars => PInv'
  BY NextSnapshots, NextAdmitted, NextPlanned DEF PInv
<1> QED
  BY InitInvariant, <1>1, PTL DEF PipelineSpec

(***************************************************************************)
(* The hybrid search, its fallback and the preview read by one rule, at    *)
(* all times and for every reader (hybrid_search, local_search, preview).  *)
(***************************************************************************)
THEOREM OneRuleForReaders == PipelineSpec => []ReadersAgree
<1>1. PInv => ReadersAgree
  BY OneRule DEF PInv, ReadersAgree, Previewed, LocalMatches
<1> QED
  BY <1>1, Invariant, PTL

(***************************************************************************)
(* No search puts a document before a user who may not read it under the   *)
(* authority the run holds, which is the user's own while the policy       *)
(* version is unchanged, and no quarantined text before anyone             *)
(* (_retrieve_node).                                                       *)
(***************************************************************************)
THEOREM EvidenceIsGuarded == PipelineSpec => EvidenceIsReadable
<1>1. PInv /\ [PipelineNext]_pipelineVars => [EvidenceStep]_pipelineVars
  BY NextEvidence
<1> QED
  BY <1>1, Invariant, PTL DEF PipelineSpec, EvidenceIsReadable, EvidenceStep

(***************************************************************************)
(* Work of the background class is never read for or acted for in the      *)
(* foreground, and never answered without a job (_plan_node).              *)
(***************************************************************************)
THEOREM BackgroundWorkIsQueued == PipelineSpec => []BackgroundIsQueued
<1>1. PInv => BackgroundIsQueued
  BY DEF PInv, Planned, Routed, BackgroundIsQueued
<1> QED
  BY <1>1, Invariant, PTL

\* One step of CallsFollowThePlan.
CallStep ==
  \A t \in called' \ called :
    /\ t \in plan.tools /\ plan.version = admitted
    /\ t \in Mutating => approval = "approved" /\ plan.approval

(***************************************************************************)
(* The tools that are called are those of a plan that was built under the  *)
(* policy of the admission, and those with effect were approved            *)
(* (_tool_node, StrictPlanCompiler.compile).                               *)
(***************************************************************************)
THEOREM CallsFollow == PipelineSpec => CallsFollowThePlan
<1>1. PInv /\ [PipelineNext]_pipelineVars => CallStep
  <2> SUFFICES ASSUME PInv, [PipelineNext]_pipelineVars PROVE CallStep
    OBVIOUS
  <2>1. CASE CallTool
    BY <2>1 DEF CallTool, Declared, Compiles, CallStep, PInv, Admitted, Planned
  <2>2. called' = called => CallStep
    BY DEF CallStep
  <2> HIDE DEF CallStep
  <2> QED
    BY <2>1, <2>2
       DEF PipelineNext, Nodes, Others, ChangeAuthority, pipelineVars, Receive, Authorize,
           Retrieve, RetrievalRefused, RetrievalDenied, Inventory, EmbedQuery, QueryHybrid,
           QueryLocal, AddProjectSources, Matched, Retrieved, Plan, PlanFails, CallRefused,
           Propose, Resume, ResumeRefused, RejectTool, CreateArtifact,
           CreateArtifactFails, Review, Respond, Fail
<1> QED
  BY <1>1, Invariant, PTL DEF PipelineSpec, CallsFollowThePlan, CallStep

-----------------------------------------------------------------------------
(* Recursion and induction up to a bound, of sets and functions *)

\* What holds at 0, and at i when it holds at i - 1, holds up to n.
LEMMA UpTo ==
  ASSUME NEW n \in Nat, NEW I, 0 \in I, \A i \in 1..n : i - 1 \in I => i \in I
  PROVE  \A i \in 0..n : i \in I
<1> DEFINE Out == {i \in Nat : i <= n /\ i \notin I}
           Less == OpToRel(<, Nat)
<1>1. Less = {p \in Nat \X Nat : p[1] < p[2]}
  BY DEF OpToRel
<1>2. IsWellFoundedOn(Less, Nat)
  BY NatLessThanWellFounded
<1> HIDE DEF Less
<1>3. SUFFICES ASSUME Out # {} PROVE FALSE
  OBVIOUS
<1>4. PICK x \in Out : \A y \in Out : ~(<<y, x>> \in Less)
  <2>1. Out \subseteq Nat
    OBVIOUS
  <2> QED
    BY <1>2, <1>3, <2>1, WFMin
<1>5. x \in 1..n /\ x - 1 \in Nat /\ x - 1 < x /\ x - 1 <= n
  BY <1>4
<1>6. x - 1 \in I
  <2>1. <<x - 1, x>> \in Less
    BY <1>1, <1>5
  <2>2. x - 1 \notin Out
    BY <1>4, <2>1
  <2> QED
    BY <1>5, <2>2
<1> QED
  BY <1>4, <1>5, <1>6

\* The sequences of n steps from a first value, each determined by the last.
RunsOf(n, A, base, step) ==
  {f \in [0..n -> A] : f[0] = base /\ \A i \in 1..n : f[i] = step[<<i, f[i - 1]>>]}

LEMMA RunExists ==
  ASSUME NEW n \in Nat, NEW A, NEW base \in A, NEW step,
         \A i \in 1..n, a \in A : step[<<i, a>>] \in A
  PROVE  RunsOf(n, A, base, step) # {}
<1> DEFINE Runs(m) == RunsOf(m, A, base, step)
           I == {m \in 0..n : Runs(m) # {}}
<1>1. 0 \in I
  <2>1. [i \in 0..0 |-> base] \in Runs(0)
    BY DEF RunsOf
  <2> QED
    BY <2>1 DEF RunsOf
<1>2. ASSUME NEW m \in 1..n, m - 1 \in I PROVE m \in I
  <2>1. PICK f : f \in Runs(m - 1)
    BY <1>2
  <2> DEFINE g == [i \in 0..m |-> IF i = m THEN step[<<m, f[m - 1]>>] ELSE f[i]]
  <2>2. f[m - 1] \in A
    BY <2>1 DEF RunsOf
  <2>3. step[<<m, f[m - 1]>>] \in A
    BY <2>2
  <2>4. g \in [0..m -> A]
    BY <2>1, <2>3 DEF RunsOf
  <2>5. g[0] = base
    BY <2>1 DEF RunsOf
  <2>6. ASSUME NEW i \in 1..m PROVE g[i] = step[<<i, g[i - 1]>>]
    <3>1. i - 1 \in 0..(m - 1) /\ i \in 0..m /\ g[i - 1] = f[i - 1]
      OBVIOUS
    <3>2. CASE i = m
      BY <3>1, <3>2
    <3>3. CASE i # m
      <4>1. i \in 1..(m - 1)
        BY <3>3
      <4> QED
        BY <2>1, <3>1, <3>3, <4>1 DEF RunsOf
    <3> QED
      BY <3>2, <3>3
  <2>7. g \in Runs(m)
    BY <2>4, <2>5, <2>6 DEF RunsOf
  <2> HIDE DEF Runs
  <2> QED
    BY <2>7
<1> HIDE DEF I
<1>3. n \in I
  BY <1>1, <1>2, UpTo
<1> QED
  BY <1>3 DEF I

-----------------------------------------------------------------------------
(* The schedule of a plan: the inductive invariant *)

WellListed ==
  /\ steps \in Seq(Range(steps)) /\ ValidSteps(steps)
  /\ batches \in Seq(SUBSET DOMAIN steps)

\* The loop has selected, of the ready steps it is past, some that share
\* nothing, and whatever it has not shares something with one of them.
Selecting ==
  /\ looked \in 0..Len(steps)
  /\ \A i \in selected : i \in Ready /\ i <= looked
  /\ claimed = UNION {steps[i].uses : i \in selected}
  /\ \A i \in selected : \A j \in selected \ {i} : ~Shares(i, j)
  /\ \A i \in Ready : i <= looked => i \in selected \/ \E j \in selected : Shares(i, j)

\* What is ready now and was not selected waits because of the last wave.
Waiting ==
  batches # <<>> => \A i \in Ready :
    \E j \in batches[Len(batches)] : j \in steps[i].needs \/ Shares(i, j)

ScheduleInv == WellListed /\ Selecting /\ Waiting /\ WavesAreSafe

\* While steps remain, the first of them is ready.
LEMMA SomeReady ==
  ASSUME WellListed, Remaining # {}
  PROVE  Ready # {}
<1> DEFINE n == Len(steps)
           I == {i \in 0..n : 1..i \subseteq completed}
<1>1. n \in Nat /\ DOMAIN steps = 1..n
  BY DEF WellListed
<1> SUFFICES ASSUME Ready = {} PROVE FALSE
  OBVIOUS
<1>2. 0 \in I
  BY <1>1
<1>3. ASSUME NEW i \in 1..n, i - 1 \in I PROVE i \in I
  <2>1. 1..(i - 1) \subseteq completed
    BY <1>3
  <2>2. steps[i].needs \subseteq completed
    BY <1>1, <2>1 DEF WellListed, ValidSteps
  <2>3. i \in completed
    BY <1>1, <2>2 DEF Ready, Remaining
  <2>4. 1..i \subseteq completed
    BY <2>1, <2>3
  <2> QED
    BY <2>4
<1>4. n \in I
  <2> HIDE DEF I, n
  <2>1. n \in Nat /\ \A i \in 1..n : i - 1 \in I => i \in I
    BY <1>1, <1>3
  <2>2. \A i \in 0..n : i \in I
    BY <1>2, <2>1, UpTo
  <2> QED
    BY <2>1, <2>2
<1> QED
  BY <1>1, <1>4 DEF Remaining

\* and a loop that is past them all has selected one.
LEMMA SomeSelected ==
  ASSUME WellListed, Selecting, Ready # {}, looked = Len(steps)
  PROVE  selected # {}
<1>1. PICK i \in Ready : TRUE
  OBVIOUS
<1>2. i <= looked
  BY DEF WellListed, Ready, Remaining
<1> QED
  BY <1>1, <1>2 DEF Selecting

LEMMA ScheduleStarts == ScheduleInit => ScheduleInv
<1> SUFFICES ASSUME ScheduleInit PROVE ScheduleInv
  OBVIOUS
<1>1. /\ steps \in StepList /\ ValidSteps(steps) /\ completed = {} /\ batches = <<>>
      /\ looked = 0 /\ selected = {} /\ claimed = {}
  BY DEF ScheduleInit
<1>2. WellListed
  BY <1>1, StepsAssumption DEF WellListed
<1>3. Selecting
  <2>1. Len(steps) \in Nat /\ DOMAIN steps = 1..Len(steps)
    BY <1>2 DEF WellListed
  <2>2. \A i \in Ready : ~(i <= 0)
    BY <2>1 DEF Ready, Remaining
  <2> QED
    BY <1>1, <2>1, <2>2 DEF Selecting
<1>4. Waiting /\ WavesAreSafe
  BY <1>1 DEF Waiting, WavesAreSafe
<1> QED
  BY <1>2, <1>3, <1>4 DEF ScheduleInv

\* A step of the loop changes nothing of the waves.
LEMMA LoopKeeps ==
  ASSUME ScheduleInv, UNCHANGED <<steps, completed, batches>>
  PROVE  WellListed' /\ Waiting' /\ WavesAreSafe'
<1>1. WellListed'
  BY DEF ScheduleInv, WellListed, ValidSteps, Range
<1>2. Waiting'
  BY DEF ScheduleInv, Waiting, Ready, Remaining, Shares
<1>3. WavesAreSafe'
  BY DEF ScheduleInv, WavesAreSafe, Shares
<1> QED
  BY <1>1, <1>2, <1>3

LEMMA ClaimKeeps ==
  ASSUME ScheduleInv, NEW i \in DOMAIN steps, Claim(i)
  PROVE  ScheduleInv'
<1>1. /\ i = looked + 1 /\ i \in Ready /\ steps[i].uses \cap claimed = {} /\ looked' = i
      /\ selected' = selected \cup {i} /\ claimed' = claimed \cup steps[i].uses
      /\ UNCHANGED <<steps, completed, batches>>
  BY DEF Claim, Fits
<1>2. looked \in 0..Len(steps) /\ DOMAIN steps = 1..Len(steps) /\ Len(steps) \in Nat
  BY DEF ScheduleInv, Selecting, WellListed
<1>3. Ready' = Ready
  BY <1>1 DEF Ready, Remaining
<1>4. ASSUME NEW j \in selected PROVE ~Shares(i, j) /\ ~Shares(j, i)
  <2>1. steps[j].uses \subseteq claimed
    BY DEF ScheduleInv, Selecting
  <2> QED
    BY <1>1, <2>1 DEF Shares
<1>5. looked' \in 0..Len(steps')
  BY <1>1, <1>2
<1>6. \A j \in selected' : j \in Ready' /\ j <= looked'
  BY <1>1, <1>2, <1>3 DEF ScheduleInv, Selecting, Ready, Remaining
<1>7. claimed' = UNION {steps'[j].uses : j \in selected'}
  BY <1>1 DEF ScheduleInv, Selecting
<1>8. \A j \in selected' : \A k \in selected' \ {j} : ~Shares(j, k)
  BY <1>1, <1>4 DEF ScheduleInv, Selecting
<1>9. ASSUME NEW j \in Ready, j <= looked'
      PROVE  j \in selected' \/ \E k \in selected' : Shares(j, k)
  <2>1. CASE j = i
    BY <1>1, <2>1
  <2>2. CASE j # i
    <3>1. j <= looked
      BY <1>1, <1>2, <1>9, <2>2 DEF Ready, Remaining
    <3> QED
      BY <1>1, <3>1 DEF ScheduleInv, Selecting
  <2> QED
    BY <2>1, <2>2
<1>10. Selecting'
  BY <1>1, <1>3, <1>5, <1>6, <1>7, <1>8, <1>9 DEF Selecting, Shares
<1> QED
  BY <1>1, <1>10, LoopKeeps DEF ScheduleInv

LEMMA PassKeeps ==
  ASSUME ScheduleInv, NEW i \in DOMAIN steps, Pass(i)
  PROVE  ScheduleInv'
<1>1. /\ i = looked + 1 /\ ~(i \in Ready /\ steps[i].uses \cap claimed = {}) /\ looked' = i
      /\ selected' = selected /\ claimed' = claimed
      /\ UNCHANGED <<steps, completed, batches>>
  BY DEF Pass, Fits
<1>2. looked \in 0..Len(steps) /\ DOMAIN steps = 1..Len(steps) /\ Len(steps) \in Nat
  BY DEF ScheduleInv, Selecting, WellListed
<1>3. Ready' = Ready
  BY <1>1 DEF Ready, Remaining
<1>4. looked' \in 0..Len(steps')
  BY <1>1, <1>2
<1>5. \A j \in selected : j \in Ready /\ j <= looked'
  BY <1>1, <1>2 DEF ScheduleInv, Selecting, Ready, Remaining
<1>6. ASSUME NEW j \in Ready, j <= looked'
      PROVE  j \in selected \/ \E k \in selected : Shares(j, k)
  <2>1. CASE j = i
    BY <1>1, <2>1 DEF ScheduleInv, Selecting, Shares
  <2>2. CASE j # i
    <3>1. j <= looked
      BY <1>1, <1>2, <1>6, <2>2 DEF Ready, Remaining
    <3> QED
      BY <3>1 DEF ScheduleInv, Selecting
  <2> QED
    BY <2>1, <2>2
<1>7. Selecting'
  BY <1>1, <1>3, <1>4, <1>5, <1>6 DEF ScheduleInv, Selecting, Shares
<1> QED
  BY <1>1, <1>7, LoopKeeps DEF ScheduleInv

LEMMA CloseKeeps ==
  ASSUME ScheduleInv, Close
  PROVE  ScheduleInv'
<1> DEFINE last == Len(batches)
<1>1. /\ looked = Len(steps) /\ Ready # {} /\ steps' = steps
      /\ looked' = 0 /\ selected' = {} /\ claimed' = {}
  BY DEF Close
<1>2. batches' = Append(batches, selected) /\ completed' = completed \cup selected
  <2>1. selected # {}
    BY <1>1, SomeSelected DEF ScheduleInv
  <2> QED
    BY <2>1 DEF Close
<1>3. /\ DOMAIN steps = 1..Len(steps) /\ Len(steps) \in Nat /\ last \in Nat
      /\ batches \in Seq(SUBSET DOMAIN steps) /\ selected \in SUBSET DOMAIN steps
  BY DEF ScheduleInv, Selecting, WellListed, Ready, Remaining
<1>4. /\ Len(batches') = last + 1 /\ DOMAIN batches' = 1..(last + 1) /\ DOMAIN batches = 1..last
      /\ batches'[last + 1] = selected /\ \A k \in 1..last : batches'[k] = batches[k]
      /\ batches' \in Seq(SUBSET DOMAIN steps) /\ batches' # <<>>
  BY <1>2, <1>3
<1>5. WellListed'
  BY <1>1, <1>4 DEF ScheduleInv, WellListed, ValidSteps, Range
<1>6. Selecting'
  <2>1. \A i \in Ready' : ~(i <= 0)
    BY <1>1, <1>3 DEF Ready, Remaining
  <2> QED
    BY <1>1, <1>3, <2>1 DEF Selecting
<1>7. \A i \in selected : /\ i \notin completed /\ steps[i].needs \subseteq completed
                          /\ i \in Ready
  BY DEF ScheduleInv, Selecting, Ready, Remaining
<1>8. Waiting'
  <2>1. ASSUME NEW i \in Ready'
        PROVE  \E j \in selected : j \in steps[i].needs \/ Shares(i, j)
    <3>1. /\ i \in DOMAIN steps /\ i \notin completed /\ i \notin selected
          /\ steps[i].needs \subseteq completed \cup selected
      BY <1>1, <1>2 DEF Ready, Remaining
    <3>2. CASE steps[i].needs \subseteq completed
      <4>1. i \in Ready /\ i <= looked
        BY <1>1, <1>3, <3>1, <3>2 DEF Ready, Remaining
      <4> QED
        BY <3>1, <4>1 DEF ScheduleInv, Selecting
    <3>3. CASE ~(steps[i].needs \subseteq completed)
      BY <3>1, <3>3
    <3> QED
      BY <3>2, <3>3
  <2> QED
    BY <1>1, <1>4, <2>1 DEF Waiting, Shares
<1>9. WavesAreSafe'
  <2>1. completed = UNION {batches[k] : k \in 1..last}
    BY <1>4 DEF ScheduleInv, WavesAreSafe
  <2>2. completed' = UNION {batches'[k] : k \in 1..(last + 1)}
    <3>1. ASSUME NEW x \in completed' PROVE \E k \in 1..(last + 1) : x \in batches'[k]
      <4>1. CASE x \in selected
        BY <1>3, <1>4, <4>1
      <4>2. CASE x \in completed
        <5>1. PICK k \in 1..last : x \in batches[k]
          BY <2>1, <4>2
        <5> QED
          BY <1>3, <1>4, <5>1
      <4> QED
        BY <1>2, <3>1, <4>1, <4>2
    <3>2. ASSUME NEW k \in 1..(last + 1), NEW x \in batches'[k] PROVE x \in completed'
      <4>1. CASE k = last + 1
        BY <1>2, <1>4, <3>2, <4>1
      <4>2. CASE k # last + 1
        <5>1. k \in 1..last
          BY <1>3, <4>2
        <5> QED
          BY <1>2, <1>4, <2>1, <3>2, <5>1
      <4> QED
        BY <4>1, <4>2
    <3> QED
      BY <3>1, <3>2
  <2>3. ASSUME NEW k \in 1..(last + 1), NEW l \in 1..(last + 1), k # l
        PROVE  batches'[k] \cap batches'[l] = {}
    <3>1. ASSUME NEW x \in 1..last PROVE batches[x] \cap selected = {}
      BY <1>7, <2>1
    <3>2. CASE k = last + 1
      <4>1. l \in 1..last
        BY <1>3, <2>3, <3>2
      <4> QED
        BY <1>4, <3>1, <3>2, <4>1
    <3>3. CASE l = last + 1
      <4>1. k \in 1..last
        BY <1>3, <2>3, <3>3
      <4> QED
        BY <1>4, <3>1, <3>3, <4>1
    <3>4. CASE k # last + 1 /\ l # last + 1
      <4>1. k \in 1..last /\ l \in 1..last
        BY <1>3, <3>4
      <4> QED
        BY <1>4, <2>3, <4>1 DEF ScheduleInv, WavesAreSafe
    <3> QED
      BY <3>2, <3>3, <3>4
  <2>4. ASSUME NEW k \in 1..(last + 1), NEW i \in batches'[k]
        PROVE  /\ \A j \in steps[i].needs : \E l \in 1..(k - 1) : j \in batches'[l]
               /\ \A j \in batches'[k] \ {i} : ~Shares(i, j)
               /\ k > 1 => \E j \in batches'[k - 1] : j \in steps[i].needs \/ Shares(i, j)
    <3>1. CASE k = last + 1
      <4>1. i \in selected
        BY <1>4, <2>4, <3>1
      <4>2. ASSUME NEW j \in steps[i].needs PROVE \E l \in 1..(k - 1) : j \in batches'[l]
        <5>1. PICK l \in 1..last : j \in batches[l]
          BY <1>7, <2>1, <4>1, <4>2
        <5> QED
          BY <1>3, <1>4, <3>1, <5>1
      <4>3. \A j \in batches'[k] \ {i} : ~Shares(i, j)
        BY <1>4, <3>1, <4>1 DEF ScheduleInv, Selecting
      <4>4. ASSUME k > 1
            PROVE  \E j \in batches'[k - 1] : j \in steps[i].needs \/ Shares(i, j)
        <5>1. last \in 1..last /\ k - 1 = last /\ batches # <<>>
          BY <1>3, <3>1, <4>4
        <5>2. \E j \in batches[last] : j \in steps[i].needs \/ Shares(i, j)
          BY <1>7, <4>1, <5>1 DEF ScheduleInv, Waiting
        <5> QED
          BY <1>4, <5>1, <5>2
      <4> QED
        BY <4>2, <4>3, <4>4
    <3>2. CASE k # last + 1
      <4>1. k \in 1..last /\ i \in batches[k] /\ \A l \in 1..(k - 1) : l \in 1..last
        BY <1>3, <1>4, <2>4, <3>2
      <4>2. /\ \A j \in steps[i].needs : \E l \in 1..(k - 1) : j \in batches[l]
            /\ \A j \in batches[k] \ {i} : ~Shares(i, j)
            /\ k > 1 => \E j \in batches[k - 1] : j \in steps[i].needs \/ Shares(i, j)
        BY <1>4, <4>1 DEF ScheduleInv, WavesAreSafe
      <4>3. k > 1 => k - 1 \in 1..last
        BY <1>3, <4>1
      <4> QED
        BY <1>4, <4>1, <4>2, <4>3
    <3> QED
      BY <3>1, <3>2
  <2>5. \A i, j : Shares(i, j)' <=> Shares(i, j)
    BY <1>1 DEF Shares
  <2>6. completed' = UNION {batches'[k] : k \in DOMAIN batches'}
    BY <1>4, <2>2
  <2>7. \A k, l \in DOMAIN batches' : k # l => batches'[k] \cap batches'[l] = {}
    BY <1>4, <2>3
  <2>8. ASSUME NEW k \in DOMAIN batches', NEW i \in batches'[k]
        PROVE  /\ \A j \in steps'[i].needs : \E l \in 1..(k - 1) : j \in batches'[l]
               /\ \A j \in batches'[k] \ {i} : ~Shares(i, j)'
               /\ k > 1 => \E j \in batches'[k - 1] : j \in steps'[i].needs \/ Shares(i, j)'
    BY <1>1, <1>4, <2>4, <2>5, <2>8
  <2> QED
    BY <2>6, <2>7, <2>8 DEF WavesAreSafe
<1> QED
  BY <1>5, <1>6, <1>8, <1>9 DEF ScheduleInv

LEMMA ScheduleInvariant == ScheduleSpec => []ScheduleInv
<1>1. ScheduleInv /\ [ScheduleNext]_scheduleVars => ScheduleInv'
  <2> SUFFICES ASSUME ScheduleInv, [ScheduleNext]_scheduleVars PROVE ScheduleInv'
    OBVIOUS
  <2>1. CASE ScheduleNext
    BY <2>1, ClaimKeeps, PassKeeps, CloseKeeps DEF ScheduleNext
  <2>2. CASE UNCHANGED scheduleVars
    <3>1. UNCHANGED <<steps, completed, batches, looked, selected, claimed>>
      BY <2>2 DEF scheduleVars, wave
    <3>2. Selecting'
      BY <3>1 DEF ScheduleInv, Selecting, Ready, Remaining, Shares
    <3> QED
      BY <3>1, <3>2, LoopKeeps DEF ScheduleInv
  <2> QED
    BY <2>1, <2>2
<1> QED
  BY <1>1, ScheduleStarts, PTL DEF ScheduleSpec

(* Theorems about the schedule *)

\* In every plan that ExecutionPlan accepts no step is in two waves; each
\* comes after all that it needs and beside none that shares a tool or a
\* connection with it, and waits for a wave only because of a step in it
\* (DependencyScheduler.batches).
THEOREM WavesAlwaysSafe == ScheduleSpec => []WavesAreSafe
  BY ScheduleInvariant, PTL DEF ScheduleInv

\* While steps remain some are ready, and the loop over them selects some:
\* plan_dependency_deadlock is never raised and the first ready step is never
\* added beside the rule.
THEOREM PlanAlwaysAdvances == ScheduleSpec => []PlanAdvances
<1>1. ScheduleInv => PlanAdvances
  BY SomeReady, SomeSelected DEF ScheduleInv, PlanAdvances
<1> QED
  BY <1>1, ScheduleInvariant, PTL

-----------------------------------------------------------------------------
(* What a batch of decisions leaves in the cache and answers *)

\* The entry a decision of these rules makes.
Fresh(rules, c, code, action) ==
  [key |-> Key(c, code, action),
   decision |-> Evaluate(rules, c, AgentResource(code), action, Hour), expired |-> FALSE]

\* Dropping an entry keeps the others.
LEMMA PurgedFrom ==
  ASSUME NEW S, NEW entries \in Seq(S), NEW key
  PROVE  Purged(entries, key) \in Seq(S) /\ Len(Purged(entries, key)) <= Len(entries)
<1> DEFINE over == {n \in DOMAIN entries : entries[n].key = key /\ entries[n].expired}
           k == CHOOSE n \in over : TRUE
           left == SubSeq(entries, 1, k - 1)
           right == SubSeq(entries, k + 1, Len(entries))
<1>1. CASE over = {}
  BY <1>1 DEF Purged
<1>2. CASE over # {}
  <2>1. k \in 1..Len(entries)
    BY <1>2
  <2>2. Purged(entries, key) = left \o right
    BY <1>2 DEF Purged, RemoveAt
  <2> HIDE DEF k
  <2>3. /\ left \in Seq(S) /\ Len(left) = k - 1
        /\ right \in Seq(S) /\ Len(right) = Len(entries) - k
    <3>1. \A i \in 1..Len(entries) : entries[i] \in S
      OBVIOUS
    <3> QED
      BY <2>1, <3>1, SubSeqProperties
  <2> HIDE DEF left, right
  <2>4. left \o right \in Seq(S) /\ Len(left \o right) = Len(left) + Len(right)
    BY <2>3, ConcatProperties
  <2> QED
    BY <2>1, <2>2, <2>3, <2>4
<1> QED
  BY <1>1, <1>2

\* Making room for an entry keeps the others, and the bound.
LEMMA PutFrom ==
  ASSUME NEW S, NEW entries \in Seq(S), Len(entries) <= MaxEntries, NEW key, NEW verdict,
         [key |-> key, decision |-> verdict, expired |-> FALSE] \in S
  PROVE  Put(entries, key, verdict) \in Seq(S) /\ Len(Put(entries, key, verdict)) <= MaxEntries
<1> DEFINE entry == [key |-> key, decision |-> verdict, expired |-> FALSE]
           room == IF Len(entries) >= MaxEntries THEN Tail(entries) ELSE entries
<1>1. MaxEntries \in Nat \ {0} /\ Len(entries) \in Nat
  BY BoundsAssumption
<1>2. room \in Seq(S) /\ Len(room) < MaxEntries
  BY <1>1
<1> HIDE DEF room
<1>3. Append(room, entry) \in Seq(S) /\ Len(Append(room, entry)) = Len(room) + 1
  BY <1>2, AppendProperties
<1>4. Put(entries, key, verdict) \in {entries, Append(room, entry)}
  BY DEF Put, room
<1> DEFINE longer == Append(room, entry)
<1> HIDE DEF longer
<1>5. longer \in Seq(S) /\ Len(longer) <= MaxEntries
  <2>1. Len(room) \in Nat
    BY <1>2
  <2> QED
    BY <1>1, <1>2, <1>3, <2>1 DEF longer
<1>6. CASE Put(entries, key, verdict) = entries
  BY <1>6
<1>7. CASE Put(entries, key, verdict) = longer
  BY <1>5, <1>7
<1> QED
  BY <1>4, <1>6, <1>7 DEF longer

\* A decision is that of an entry, the one it makes included.
LEMMA DecideFrom ==
  ASSUME NEW S, NEW entries \in Seq(S), Len(entries) <= MaxEntries,
         NEW rules, NEW c, NEW code, NEW action,
         Fresh(rules, c, code, action) \in S,
         NEW one, one = Decide(entries, rules, c, code, action)
  PROVE  /\ one.cache \in Seq(S) /\ Len(one.cache) <= MaxEntries
         /\ \E e \in S : e.key = Key(c, code, action) /\ one.decision = e.decision
<1> DEFINE key == Key(c, code, action)
           answer == Evaluate(rules, c, AgentResource(code), action, Hour)
           timed == TimeConditioned(rules)
           hit == IF timed THEN {} ELSE Cached(entries, key)
           rest == Purged(entries, key)
<1>1. Fresh(rules, c, code, action)
        = [key |-> key, decision |-> answer, expired |-> FALSE]
  BY DEF Fresh
<1>2. one = IF hit # {} THEN [cache |-> entries, decision |-> CHOOSE d \in hit : TRUE]
            ELSE [cache |-> IF timed THEN entries ELSE Put(rest, key, answer),
                  decision |-> answer]
  BY DEF Decide
<1>3. hit # {} => (CHOOSE d \in hit : TRUE) \in hit
  OBVIOUS
<1>4. ASSUME NEW d \in hit PROVE \E e \in S : e.key = key /\ d = e.decision
  BY DEF Cached, Range
<1> HIDE DEF key, answer, timed, hit, rest
<1>5. CASE hit # {}
  <2>1. one.cache = entries /\ one.decision \in hit
    BY <1>2, <1>3, <1>5
  <2>2. \E e \in S : e.key = key /\ one.decision = e.decision
    BY <1>4, <2>1
  <2> QED
    BY <2>1, <2>2 DEF key
<1>6. CASE hit = {}
  <2>1. one.decision = answer /\ one.cache \in {entries, Put(rest, key, answer)}
    BY <1>2, <1>6
  <2>2. rest \in Seq(S) /\ Len(rest) <= MaxEntries
    <3>1. rest \in Seq(S) /\ Len(rest) <= Len(entries)
      BY PurgedFrom DEF rest
    <3> QED
      BY <3>1, BoundsAssumption
  <2>3. Put(rest, key, answer) \in Seq(S) /\ Len(Put(rest, key, answer)) <= MaxEntries
    BY <1>1, <2>2, PutFrom
  <2>4. \E e \in S : e.key = key /\ one.decision = e.decision
    BY <1>1, <2>1
  <2> QED
    BY <2>1, <2>3, <2>4 DEF key
<1> QED
  BY <1>5, <1>6

\* So are the decisions of a batch.
LEMMA DecideManyFrom ==
  ASSUME NEW S, NEW entries \in Seq(S), Len(entries) <= MaxEntries,
         NEW rules, NEW c, NEW questions, IsFiniteSet(questions),
         \A ask \in questions : Fresh(rules, c, ask[1], ask[2]) \in S,
         NEW all, all = DecideMany(entries, rules, c, questions)
  PROVE  /\ all.cache \in Seq(S) /\ Len(all.cache) <= MaxEntries
         /\ \A d \in all.answers :
              /\ d.context = c /\ d.code \in {ask[1] : ask \in questions}
              /\ \E e \in S : e.key = Key(c, d.code, d.action) /\ d.decision = e.decision
<1> DEFINE asked == SetToSeq(questions)
           T == {d \in [context : {c}, code : {ask[1] : ask \in questions},
                        action : {ask[2] : ask \in questions},
                        decision : {e.decision : e \in S}] :
                   \E e \in S : e.key = Key(c, d.code, d.action) /\ d.decision = e.decision}
           A == [cache : {s \in Seq(S) : Len(s) <= MaxEntries}, answers : SUBSET T]
           base == [cache |-> entries, answers |-> {}]
           one(acc, n) == Decide(acc.cache, rules, c, asked[n][1], asked[n][2])
           next(acc, n) ==
             [cache |-> one(acc, n).cache,
              answers |-> acc.answers \cup
                {[context |-> c, code |-> asked[n][1], action |-> asked[n][2],
                  decision |-> one(acc, n).decision]}]
           len == Len(asked)
           step == [x \in (1..len) \X A |-> next(x[2], x[1])]
           IsRun(f) == f = [n \in 0..len |-> IF n = 0 THEN base ELSE next(f[n - 1], n)]
           after == CHOOSE f : IsRun(f)
<1>1. len \in Nat /\ \A n \in 1..len : asked[n] \in questions
  <2>1. Cardinality(questions) \in Nat /\ ExistsBijection(1..Cardinality(questions), questions)
    BY FS_CardinalityType
  <2>2. \E f \in [1..Cardinality(questions) -> questions] : IsInjective(f)
    BY <2>1 DEF ExistsBijection, Bijection, Injection
  <2>3. asked \in [1..Cardinality(questions) -> questions]
    BY <2>2 DEF SetToSeq
  <2> QED
    BY <2>1, <2>3
<1>2. base \in A
  OBVIOUS
<1>3. ASSUME NEW acc \in A, NEW n \in 1..len PROVE next(acc, n) \in A
  <2>1. /\ one(acc, n).cache \in Seq(S) /\ Len(one(acc, n).cache) <= MaxEntries
        /\ \E e \in S : /\ e.key = Key(c, asked[n][1], asked[n][2])
                        /\ one(acc, n).decision = e.decision
    <3>1. acc.cache \in Seq(S) /\ Len(acc.cache) <= MaxEntries
      OBVIOUS
    <3>2. asked[n] \in questions /\ Fresh(rules, c, asked[n][1], asked[n][2]) \in S
      BY <1>1
    <3> QED
      BY <3>1, <3>2, DecideFrom
  <2> HIDE DEF one
  <2> DEFINE d == [context |-> c, code |-> asked[n][1], action |-> asked[n][2],
                   decision |-> one(acc, n).decision]
  <2>2. d \in T
    BY <1>1, <2>1
  <2>3. next(acc, n) = [cache |-> one(acc, n).cache, answers |-> acc.answers \cup {d}]
    OBVIOUS
  <2> HIDE DEF d, T, next
  <2> QED
    BY <2>1, <2>2, <2>3
<1> HIDE DEF A, base, next, len
<1>4. \A n \in 1..len, acc \in A : step[<<n, acc>>] = next(acc, n) /\ step[<<n, acc>>] \in A
  BY <1>3
<1> HIDE DEF step
<1>5. PICK f \in RunsOf(len, A, base, step) : TRUE
  <2>1. len \in Nat
    BY <1>1
  <2> QED
    BY <1>2, <1>4, <2>1, RunExists
<1>6. IsRun(f)
  <2>0. f \in [0..len -> A] /\ f[0] = base /\ \A n \in 1..len : f[n] = step[<<n, f[n - 1]>>]
    BY <1>5 DEF RunsOf
  <2>1. ASSUME NEW n \in 1..len PROVE f[n] = next(f[n - 1], n)
    <3>1. f[n - 1] \in A
      BY <1>1, <2>0
    <3> QED
      BY <1>4, <2>0, <3>1
  <2> QED
    BY <1>1, <2>0, <2>1
<1>7. IsRun(after)
  BY <1>6
<1> HIDE DEF after
<1>8. after[0] = base /\ \A n \in 1..len : after[n] = next(after[n - 1], n)
  BY <1>1, <1>7
<1>9. after[len] \in A
  <2> DEFINE I == {n \in 0..len : after[n] \in A}
  <2>1. 0 \in I
    BY <1>1, <1>2, <1>8
  <2>2. ASSUME NEW n \in 1..len, n - 1 \in I PROVE n \in I
    BY <1>3, <1>8, <2>2
  <2> HIDE DEF I
  <2>3. \A n \in 0..len : n \in I
    <3>1. len \in Nat /\ \A n \in 1..len : n - 1 \in I => n \in I
      BY <1>1, <2>2
    <3> QED
      BY <2>1, <3>1, UpTo
  <2> QED
    BY <1>1, <2>3 DEF I
<1>10. all = after[len]
  BY DEF DecideMany, after, next, base, len
<1> QED
  BY <1>9, <1>10 DEF A

-----------------------------------------------------------------------------
(* Who may use which agent: the inductive invariant *)

Granted == Command \cup {BootCommand(a) : a \in Agent}
\* A function on this set, a record of these fields.
FunctionOn(f, S) == f = [x \in S |-> f[x]]

\* The verdict of the compiler on what was assigned, without its cache.
Verdict(live, c, code, action) ==
  Evaluate(Rules(live, c.version), c, AgentResource(code), action, Hour)

\* The history ends in what is assigned, and is longer than the versions.
HistoryInv ==
  /\ world \in Seq(SUBSET (Assignment \X Granted)) /\ Len(world) >= 1
  /\ world[Len(world)] = Live(assignment)
  /\ assignment \in [Assignment -> [active : BOOLEAN, cmd : SUBSET Granted]]
  /\ version \in Nat /\ version < Len(world)

\* What a request carries.
IsRow(r) ==
  /\ FunctionOn(r, {"step", "direct", "context", "then", "codes", "action", "since", "rules",
                    "answers"})
  /\ r.step # "idle"
  /\ r.codes \subseteq Agent /\ r.action \subseteq PolicyAction
  /\ r.since \in 1..Len(world)
  /\ r.context.version \in 0..version
  /\ \A c \in r.then : c.version = r.context.version
RowsInv == FunctionOn(req, Request) /\ \A q \in Request : req[q] = Idle \/ IsRow(req[q])

\* What was assigned at w was assigned while this version was the last one:
\* it is assigned now, or some later time, in the eyes of whoever resolved it.
Seen(w, v) ==
  /\ w \in 1..Len(world)
  /\ v = version => world[w] = world[Len(world)]
  /\ \A q \in Request : req[q] # Idle /\ req[q].context.version = v =>
       \E x \in req[q].since..Len(world) : world[x] = world[w]

KnownRules(r) ==
  r.step \in {"judge_visible", "judge_actions"} =>
    \E w \in 1..Len(world) :
      Seen(w, r.context.version) /\ r.rules = Rules(world[w], r.context.version)
RulesInv == \A q \in Request : req[q] # Idle => KnownRules(req[q])

\* What the cache holds is what the compiler said of such a time.
IsEntry(e) ==
  /\ FunctionOn(e, {"key", "decision", "expired"})
  /\ e.key[1].version \in 0..version
  /\ \E w \in 1..Len(world) :
       Seen(w, e.key[1].version) /\ e.decision = Verdict(world[w], e.key[1], e.key[2], e.key[3])
CacheInv ==
  /\ cache \in Seq(Range(cache)) /\ Len(cache) <= MaxEntries
  /\ \A e \in Range(cache) : IsEntry(e)

KnownAnswers(r) == \A d \in r.answers :
  /\ d.context.version \in Nat
  /\ \E w \in r.since..Len(world) :
       d.decision = Verdict(world[w], d.context, d.code, d.action)
AnswersInv == \A q \in Request : req[q] # Idle => KnownAnswers(req[q])

AccessInv == HistoryInv /\ RowsInv /\ RulesInv /\ CacheInv /\ AnswersInv

\* The steps in which neither the assignments nor the version change.
LEMMA SeenStays ==
  ASSUME NEW w, NEW v, Seen(w, v), UNCHANGED <<world, version>>,
         \A q \in Request : req'[q] # Idle /\ req'[q].context.version = v =>
           \/ req[q] # Idle /\ req'[q].context.version = req[q].context.version
              /\ req'[q].since = req[q].since
           \/ v = version /\ req'[q].since \in 1..Len(world)
  PROVE  Seen(w, v)'
<1> DEFINE now == Len(world)
<1>1. w \in 1..now /\ (v = version => world[w] = world[now])
  BY DEF Seen
<1>2. ASSUME NEW q \in Request, req'[q] # Idle, req'[q].context.version = v
      PROVE  \E x \in req'[q].since..now : world[x] = world[w]
  <2>1. CASE req[q] # Idle /\ req'[q].context.version = req[q].context.version
             /\ req'[q].since = req[q].since
    BY <1>2, <2>1 DEF Seen
  <2>2. CASE v = version /\ req'[q].since \in 1..now
    <3>1. now \in req'[q].since..now /\ world[now] = world[w]
      BY <1>1, <2>2
    <3> QED
      BY <3>1
  <2> QED
    BY <1>2, <2>1, <2>2
<1> QED
  BY <1>1, <1>2 DEF Seen

\* A later version leaves what was seen of the earlier ones.
LEMMA SeenGrows ==
  ASSUME NEW w, NEW v \in 0..version, Seen(w, v), version \in Nat, version' = version + 1,
         NEW live, world \in Seq(SUBSET (Assignment \X Granted)), world' = Append(world, live),
         RowsInv, req' = req
  PROVE  Seen(w, v)' /\ world'[w] = world[w]
<1> DEFINE now == Len(world)
<1>1. /\ now \in Nat /\ Len(world') = now + 1
      /\ \A x \in 1..now : world'[x] = world[x]
  OBVIOUS
<1>2. w \in 1..now
  BY DEF Seen
<1>3. v # version'
  OBVIOUS
<1>4. ASSUME NEW q \in Request, req[q] # Idle, req[q].context.version = v
      PROVE  \E x \in req[q].since..Len(world') : world'[x] = world'[w]
  <2>1. PICK x \in req[q].since..now : world[x] = world[w]
    BY <1>4 DEF Seen
  <2>2. req[q].since \in 1..now
    BY <1>4 DEF RowsInv, IsRow
  <2>3. x \in 1..now /\ x \in req[q].since..Len(world')
    BY <1>1, <2>2
  <2> QED
    BY <1>1, <1>2, <2>1, <2>3
<1>5. \A q \in Request : req'[q] # Idle /\ req'[q].context.version = v =>
        \E x \in req'[q].since..Len(world') : world'[x] = world'[w]
  BY <1>4
<1>6. w \in 1..Len(world') /\ world'[w] = world[w]
  BY <1>1, <1>2
<1> QED
  BY <1>3, <1>5, <1>6 DEF Seen

\* A request that takes a step of its own leaves all that is known of the rest.
LEMMA RequestMoves ==
  ASSUME AccessInv, UNCHANGED <<world, version, assignment>>,
         NEW q \in Request, NEW r, req' = [req EXCEPT ![q] = r],
         IsRow(r), KnownRules(r), KnownAnswers(r),
         \/ /\ req[q] # Idle
            /\ r.context.version = req[q].context.version /\ r.since = req[q].since
         \/ r.context.version = version /\ r.since = Len(world)
  PROVE  /\ HistoryInv' /\ RowsInv' /\ RulesInv' /\ AnswersInv'
         /\ \A w, v : Seen(w, v) => Seen(w, v)'
<1>1. /\ r # Idle
      /\ req' = [p \in Request |-> IF p = q THEN r ELSE req[p]]
  <2>1. r # Idle
    BY DEF IsRow, Idle
  <2> QED
    BY <2>1 DEF AccessInv, RowsInv, FunctionOn
<1>2. HistoryInv'
  BY DEF AccessInv, HistoryInv, Live
<1>3. ASSUME NEW w, NEW v, Seen(w, v) PROVE Seen(w, v)'
  <2>1. ASSUME NEW p \in Request, req'[p] # Idle, req'[p].context.version = v
        PROVE  \/ req[p] # Idle /\ req'[p].context.version = req[p].context.version
                  /\ req'[p].since = req[p].since
               \/ v = version /\ req'[p].since \in 1..Len(world)
    <3>1. Len(world) \in 1..Len(world)
      BY DEF AccessInv, HistoryInv
    <3> QED
      BY <1>1, <2>1, <3>1
  <2> QED
    BY <1>3, <2>1, SeenStays
<1>4. RowsInv'
  <2>1. FunctionOn(req', Request)
    BY <1>1 DEF FunctionOn
  <2>2. ASSUME NEW p \in Request, NEW row, row = req'[p] PROVE row = Idle \/ IsRow(row)'
    <3>1. row = Idle \/ IsRow(row)
      BY <1>1, <2>2 DEF AccessInv, RowsInv
    <3> QED
      BY <3>1 DEF IsRow
  <2>3. ASSUME NEW p \in Request PROVE (req[p] = Idle \/ IsRow(req[p]))'
    BY <2>2 DEF IsRow
  <2> QED
    BY <2>1, <2>3 DEF RowsInv
<1>5. RulesInv'
  <2>1. ASSUME NEW p \in Request, NEW row, row = req'[p], row # Idle PROVE KnownRules(row)'
    <3>1. KnownRules(row)
      BY <1>1, <2>1 DEF AccessInv, RulesInv
    <3>2. \A w : Seen(w, row.context.version) => Seen(w, row.context.version)'
      BY <1>3
    <3> QED
      BY <3>1, <3>2 DEF KnownRules
  <2>2. ASSUME NEW p \in Request, req'[p] # Idle PROVE KnownRules(req[p])'
    BY <2>1, <2>2 DEF KnownRules, Seen
  <2> QED
    BY <2>2 DEF RulesInv
<1>6. AnswersInv'
  <2>1. ASSUME NEW p \in Request, NEW row, row = req'[p], row # Idle PROVE KnownAnswers(row)'
    <3>1. KnownAnswers(row)
      BY <1>1, <2>1 DEF AccessInv, AnswersInv
    <3> QED
      BY <3>1 DEF KnownAnswers
  <2>2. ASSUME NEW p \in Request, req'[p] # Idle PROVE KnownAnswers(req[p])'
    BY <2>1, <2>2 DEF KnownAnswers
  <2> QED
    BY <2>2 DEF AnswersInv
<1> QED
  BY <1>2, <1>3, <1>4, <1>5, <1>6

\* An entry stays true where nothing seen is lost.
LEMMA EntryStays ==
  ASSUME NEW e, IsEntry(e), UNCHANGED <<world, version>>, version \in Nat,
         \A w, v : Seen(w, v) => Seen(w, v)'
  PROVE  IsEntry(e)'
<1>1. PICK w \in 1..Len(world) :
        Seen(w, e.key[1].version) /\ e.decision = Verdict(world[w], e.key[1], e.key[2], e.key[3])
  BY DEF IsEntry
<1>2. Seen(w, e.key[1].version)'
  BY <1>1
<1> QED
  BY <1>1, <1>2 DEF IsEntry, FunctionOn

\* A step of requests alone.
LEMMA RequestsAlone ==
  ASSUME AccessInv, UNCHANGED <<world, version, assignment, cache>>,
         NEW q \in Request, NEW r, req' = [req EXCEPT ![q] = r],
         IsRow(r), KnownRules(r), KnownAnswers(r),
         \/ /\ req[q] # Idle
            /\ r.context.version = req[q].context.version /\ r.since = req[q].since
         \/ r.context.version = version /\ r.since = Len(world)
  PROVE  AccessInv'
<1>1. /\ HistoryInv' /\ RowsInv' /\ RulesInv' /\ AnswersInv'
      /\ \A w, v : Seen(w, v) => Seen(w, v)'
  BY RequestMoves
<1>2. ASSUME NEW e \in Range(cache) PROVE IsEntry(e)'
  BY <1>1, EntryStays DEF AccessInv, CacheInv, HistoryInv
<1>3. CacheInv'
  BY <1>2 DEF AccessInv, CacheInv, Range
<1> QED
  BY <1>1, <1>3 DEF AccessInv

LEMMA BeginKeeps ==
  ASSUME AccessInv, NEW q \in Request, NEW direct, NEW c, NEW then,
         NEW codes \in SUBSET Agent, NEW action \in SUBSET PolicyAction,
         c.version = version, \A x \in then : x.version = version,
         Begin(q, direct, c, then, codes, action)
  PROVE  AccessInv'
<1> DEFINE r == [step |-> "resolved", direct |-> direct, context |-> c, then |-> then,
                 codes |-> codes, action |-> action, since |-> Len(world), rules |-> {},
                 answers |-> {}]
<1>1. req' = [req EXCEPT ![q] = r] /\ UNCHANGED <<world, version, assignment, cache>>
  BY DEF Begin, catalogVars
<1>2. IsRow(r)
  <2>1. FunctionOn(r, {"step", "direct", "context", "then", "codes", "action", "since",
                       "rules", "answers"})
    BY DEF FunctionOn
  <2> QED
    BY <2>1 DEF IsRow, AccessInv, HistoryInv
<1>3. KnownRules(r) /\ KnownAnswers(r)
  BY DEF KnownRules, KnownAnswers
<1>4. r.context.version = version /\ r.since = Len(world)
  OBVIOUS
<1> HIDE DEF r
<1> QED
  BY <1>1, <1>2, <1>3, <1>4, RequestsAlone

LEMMA CandidatesKeeps ==
  ASSUME AccessInv, NEW q \in Request, Candidates(q)
  PROVE  AccessInv'
<1> DEFINE row == req[q]
           found == {a \in row.codes : agent[a].enabled}
           r == IF found = {} THEN [row EXCEPT !.step = "answered"]
                ELSE [row EXCEPT !.step = "visible", !.codes = found]
<1>1. row # Idle /\ IsRow(row) /\ KnownAnswers(row)
  BY DEF Candidates, AccessInv, RowsInv, AnswersInv, Idle
<1>2. req' = [req EXCEPT ![q] = r] /\ UNCHANGED <<world, version, assignment, cache>>
  BY DEF Candidates, catalogVars
<1>3. /\ DOMAIN r = {"step", "direct", "context", "then", "codes", "action", "since",
                     "rules", "answers"}
      /\ r.step \in {"answered", "visible"} /\ r.codes \subseteq row.codes
      /\ r.action = row.action /\ r.since = row.since /\ r.context = row.context
      /\ r.then = row.then /\ r.answers = row.answers
      /\ r = [x \in DOMAIN r |-> r[x]]
  BY <1>1 DEF IsRow, FunctionOn
<1> HIDE DEF r, row
<1>4. IsRow(r) /\ KnownRules(r) /\ KnownAnswers(r)
  BY <1>1, <1>3 DEF IsRow, KnownRules, KnownAnswers, FunctionOn
<1> QED
  BY <1>1, <1>2, <1>3, <1>4, RequestsAlone DEF row

\* What is assigned now is seen of every version.
LEMMA NowSeen ==
  ASSUME AccessInv, NEW v
  PROVE  Seen(Len(world), v)
<1>1. Len(world) \in 1..Len(world)
  BY DEF AccessInv, HistoryInv
<1>2. ASSUME NEW p \in Request, req[p] # Idle PROVE Len(world) \in req[p].since..Len(world)
  BY <1>1, <1>2 DEF AccessInv, RowsInv, IsRow
<1> QED
  BY <1>1, <1>2 DEF Seen

LEMMA ReadRulesKeeps ==
  ASSUME AccessInv, NEW q \in Request, ReadRules(q)
  PROVE  AccessInv'
<1> DEFINE row == req[q]
           next == IF row.step = "visible" THEN "judge_visible" ELSE "judge_actions"
           r == [row EXCEPT !.step = next, !.rules = Rules(Live(assignment), row.context.version),
                            !.answers = {}]
<1>1. row # Idle /\ IsRow(row) /\ row.step \in {"visible", "actions"}
  <2>1. row.step \in {"visible", "actions"}
    BY DEF ReadRules
  <2>2. row # Idle
    BY <2>1 DEF Idle
  <2> QED
    BY <2>1, <2>2 DEF AccessInv, RowsInv
<1>2. req' = [req EXCEPT ![q] = r] /\ UNCHANGED <<world, version, assignment, cache>>
  <2>1. req = [p \in Request |-> req[p]] /\ row = [x \in DOMAIN row |-> row[x]]
        /\ {"step", "rules", "answers"} \subseteq DOMAIN row
    BY <1>1 DEF AccessInv, RowsInv, IsRow, FunctionOn
  <2> QED
    BY <2>1 DEF ReadRules, catalogVars
<1>3. /\ DOMAIN r = {"step", "direct", "context", "then", "codes", "action", "since",
                     "rules", "answers"}
      /\ r.step # "idle" /\ r.codes = row.codes
      /\ r.action = row.action /\ r.since = row.since /\ r.context = row.context
      /\ r.then = row.then /\ r.answers = {}
      /\ r.rules = Rules(world[Len(world)], row.context.version)
      /\ r = [x \in DOMAIN r |-> r[x]]
  BY <1>1 DEF IsRow, FunctionOn, AccessInv, HistoryInv
<1> HIDE DEF r, row
<1>4. IsRow(r)
  BY <1>1, <1>3 DEF IsRow, FunctionOn
<1>5. KnownRules(r)
  <2>1. Seen(Len(world), r.context.version) /\ Len(world) \in 1..Len(world)
    BY NowSeen DEF Seen
  <2> QED
    BY <1>3, <2>1 DEF KnownRules
<1>6. KnownAnswers(r)
  BY <1>3 DEF KnownAnswers
<1> QED
  BY <1>1, <1>2, <1>3, <1>4, <1>5, <1>6, RequestsAlone DEF row

LEMMA AnswerKeeps ==
  ASSUME AccessInv, NEW q \in Request, Answer(q)
  PROVE  AccessInv'
<1> DEFINE row == req[q]
           c == CHOOSE x \in row.then : TRUE
           r == [row EXCEPT !.step = "resolved", !.context = c, !.then = {},
                            !.codes = Agent, !.answers = {}]
<1>1. row # Idle /\ IsRow(row)
  BY DEF Answer, AccessInv, RowsInv, Idle
<1>2. UNCHANGED <<world, version, assignment, cache>>
  BY DEF Answer, catalogVars
<1>3. CASE row.then = {}
  <2>1. req' = [req EXCEPT ![q] = Idle]
    BY <1>3 DEF Answer
  <2>2. req' = [p \in Request |-> IF p = q THEN Idle ELSE req[p]]
    BY <2>1 DEF AccessInv, RowsInv, FunctionOn
  <2>3. HistoryInv'
    BY <1>2 DEF AccessInv, HistoryInv, Live
  <2>4. RowsInv'
    <3>1. FunctionOn(req', Request)
      BY <2>2 DEF FunctionOn
    <3>2. ASSUME NEW p \in Request PROVE (req[p] = Idle \/ IsRow(req[p]))'
      BY <1>2, <2>2 DEF AccessInv, RowsInv, IsRow
    <3> QED
      BY <3>1, <3>2 DEF RowsInv
  <2>5. ASSUME NEW w, NEW v, Seen(w, v) PROVE Seen(w, v)'
    BY <1>2, <2>2, <2>5 DEF Seen
  <2>6. RulesInv'
    <3>1. ASSUME NEW p \in Request, req'[p] # Idle PROVE KnownRules(req[p])'
      <4>1. req'[p] = req[p] /\ KnownRules(req[p])
        BY <2>2, <3>1 DEF AccessInv, RulesInv
      <4>2. ASSUME NEW known, known = req[p] PROVE KnownRules(known)'
        BY <1>2, <2>5, <4>1, <4>2 DEF KnownRules
      <4> QED
        BY <4>1, <4>2 DEF KnownRules, Seen
    <3> QED
      BY <3>1 DEF RulesInv
  <2>7. AnswersInv'
    BY <1>2, <2>2 DEF AccessInv, AnswersInv, KnownAnswers
  <2>8. CacheInv'
    <3>1. ASSUME NEW e \in Range(cache) PROVE IsEntry(e)'
      BY <1>2, <2>5, EntryStays DEF AccessInv, CacheInv, HistoryInv
    <3> QED
      BY <1>2, <3>1 DEF AccessInv, CacheInv, Range
  <2> QED
    BY <2>3, <2>4, <2>6, <2>7, <2>8 DEF AccessInv
<1>4. CASE row.then # {}
  <2>1. c \in row.then
    BY <1>4
  <2> HIDE DEF c
  <2>2. req' = [req EXCEPT ![q] = r]
    BY <1>4 DEF Answer, c
  <2>3. /\ DOMAIN r = {"step", "direct", "context", "then", "codes", "action", "since",
                       "rules", "answers"}
        /\ r.step = "resolved" /\ r.codes = Agent
        /\ r.action = row.action /\ r.since = row.since /\ r.context = c
        /\ r.then = {} /\ r.answers = {}
        /\ r = [x \in DOMAIN r |-> r[x]]
    BY <1>1 DEF IsRow, FunctionOn
  <2> HIDE DEF r, row
  <2>4. c.version = row.context.version
    BY <1>1, <2>1 DEF IsRow
  <2>5. IsRow(r) /\ KnownRules(r) /\ KnownAnswers(r)
    BY <1>1, <2>3, <2>4 DEF IsRow, FunctionOn, KnownRules, KnownAnswers
  <2> QED
    BY <1>1, <1>2, <2>2, <2>3, <2>4, <2>5, RequestsAlone DEF row
<1> QED
  BY <1>3, <1>4

LEMMA JudgeKeeps ==
  ASSUME AccessInv, NEW q \in Request, Judge(q)
  PROVE  AccessInv'
<1> DEFINE row == req[q]
           c == row.context
           first == row.step = "judge_visible"
           asked == row.codes \X (IF first THEN {"visible"} ELSE row.action)
           all == DecideMany(cache, row.rules, c, asked)
           S == Range(cache) \cup {Fresh(row.rules, c, ask[1], ask[2]) : ask \in asked}
           kept == IF first THEN StillAsked(q, all.answers) ELSE row.codes
           r == [row EXCEPT !.step = IF first THEN "actions" ELSE "answered",
                            !.codes = kept, !.answers = all.answers, !.rules = {}]
<1>1. row # Idle /\ IsRow(row) /\ KnownRules(row) /\ row.step \in {"judge_visible", "judge_actions"}
  <2>1. row.step \in {"judge_visible", "judge_actions"}
    BY DEF Judge
  <2>2. row # Idle
    BY <2>1 DEF Idle
  <2> QED
    BY <2>1, <2>2 DEF AccessInv, RowsInv, RulesInv
<1>2. PICK w \in 1..Len(world) :
        Seen(w, c.version) /\ row.rules = Rules(world[w], c.version)
  BY <1>1 DEF KnownRules
<1>3. IsFiniteSet(asked) /\ asked \subseteq Agent \X PolicyAction
  <2>1. row.codes \subseteq Agent /\ (IF first THEN {"visible"} ELSE row.action) \subseteq PolicyAction
    BY <1>1, ActionsAssumption DEF IsRow
  <2>2. asked \subseteq Agent \X PolicyAction
    BY <2>1
  <2>3. IsFiniteSet(Agent \X PolicyAction)
    BY FS_Product, CodesAssumption
  <2> QED
    BY <2>2, <2>3, FS_Subset
<1>4. UNCHANGED <<world, version, assignment>> /\ cache' = all.cache
  BY DEF Judge, catalogVars
<1>5. ASSUME NEW e \in S PROVE IsEntry(e)
  <2>1. CASE e \in Range(cache)
    BY <2>1 DEF AccessInv, CacheInv
  <2>2. ASSUME NEW ask \in asked, e = Fresh(row.rules, c, ask[1], ask[2]) PROVE IsEntry(e)
    <3>1. /\ FunctionOn(e, {"key", "decision", "expired"})
          /\ e.key[1] = c /\ e.key[2] = ask[1] /\ e.key[3] = ask[2]
          /\ e.decision = Evaluate(row.rules, c, AgentResource(ask[1]), ask[2], Hour)
      BY <2>2 DEF Fresh, Key, FunctionOn
    <3>2. c.version \in 0..version
      BY <1>1 DEF IsRow
    <3> QED
      BY <1>2, <3>1, <3>2 DEF IsEntry, Verdict
  <2> QED
    BY <2>1, <2>2
<1>6. /\ all.cache \in Seq(S) /\ Len(all.cache) <= MaxEntries
      /\ \A d \in all.answers :
           /\ d.context = c /\ d.code \in {ask[1] : ask \in asked}
           /\ \E e \in S : e.key = Key(c, d.code, d.action) /\ d.decision = e.decision
  <2> HIDE DEF asked, c, row
  <2>1. cache \in Seq(S) /\ Len(cache) <= MaxEntries
    BY DEF AccessInv, CacheInv
  <2>2. \A ask \in asked : Fresh(row.rules, c, ask[1], ask[2]) \in S
    OBVIOUS
  <2> HIDE DEF S
  <2> QED
    BY <1>3, <2>1, <2>2, DecideManyFrom
<1> HIDE DEF S, all, asked, c
<1>7. ASSUME NEW d \in all.answers
      PROVE  /\ d.context = c /\ d.context.version \in Nat
             /\ \E x \in row.since..Len(world) :
                  d.decision = Verdict(world[x], d.context, d.code, d.action)
  <2>1. d.context = c /\ c.version \in 0..version
    BY <1>1, <1>6 DEF IsRow, c
  <2>2. PICK e \in S : e.key = Key(c, d.code, d.action) /\ d.decision = e.decision
    BY <1>6
  <2>3. e.key[1] = c /\ e.key[2] = d.code /\ e.key[3] = d.action
    BY <2>2 DEF Key
  <2>4. PICK y \in 1..Len(world) :
          Seen(y, c.version) /\ e.decision = Verdict(world[y], c, d.code, d.action)
    BY <1>5, <2>3 DEF IsEntry
  <2>5. PICK x \in row.since..Len(world) : world[x] = world[y]
    BY <1>1, <2>4 DEF Seen, c
  <2> QED
    BY <2>1, <2>2, <2>4, <2>5 DEF AccessInv, HistoryInv
<1>8. kept \subseteq Agent
  <2>1. row.codes \subseteq Agent
    BY <1>1 DEF IsRow
  <2>2. \A d \in all.answers : d.code \in Agent
    BY <1>3, <1>6
  <2> QED
    BY <2>1, <2>2 DEF StillAsked
<1>9. req' = [req EXCEPT ![q] = r]
  BY DEF Judge, all, asked, c
<1> HIDE DEF kept
<1>10. /\ DOMAIN r = {"step", "direct", "context", "then", "codes", "action", "since",
                      "rules", "answers"}
       /\ r.step \in {"actions", "answered"} /\ r.codes = kept
       /\ r.action = row.action /\ r.since = row.since /\ r.context = row.context
       /\ r.then = row.then /\ r.answers = all.answers
       /\ r = [x \in DOMAIN r |-> r[x]]
  BY <1>1 DEF IsRow, FunctionOn
<1> HIDE DEF r, row, first
<1>11. IsRow(r) /\ KnownRules(r) /\ KnownAnswers(r)
  BY <1>1, <1>7, <1>8, <1>10 DEF IsRow, FunctionOn, KnownRules, KnownAnswers
<1>12. /\ HistoryInv' /\ RowsInv' /\ RulesInv' /\ AnswersInv'
       /\ \A x, v : Seen(x, v) => Seen(x, v)'
  BY <1>1, <1>4, <1>9, <1>10, <1>11, RequestMoves DEF row
<1>13. CacheInv'
  <2>1. ASSUME NEW e \in S PROVE IsEntry(e)'
    BY <1>4, <1>5, <1>12, EntryStays DEF AccessInv, HistoryInv
  <2>2. cache' \in Seq(S) /\ Len(cache') <= MaxEntries
    BY <1>4, <1>6
  <2>3. cache' \in Seq(Range(cache')) /\ Range(cache') \subseteq S
    BY <2>2 DEF Range
  <2> QED
    BY <2>1, <2>2, <2>3 DEF CacheInv, Range
<1> QED
  BY <1>12, <1>13 DEF AccessInv

\* A change of the catalog is a new version of what is assigned.
LEMMA ChangedKeeps ==
  ASSUME AccessInv, NEW changed \in [Assignment -> [active : BOOLEAN, cmd : SUBSET Granted]],
         Bump, Changed(changed)
  PROVE  AccessInv'
<1> DEFINE now == Len(world)
<1>1. /\ world \in Seq(SUBSET (Assignment \X Granted)) /\ now \in Nat /\ now >= 1
      /\ version \in Nat /\ version < now /\ version' = version + 1
      /\ req' = req /\ cache' = cache /\ assignment' = changed
      /\ world' = Append(world, Live(changed))
  BY DEF AccessInv, HistoryInv, Bump, Changed
<1>2. Live(changed) \in SUBSET (Assignment \X Granted)
  BY DEF Live
<1>3. /\ Len(world') = now + 1 /\ world' \in Seq(SUBSET (Assignment \X Granted))
      /\ world'[now + 1] = Live(changed) /\ \A x \in 1..now : world'[x] = world[x]
  BY <1>1, <1>2
<1>4. ASSUME NEW w, NEW v \in 0..version, Seen(w, v) PROVE Seen(w, v)' /\ world'[w] = world[w]
  BY <1>1, <1>4, SeenGrows DEF AccessInv
<1>5. HistoryInv'
  BY <1>1, <1>3 DEF HistoryInv, Live
<1>6. ASSUME NEW p \in Request, req[p] # Idle
      PROVE  /\ req[p].since \in 1..now /\ req[p].context.version \in 0..version
             /\ IsRow(req[p])
  BY <1>6 DEF AccessInv, RowsInv, IsRow
<1>7. RowsInv'
  <2>1. ASSUME NEW r, IsRow(r) PROVE IsRow(r)'
    BY <1>1, <1>3, <2>1 DEF IsRow, FunctionOn
  <2>2. ASSUME NEW p \in Request PROVE (req[p] = Idle \/ IsRow(req[p]))'
    <3>1. ASSUME NEW r, r = req[p] PROVE r = Idle \/ IsRow(r)'
      BY <2>1, <3>1 DEF AccessInv, RowsInv
    <3> QED
      BY <1>1, <3>1 DEF IsRow, FunctionOn
  <2> QED
    BY <1>1, <2>2 DEF AccessInv, RowsInv, FunctionOn
<1>8. RulesInv'
  <2>1. ASSUME NEW p \in Request, req[p] # Idle, NEW r, r = req[p] PROVE KnownRules(r)'
    <3>1. KnownRules(r)
      BY <2>1 DEF AccessInv, RulesInv
    <3>2. ASSUME r.step \in {"judge_visible", "judge_actions"}
          PROVE  \E w \in 1..Len(world') : /\ Seen(w, r.context.version)'
                                           /\ r.rules = Rules(world'[w], r.context.version)
      <4>1. PICK w \in 1..now :
              Seen(w, r.context.version) /\ r.rules = Rules(world[w], r.context.version)
        BY <3>1, <3>2 DEF KnownRules
      <4>2. r.context.version \in 0..version
        BY <1>6, <2>1
      <4> QED
        BY <1>1, <1>3, <1>4, <4>1, <4>2
    <3> QED
      BY <3>2 DEF KnownRules
  <2> QED
    BY <1>1, <2>1 DEF RulesInv, KnownRules, Seen
<1>9. AnswersInv'
  <2>1. ASSUME NEW p \in Request, req[p] # Idle, NEW r, r = req[p] PROVE KnownAnswers(r)'
    <3>1. KnownAnswers(r) /\ r.since \in 1..now
      BY <1>6, <2>1 DEF AccessInv, AnswersInv
    <3>2. ASSUME NEW x \in r.since..now PROVE x \in r.since..(now + 1) /\ world'[x] = world[x]
      BY <1>1, <1>3, <3>1
    <3> QED
      BY <1>3, <3>1, <3>2 DEF KnownAnswers
  <2> QED
    BY <1>1, <2>1 DEF AnswersInv, KnownAnswers
<1>10. CacheInv'
  <2>1. ASSUME NEW e \in Range(cache) PROVE IsEntry(e)'
    <3>1. IsEntry(e)
      BY DEF AccessInv, CacheInv
    <3>2. PICK w \in 1..now : /\ Seen(w, e.key[1].version)
                              /\ e.decision = Verdict(world[w], e.key[1], e.key[2], e.key[3])
      BY <3>1 DEF IsEntry
    <3>3. e.key[1].version \in 0..version
      BY <3>1 DEF IsEntry
    <3>4. Seen(w, e.key[1].version)' /\ world'[w] = world[w]
      BY <1>4, <3>2, <3>3
    <3> QED
      <4>1. w \in 1..Len(world') /\ e.key[1].version \in 0..version'
        BY <1>1, <1>3, <3>3
      <4>2. e.decision = Verdict(world'[w], e.key[1], e.key[2], e.key[3])
        BY <3>2, <3>4
      <4>3. FunctionOn(e, {"key", "decision", "expired"})
        BY <3>1 DEF IsEntry
      <4> QED
        BY <3>4, <4>1, <4>2, <4>3 DEF IsEntry, FunctionOn
  <2> QED
    BY <1>1, <2>1 DEF AccessInv, CacheInv, Range
<1> QED
  BY <1>5, <1>7, <1>8, <1>9, <1>10 DEF AccessInv

\* After a start of the process nothing is cached and nobody has asked.
LEMMA BootstrapKeeps ==
  ASSUME AccessInv, NEW a \in Agent, Bootstrap(a)
  PROVE  AccessInv'
<1>1. cache' = <<>> /\ version' = version /\ req' = [q \in Request |-> Idle]
  BY DEF Bootstrap
<1>2. HistoryInv'
  <2>1. CASE OwnerAssigned(a)
    BY <1>1, <2>1 DEF Bootstrap, AccessInv, HistoryInv, Live
  <2>2. CASE ~OwnerAssigned(a)
    <3>1. PICK i \in Assignment : assignment' = [assignment EXCEPT ![i] =
                                     [active |-> TRUE, cmd |-> {BootCommand(a)}]]
      BY <2>2 DEF Bootstrap
    <3>2. world' = Append(world, Live(assignment'))
      BY <2>2 DEF Bootstrap
    <3>3. assignment' \in [Assignment -> [active : BOOLEAN, cmd : SUBSET Granted]]
      BY <3>1 DEF AccessInv, HistoryInv, Granted
    <3>4. Live(assignment') \in SUBSET (Assignment \X Granted)
      BY <3>3 DEF Live
    <3> QED
      BY <1>1, <3>2, <3>3, <3>4 DEF AccessInv, HistoryInv, Live
  <2> QED
    BY <2>1, <2>2
<1>3. RowsInv' /\ RulesInv' /\ AnswersInv'
  BY <1>1 DEF RowsInv, RulesInv, AnswersInv, FunctionOn
<1>4. CacheInv'
  BY <1>1, BoundsAssumption DEF CacheInv, Range
<1> QED
  BY <1>2, <1>3, <1>4 DEF AccessInv

LEMMA ExpireKeeps ==
  ASSUME AccessInv, Expire
  PROVE  AccessInv'
<1>1. PICK n \in DOMAIN cache : cache' = [cache EXCEPT ![n].expired = TRUE]
  BY DEF Expire
<1>2. UNCHANGED <<version, assignment, world, req>>
  BY DEF Expire, catalogVars
<1>3. HistoryInv' /\ RowsInv' /\ RulesInv' /\ AnswersInv'
  <2>1. HistoryInv'
    BY <1>2 DEF AccessInv, HistoryInv, Live
  <2>2. RowsInv'
    BY <1>2 DEF AccessInv, RowsInv, IsRow, FunctionOn
  <2>3. RulesInv'
    BY <1>2 DEF AccessInv, RulesInv, KnownRules, Seen
  <2>4. AnswersInv'
    BY <1>2 DEF AccessInv, AnswersInv, KnownAnswers
  <2> QED
    BY <2>1, <2>2, <2>3, <2>4
<1>4. ASSUME NEW e, IsEntry(e) PROVE IsEntry(e)' /\ IsEntry([e EXCEPT !.expired = TRUE])'
  <2> DEFINE late == [e EXCEPT !.expired = TRUE]
  <2>1. late = [x \in {"key", "decision", "expired"} |-> IF x = "expired" THEN TRUE ELSE e[x]]
    BY <1>4 DEF IsEntry, FunctionOn
  <2>2. FunctionOn(late, {"key", "decision", "expired"}) /\ late.key = e.key
        /\ late.decision = e.decision
    BY <2>1 DEF FunctionOn
  <2> HIDE DEF late
  <2>3. IsEntry(e) /\ IsEntry(late)
    BY <1>4, <2>2 DEF IsEntry
  <2>4. ASSUME NEW x, IsEntry(x) PROVE IsEntry(x)'
    BY <1>2, <2>4 DEF IsEntry, Seen, FunctionOn
  <2>5. ASSUME NEW x, x = late PROVE IsEntry(x)'
    BY <2>3, <2>4, <2>5
  <2> QED
    BY <2>3, <2>4 DEF late
<1>5. /\ Len(cache') = Len(cache) /\ DOMAIN cache = 1..Len(cache) /\ Len(cache) \in Nat
      /\ cache' = [m \in 1..Len(cache) |->
                     IF m = n THEN [cache[n] EXCEPT !.expired = TRUE] ELSE cache[m]]
  <2>1. cache \in Seq(Range(cache))
    BY DEF AccessInv, CacheInv
  <2>2. Len(cache) \in Nat /\ cache = [m \in 1..Len(cache) |-> cache[m]]
    BY <2>1
  <2>3. DOMAIN cache = 1..Len(cache)
    BY <2>1
  <2> DEFINE late == [cache[n] EXCEPT !.expired = TRUE]
  <2>4. cache' = [cache EXCEPT ![n] = late]
    BY <1>1
  <2> HIDE DEF late
  <2>5. cache' = [m \in 1..Len(cache) |-> IF m = n THEN late ELSE cache[m]]
    BY <2>3, <2>4
  <2>6. cache' \in Seq({cache'[m] : m \in 1..Len(cache)}) /\ Len(cache') = Len(cache)
    BY <2>2, <2>5
  <2> QED
    BY <2>2, <2>3, <2>5, <2>6 DEF late
<1>6. CacheInv'
  <2>1. cache' \in Seq(Range(cache'))
    BY <1>5 DEF Range
  <2>2. ASSUME NEW m \in 1..Len(cache), NEW e, e = cache'[m] PROVE IsEntry(e)'
    <3>1. IsEntry(cache[m]) /\ IsEntry(cache[n])
      BY <1>5 DEF AccessInv, CacheInv, Range
    <3> QED
      BY <1>4, <1>5, <2>2, <3>1
  <2>3. \A e \in Range(cache') : IsEntry(e)'
    BY <1>5, <2>2 DEF Range
  <2> QED
    BY <1>5, <2>1, <2>3 DEF AccessInv, CacheInv, Range
<1> QED
  BY <1>3, <1>6 DEF AccessInv

LEMMA AccessInit == Init => AccessInv
<1> SUFFICES ASSUME Init PROVE AccessInv
  OBVIOUS
<1>1. assignment \in [Assignment -> [active : BOOLEAN, cmd : SUBSET Granted]]
  <2>1. CASE assignment = [i \in Assignment |-> NoRow]
    BY <2>1 DEF NoRow
  <2>2. ASSUME NEW row,
               assignment = [i \in Assignment |->
                 [active |-> i \in Range(row),
                  cmd |-> {BootCommand(a) : a \in {x \in Agent : row[x] = i}}]]
        PROVE  assignment \in [Assignment -> [active : BOOLEAN, cmd : SUBSET Granted]]
    <3>1. ASSUME NEW i \in Assignment
          PROVE  {BootCommand(a) : a \in {x \in Agent : row[x] = i}} \in SUBSET Granted
      BY DEF Granted
    <3>2. ASSUME NEW i \in Assignment PROVE (i \in Range(row)) \in BOOLEAN
      OBVIOUS
    <3> QED
      BY <2>2, <3>1, <3>2
  <2> QED
    BY <2>1, <2>2 DEF Init
<1>2. Live(assignment) \in SUBSET (Assignment \X Granted)
  BY <1>1 DEF Live
<1>3. version = 0 /\ world = <<Live(assignment)>> /\ cache = <<>> /\ req = [q \in Request |-> Idle]
  BY DEF Init
<1>4. HistoryInv
  BY <1>1, <1>2, <1>3 DEF HistoryInv
<1>5. RowsInv /\ RulesInv /\ AnswersInv
  BY <1>3 DEF RowsInv, RulesInv, AnswersInv, FunctionOn
<1>6. CacheInv
  BY <1>3, BoundsAssumption DEF CacheInv, Range
<1> QED
  BY <1>4, <1>5, <1>6 DEF AccessInv

\* The steps of a request.
LEMMA AccessRequests ==
  ASSUME AccessInv, NEW q \in Request,
         \/ \E u \in User :
              \/ get_effective_agent(q, u)
              \/ list_effective_agents(q, u)
              \/ preview_company_member_access(q, u)
         \/ Candidates(q) \/ ReadRules(q) \/ Judge(q) \/ Answer(q)
  PROVE  AccessInv'
<1>0. \A u : ContextOf(u).version = version
  BY DEF ContextOf
<1>1. ASSUME NEW u \in User, get_effective_agent(q, u) PROVE AccessInv'
  <2>1. PICK code \in Operational : Begin(q, TRUE, ContextOf(u), {}, {code}, {"use"})
    BY <1>1 DEF get_effective_agent
  <2>2. {code} \in SUBSET Agent /\ {"use"} \in SUBSET PolicyAction
    BY CodesAssumption, ActionsAssumption
  <2>3. ASSUME NEW none, none = {} PROVE AccessInv'
    <3>1. Begin(q, TRUE, ContextOf(u), none, {code}, {"use"})
      BY <2>1, <2>3
    <3>2. \A x \in none : x.version = version
      BY <2>3
    <3> QED
      BY <1>0, <2>2, <3>1, <3>2, BeginKeeps
  <2> QED
    BY <2>3
<1>2. ASSUME NEW u \in User, list_effective_agents(q, u) PROVE AccessInv'
  <2>1. Begin(q, FALSE, ContextOf(u), {}, Agent, PolicyAction \ {"visible"})
    BY <1>2 DEF list_effective_agents
  <2>2. Agent \in SUBSET Agent /\ PolicyAction \ {"visible"} \in SUBSET PolicyAction
    OBVIOUS
  <2>3. ASSUME NEW none, none = {} PROVE AccessInv'
    <3>1. Begin(q, FALSE, ContextOf(u), none, Agent, PolicyAction \ {"visible"})
      BY <2>1, <2>3
    <3>2. \A x \in none : x.version = version
      BY <2>3
    <3> QED
      BY <1>0, <2>2, <3>1, <3>2, BeginKeeps
  <2> QED
    BY <2>3
<1>3. ASSUME NEW u \in User, preview_company_member_access(q, u) PROVE AccessInv'
  <2>1. PICK target \in User, s \in Scenario :
          Begin(q, FALSE, ContextOf(target), {Simulated(ContextOf(target), s)}, Agent,
                PolicyAction \ {"visible"})
    BY <1>3 DEF preview_company_member_access
  <2>2. Agent \in SUBSET Agent /\ PolicyAction \ {"visible"} \in SUBSET PolicyAction
    OBVIOUS
  <2>3. Simulated(ContextOf(target), s).version = version
    <3>1. s.kind \in {"role", "department", "team", "project"}
      BY ScenarioAssumption
    <3> QED
      BY <3>1 DEF Simulated, ContextOf
  <2>4. \A x \in {Simulated(ContextOf(target), s)} : x.version = version
    BY <2>3
  <2> QED
    BY <1>0, <2>1, <2>2, <2>4, BeginKeeps
<1> QED
  BY <1>1, <1>2, <1>3, CandidatesKeeps, ReadRulesKeeps, JudgeKeeps, AnswerKeeps

\* Nothing of all this speaks of the members or the approval chains.
LEMMA AccessStays ==
  ASSUME AccessInv, UNCHANGED <<version, assignment, world, req, cache>>
  PROVE  AccessInv'
<1>1. HistoryInv'
  BY DEF AccessInv, HistoryInv, Live
<1>2. RowsInv'
  BY DEF AccessInv, RowsInv, IsRow, FunctionOn
<1>3. RulesInv'
  BY DEF AccessInv, RulesInv, KnownRules, Seen
<1>4. AnswersInv'
  BY DEF AccessInv, AnswersInv, KnownAnswers
<1>5. CacheInv'
  BY DEF AccessInv, CacheInv, IsEntry, Seen, FunctionOn, Range
<1> QED
  BY <1>1, <1>2, <1>3, <1>4, <1>5 DEF AccessInv

\* The steps of the administration, the process and the clock.
LEMMA AccessChanges ==
  ASSUME AccessInv,
         \/ \E a \in Agent :
              \/ Install(a)
              \/ \E enabled \in BOOLEAN : SetEnabled(a, enabled)
              \/ SetApprovalChain(a)
              \/ Bootstrap(a)
         \/ \E i \in Assignment :
              \/ \E cmd \in Command : Assign(i, cmd)
              \/ RevokeAssignment(i)
         \/ \E u \in User, to \in Subject \cup {Gone} : SubjectChanges(u, to)
         \/ Expire
  PROVE  AccessInv'
<1> DEFINE Rows == [Assignment -> [active : BOOLEAN, cmd : SUBSET Granted]]
<1>1. assignment \in Rows
  BY DEF AccessInv, HistoryInv
<1>2. ASSUME NEW a \in Agent, Install(a) \/ SetApprovalChain(a)
                              \/ \E enabled \in BOOLEAN : SetEnabled(a, enabled)
      PROVE  AccessInv'
  <2>1. Bump /\ Changed(assignment)
    BY <1>2 DEF Install, SetApprovalChain, SetEnabled
  <2> QED
    BY <1>1, <2>1, ChangedKeeps
<1>3. ASSUME NEW i \in Assignment, NEW cmd \in Command, Assign(i, cmd) PROVE AccessInv'
  <2> DEFINE changed == [assignment EXCEPT ![i] = [active |-> TRUE, cmd |-> {cmd}]]
  <2>1. Bump /\ Changed(changed)
    BY <1>3 DEF Assign
  <2>2. changed \in Rows
    BY <1>1 DEF Granted
  <2> HIDE DEF changed
  <2> QED
    BY <2>1, <2>2, ChangedKeeps
<1>4. ASSUME NEW i \in Assignment, RevokeAssignment(i) PROVE AccessInv'
  <2> DEFINE changed == [assignment EXCEPT ![i].active = FALSE]
  <2>1. Bump /\ Changed(changed)
    BY <1>4 DEF RevokeAssignment
  <2>2. changed \in Rows
    BY <1>1
  <2> HIDE DEF changed
  <2> QED
    BY <2>1, <2>2, ChangedKeeps
<1>5. ASSUME NEW u \in User, NEW to \in Subject \cup {Gone}, SubjectChanges(u, to)
      PROVE  AccessInv'
  BY <1>5, AccessStays DEF SubjectChanges, catalogVars
<1> QED
  BY <1>2, <1>3, <1>4, <1>5, BootstrapKeeps, ExpireKeeps

LEMMA AccessNext == AccessInv /\ [Next]_vars => AccessInv'
<1> SUFFICES ASSUME AccessInv, [Next]_vars PROVE AccessInv'
  OBVIOUS
<1>1. CASE Next
  BY <1>1, AccessRequests, AccessChanges DEF Next
<1>2. CASE UNCHANGED vars
  BY <1>2, AccessStays DEF vars, catalogVars
<1> QED
  BY <1>1, <1>2

LEMMA AccessInvariant == Spec => []AccessInv
  BY AccessInit, AccessNext, PTL DEF Spec

(* Theorems about the catalog and its decisions *)

\* The catalog, the members and the cache keep the shape the code gives them:
\* no version is passed over and no more is cached than maximum_entries.
AccessTypes ==
  /\ subject \in [User -> Subject \cup {Gone}]
  /\ agent \in [Agent -> [installed : BOOLEAN, enabled : BOOLEAN]]
  /\ chain \subseteq Agent
  /\ version \in 0..MaxChanges

LEMMA AccessTypesNext == AccessTypes /\ AccessInv /\ [Next]_vars => AccessTypes'
<1> SUFFICES ASSUME AccessTypes, AccessInv, [Next]_vars PROVE AccessTypes'
  OBVIOUS
<1>1. ASSUME Bump, NEW changed, Changed(changed) PROVE version' \in 0..MaxChanges /\ subject' = subject
  BY <1>1, BoundsAssumption DEF Bump, Changed, AccessTypes, AccessInv, HistoryInv
<1>2. ASSUME UNCHANGED <<subject, agent, chain, version>> PROVE AccessTypes'
  BY <1>2 DEF AccessTypes
<1>3. ASSUME NEW a \in Agent, Install(a) \/ \E enabled \in BOOLEAN : SetEnabled(a, enabled)
      PROVE  AccessTypes'
  <2>1. Bump /\ Changed(assignment) /\ chain' = chain
    BY <1>3 DEF Install, SetEnabled
  <2>2. agent' \in [Agent -> [installed : BOOLEAN, enabled : BOOLEAN]]
    <3>1. agent \in [Agent -> [installed : BOOLEAN, enabled : BOOLEAN]]
      BY DEF AccessTypes
    <3>2. CASE Install(a)
      BY <3>1, <3>2 DEF Install
    <3>3. ASSUME NEW enabled \in BOOLEAN, SetEnabled(a, enabled)
          PROVE  agent' \in [Agent -> [installed : BOOLEAN, enabled : BOOLEAN]]
      BY <3>1, <3>3 DEF SetEnabled
    <3> QED
      BY <1>3, <3>2, <3>3
  <2> QED
    BY <1>1, <2>1, <2>2 DEF AccessTypes
<1>4. ASSUME NEW a \in Agent, SetApprovalChain(a) PROVE AccessTypes'
  <2>1. Bump /\ Changed(assignment) /\ agent' = agent /\ chain' = chain \cup {a}
    BY <1>4 DEF SetApprovalChain
  <2> QED
    BY <1>1, <2>1 DEF AccessTypes
<1>5. ASSUME NEW i \in Assignment, NEW cmd \in Command, Assign(i, cmd) PROVE AccessTypes'
  <2>1. UNCHANGED <<agent, chain>> /\ Bump /\ \E changed : Changed(changed)
    BY <1>5 DEF Assign
  <2> QED
    BY <1>1, <2>1 DEF AccessTypes
<1>6. ASSUME NEW i \in Assignment, RevokeAssignment(i) PROVE AccessTypes'
  <2>1. UNCHANGED <<agent, chain>> /\ Bump /\ \E changed : Changed(changed)
    BY <1>6 DEF RevokeAssignment
  <2> QED
    BY <1>1, <2>1 DEF AccessTypes
<1>7. ASSUME NEW a \in Agent, Bootstrap(a) PROVE AccessTypes'
  BY <1>7 DEF Bootstrap, AccessTypes
<1>8. ASSUME NEW u \in User, NEW to \in Subject \cup {Gone}, SubjectChanges(u, to)
      PROVE  AccessTypes'
  BY <1>8 DEF SubjectChanges, catalogVars, AccessTypes
<1>9. ASSUME NEW q \in Request,
             \/ \E u \in User :
                  \/ get_effective_agent(q, u)
                  \/ list_effective_agents(q, u)
                  \/ preview_company_member_access(q, u)
             \/ Candidates(q) \/ ReadRules(q) \/ Judge(q) \/ Answer(q)
      PROVE  AccessTypes'
  BY <1>2, <1>9 DEF get_effective_agent, list_effective_agents, preview_company_member_access,
                    Begin, Candidates, ReadRules, Judge, Answer, catalogVars
<1>10. ASSUME Expire PROVE AccessTypes'
  BY <1>2, <1>10 DEF Expire, catalogVars
<1>11. CASE UNCHANGED vars
  BY <1>2, <1>11 DEF vars, catalogVars
<1> QED
  BY <1>3, <1>4, <1>5, <1>6, <1>7, <1>8, <1>9, <1>10, <1>11 DEF Next

THEOREM AccessTypesCorrect == Spec => []TypeOK
<1>1. Init => AccessTypes
  <2> SUFFICES ASSUME Init PROVE AccessTypes
    OBVIOUS
  <2>1. subject \in [User -> Subject \cup {Gone}] /\ chain \subseteq Agent /\ version \in 0..MaxChanges
    BY BoundsAssumption DEF Init
  <2>2. agent \in [Agent -> [installed : BOOLEAN, enabled : BOOLEAN]]
    <3>1. \/ agent = [a \in Agent |-> [installed |-> FALSE, enabled |-> FALSE]]
          \/ agent = [a \in Agent |-> [installed |-> TRUE, enabled |-> TRUE]]
      BY DEF Init, NotInstalled
    <3>2. ASSUME NEW on \in BOOLEAN
          PROVE  [installed |-> on, enabled |-> on] \in [installed : BOOLEAN, enabled : BOOLEAN]
      OBVIOUS
    <3>3. /\ [installed |-> FALSE, enabled |-> FALSE] \in [installed : BOOLEAN, enabled : BOOLEAN]
          /\ [installed |-> TRUE, enabled |-> TRUE] \in [installed : BOOLEAN, enabled : BOOLEAN]
      BY <3>2
    <3> QED
      BY <3>1, <3>3, Zenon
  <2> QED
    BY <2>1, <2>2 DEF AccessTypes
<1>2. AccessTypes /\ AccessInv => TypeOK
  BY DEF AccessTypes, AccessInv, HistoryInv, CacheInv, TypeOK, Granted
<1> QED
  BY <1>1, <1>2, AccessTypesNext, AccessInvariant, PTL DEF Spec

\* A decision given to a request is one the compiler could have reached without
\* its cache from what was assigned at some moment since the request resolved
\* its context.
THEOREM DecisionsStayCurrent == Spec => []DecisionsAreCurrent
<1>1. AccessInv => DecisionsAreCurrent
  BY DEF AccessInv, AnswersInv, KnownAnswers, Verdict, DecisionsAreCurrent
<1> QED
  BY <1>1, AccessInvariant, PTL

\* A rule narrowed by the target's field of an assignment, and only by it.
RuleOf(rule, cmd, c, given) ==
  /\ cmd.ceiling \in Classification
  /\ rule.effect = cmd.effect /\ rule.version = c.version /\ rule.actions = {given}
  /\ rule.types = {"agent"} /\ rule.ids = {cmd.agent} /\ rule.ceiling = cmd.ceiling
  /\ rule.departments = {} /\ rule.teams = {} /\ rule.projects = {}
  /\ rule.geography = {} /\ ~rule.ownerOnly /\ rule.from = NoHour
  /\ Reaches(cmd, c) <=>
       /\ Admits(rule.roles, c.roles) /\ Admits(rule.actors, {c.actor})
       /\ Admits(rule.subjectDepartments, c.departments)
       /\ Admits(rule.subjectTeams, c.teams) /\ Admits(rule.subjectProjects, c.projects)

LEMMA RuleOfAssignment ==
  ASSUME NEW i, NEW cmd \in Granted, NEW c, NEW given,
         NEW rule, rule = AssignmentRule(i, cmd, given, c.version)
  PROVE  RuleOf(rule, cmd, c, given)
<1>1. /\ cmd.kind \in {"role", "user", "department", "team", "project", "organization"}
      /\ cmd.ceiling \in Classification
  BY CommandAssumption DEF Granted, BootCommand, Classification
<1> DEFINE who(kind) == IF cmd.kind = kind THEN {cmd.target} ELSE {}
<1>2. /\ rule.effect = cmd.effect /\ rule.version = c.version /\ rule.actions = {given}
      /\ rule.types = {"agent"} /\ rule.ids = {cmd.agent} /\ rule.ceiling = cmd.ceiling
      /\ rule.departments = {} /\ rule.teams = {} /\ rule.projects = {}
      /\ rule.geography = {} /\ ~rule.ownerOnly /\ rule.from = NoHour
  BY <1>1 DEF AssignmentRule, AnyRule
<1>3. /\ rule.roles = who("role") /\ rule.actors = who("user")
      /\ rule.subjectDepartments = who("department")
      /\ rule.subjectTeams = who("team") /\ rule.subjectProjects = who("project")
  BY <1>1 DEF AssignmentRule, AnyRule
<1>4. Reaches(cmd, c) <=>
        /\ Admits(rule.roles, c.roles) /\ Admits(rule.actors, {c.actor})
        /\ Admits(rule.subjectDepartments, c.departments)
        /\ Admits(rule.subjectTeams, c.teams) /\ Admits(rule.subjectProjects, c.projects)
  BY <1>1, <1>3 DEF Admits, Reaches
<1> QED
  BY <1>1, <1>2, <1>4 DEF RuleOf

\* It matches whomever the assignment reaches,
LEMMA ReachedMatches ==
  ASSUME NEW rule, NEW cmd, NEW c, NEW code, NEW given, RuleOf(rule, cmd, c, given),
         cmd.agent = code, Reaches(cmd, c), cmd.ceiling # "public",
         c.clearance \in Classification \ {"public"}
  PROVE  rule.effect = cmd.effect /\ Matches(rule, c, AgentResource(code), given, Hour)
<1>1. {"internal", rule.ceiling, c.clearance} \subseteq Classification
      /\ Rank["internal"] <= Rank[rule.ceiling] /\ Rank["internal"] <= Rank[c.clearance]
  BY DEF RuleOf, Classification, Rank
<1> QED
  BY <1>1 DEF RuleOf, Matches, AgentResource, Admits

\* and nobody else.
LEMMA MatchedReaches ==
  ASSUME NEW rule, NEW cmd, NEW c, NEW code, NEW given, NEW action, RuleOf(rule, cmd, c, given),
         Matches(rule, c, AgentResource(code), action, Hour)
  PROVE  /\ rule.effect = cmd.effect /\ action = given /\ cmd.agent = code
         /\ Reaches(cmd, c) /\ cmd.ceiling # "public"
<1>1. Rank["internal"] <= Rank[rule.ceiling]
  BY DEF Matches, AgentResource
<1>2. cmd.ceiling # "public"
  BY <1>1 DEF RuleOf, Rank
<1>3. Reaches(cmd, c)
  BY DEF RuleOf, Matches
<1> QED
  BY <1>2, <1>3 DEF RuleOf, Matches, AgentResource, Admits

\* Of a rule that matches at all, the subject's clearance is internal at least.
LEMMA MatchingClears ==
  ASSUME NEW rule, NEW c, NEW code, NEW action, Matches(rule, c, AgentResource(code), action, Hour)
  PROVE  c.clearance \in Classification \ {"public"}
  BY DEF Matches, AgentResource, Classification, Rank

\* What an allowed verdict says of the assignments it was reached from.
LEMMA AllowedMeans ==
  ASSUME NEW live \in SUBSET (Assignment \X Granted), NEW d, d.context.version \in Nat,
         d.decision = Verdict(live, d.context, d.code, d.action), d.decision.allowed
  PROVE  /\ ~Speaks(live, "deny", d)
         /\ StoredRule = {} \/ d.context.version > 0 => Speaks(live, "allow", d)
<1> DEFINE c == d.context
           rules == Rules(live, c.version)
           matching(effect) == {x \in rules : x.effect = effect
                                  /\ Matches(x, c, AgentResource(d.code), d.action, Hour)}
<1>1. matching("deny") = {} /\ matching("allow") # {}
  BY DEF Verdict, Evaluate, Denied, Allowed
<1>2. PICK allow \in rules : /\ allow.effect = "allow"
                             /\ Matches(allow, c, AgentResource(d.code), d.action, Hour)
  BY <1>1
<1>3. c.clearance \in Classification \ {"public"}
  BY <1>2, MatchingClears
<1>4. ~Speaks(live, "deny", d)
  <2> SUFFICES ASSUME Speaks(live, "deny", d) PROVE FALSE
    OBVIOUS
  <2>1. PICK p \in live : /\ p[2].effect = "deny" /\ p[2].agent = d.code
                          /\ d.action \in p[2].actions /\ Reaches(p[2], c)
                          /\ p[2].ceiling # "public"
    BY DEF Speaks
  <2>2. PICK rule : rule = AssignmentRule(p[1], p[2], d.action, c.version)
    OBVIOUS
  <2>3. rule \in rules
    BY <2>1, <2>2 DEF Rules
  <2>4. p[2] \in Granted
    OBVIOUS
  <2>5. rule.effect = "deny" /\ Matches(rule, c, AgentResource(d.code), d.action, Hour)
    <3>1. RuleOf(rule, p[2], c, d.action)
      BY <2>2, <2>4, RuleOfAssignment
    <3> QED
      BY <1>3, <2>1, <3>1, ReachedMatches
  <2> QED
    BY <1>1, <2>3, <2>5
<1>5. ASSUME StoredRule = {} \/ c.version > 0 PROVE Speaks(live, "allow", d)
  <2>1. allow.version = c.version
    BY <1>2 DEF Matches
  <2>2. PICK p \in live : \E given \in p[2].actions :
          allow = AssignmentRule(p[1], p[2], given, c.version)
    <3>1. ~ \E r \in StoredRule : r.version = c.version
      BY <1>5, StoredAssumption
    <3> QED
      BY <1>2, <3>1 DEF Rules
  <2>3. p[2] \in Granted
    OBVIOUS
  <2>4. /\ p[2].effect = "allow" /\ d.action \in p[2].actions /\ p[2].agent = d.code
        /\ Reaches(p[2], c) /\ p[2].ceiling # "public"
    <3>1. PICK given \in p[2].actions : allow = AssignmentRule(p[1], p[2], given, c.version)
      BY <2>2
    <3>2. RuleOf(allow, p[2], c, given)
      BY <2>3, <3>1, RuleOfAssignment
    <3> QED
      BY <1>2, <3>2, MatchedReaches
  <2> QED
    BY <2>2, <2>4 DEF Speaks
<1> QED
  BY <1>4, <1>5

\* Whoever is allowed an action on an agent has had an assignment allowing it,
\* and has not all the time had one denying it, since the request resolved its
\* context.
THEOREM DenyAlwaysPrevails == Spec => []DenyPrevails
<1>1. ASSUME AccessInv, NEW q \in Request, req[q] # Idle, NEW d \in req[q].answers,
             d.decision.allowed
      PROVE  \E w \in req[q].since..Len(world) :
               /\ ~Speaks(world[w], "deny", d)
               /\ StoredRule = {} \/ d.context.version > 0 => Speaks(world[w], "allow", d)
  <2>1. PICK w \in req[q].since..Len(world) :
          d.decision = Verdict(world[w], d.context, d.code, d.action)
    BY <1>1 DEF AccessInv, AnswersInv, KnownAnswers
  <2>2. d.context.version \in Nat
    BY <1>1 DEF AccessInv, AnswersInv, KnownAnswers
  <2>3. w \in 1..Len(world)
    BY <1>1 DEF AccessInv, RowsInv, IsRow
  <2>4. world[w] \in SUBSET (Assignment \X Granted)
    BY <1>1, <2>3 DEF AccessInv, HistoryInv
  <2> QED
    BY <1>1, <2>1, <2>2, <2>4, AllowedMeans
<1>2. AccessInv => DenyPrevails
  BY <1>1 DEF DenyPrevails
<1> QED
  BY <1>2, AccessInvariant, PTL

=============================================================================
