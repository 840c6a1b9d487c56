--------------------------- MODULE RequestPipeline ---------------------------
(***************************************************************************)
(* What the nodes of the graph of agents/application/orchestrator.py do    *)
(* with one message: AgentRuns follows the rows and the task of a run      *)
(* through the same graph; here are its route, its plan, its evidence and  *)
(* its tool call, while documents change, the policy version rises and the *)
(* clearance of its user is changed by others.                             *)
(*                                                                         *)
(* The message does not change, so the second classification of it, in the *)
(* plan node, is the first one.  `search` is what _retrieve_node has done: *)
(*   none      nothing                                                     *)
(*   embedded  the query is embedded in the space `queried`                *)
(*   fallback  the primary search has failed                               *)
(*   matched   the matches are there, the project sources are missing      *)
(* An operator whose name has the form X_Y is X with one plausible bug.    *)
(***************************************************************************)
EXTENDS StrictPlans, KnowledgeSearch

CONSTANTS
  Message,        \* the messages users send
  ToolLists,      \* the tools a user may see, in the order of the gateway
  Actor,          \* the user of the run
  Title,          \* file names of the documents
  EvidenceLimit,  \* limit of a search, 6 in the code
  UnknownTool,    \* a name the model makes up
  NoCall, NoPlan

ASSUME LimitAssumption == EvidenceLimit \in Nat
ASSUME ListsAssumption == ToolLists \subseteq Seq(Tool)

VARIABLES
  node,      \* the node of the graph
  decision,  \* ExecutionDecision, and what else of the message the nodes read
  context,   \* the authority in the checkpointed state
  plan,      \* the plan in the checkpointed state
  search,    \* progress of the retrieval
  queried,   \* the space of the embedded query
  evidence,  \* [content, listing]: documents quoted, documents named
  offered,   \* tools in the state: those the model could choose from
  call,      \* the tool call the model has chosen
  approval,  \* of that call
  called,    \* history: the tools that were called
  admitted,  \* history: the policy version when the run started or resumed
  job,       \* the kind of the background job that was dispatched
  artifact,  \* the artifact of the run is made of this response
  response,  \* the response in the state, in kind
  policy,    \* current policy version of the user
  clearance  \* current clearance of the user

request == <<decision, context, plan, admitted>>
retrieval == <<search, queried, evidence>>
toolUse == <<offered, call, approval, called>>
outcome == <<job, artifact, response>>
authority == <<policy, clearance>>
pipelineVars == <<node, request, retrieval, toolUse, outcome, authority, knowledgeVars>>

NoEvidence == [content |-> {}, listing |-> {}]
CurrentContext == [actor |-> Actor, clearance |-> clearance, version |-> policy]

Goto(n) == node' = n
Fail == Goto("failed") /\ UNCHANGED <<request, retrieval, toolUse, outcome>>

PipelineInit ==
  /\ KnowledgeInit
  /\ node = "start"
  /\ decision = "none" /\ plan = NoPlan
  /\ policy = 1 /\ clearance = 2
  /\ context = CurrentContext /\ admitted = policy
  /\ search = "none" /\ queried = space
  /\ evidence = NoEvidence
  /\ offered = {} /\ call = NoCall /\ approval = "none" /\ called = {}
  /\ job = "none" /\ artifact = "none" /\ response = "none"

-----------------------------------------------------------------------------
(* From the message to its route.                                          *)

\* What the nodes make of a message.
Received(m) == [decision |-> Classify(m), named |-> m \cap Marked.filename,
                guardrail |-> Guardrail(m)]
Requests == {Received(m) : m \in Message}

\* start to _classify_node: the guardrail may reject the message or bar its
\* tools, and the first plan has none.
Receive ==
  /\ node = "start"
  /\ context' = CurrentContext /\ admitted' = policy
  /\ \E r \in Requests :
       /\ decision' = [route |-> r.decision.route, reason |-> r.decision.reason,
                       work |-> r.decision.work, artifact |-> r.decision.artifact,
                       media |-> r.decision.media,
                       tools |-> r.guardrail.tools, named |-> r.named]
       /\ plan' = Build(r.decision, policy, <<>>)
       /\ Goto(IF r.guardrail.allowed THEN "authorize" ELSE "failed")
  /\ UNCHANGED <<retrieval, toolUse, outcome>>

\* _route_after_classification.
RouteAfterClassification_ByRoute(p, d) == d.route
RouteAfterClassification(p, d) == IF p.work = "background" THEN "planned" ELSE d.route

\* _authorize_node and _route_node: the user may use the specialist or the
\* run fails.
Authorize ==
  /\ node = "authorize"
  /\ \/ /\ Goto(CASE RouteAfterClassification(plan, decision) = "fast" -> "review"
                  [] RouteAfterClassification(plan, decision) = "planned" -> "plan"
                  [] OTHER -> "retrieve")
        /\ UNCHANGED <<request, retrieval, toolUse, outcome>>
     \/ Fail

-----------------------------------------------------------------------------
(* _retrieve_node.                                                         *)

\* _route_after_retrieval.
Retrieved(e) ==
  /\ evidence' = e
  /\ Goto(IF decision.route = "planned_knowledge" THEN "plan" ELSE "review")
  /\ UNCHANGED <<request, search, queried, toolUse, outcome>>

\* The plan is stale, or the knowledge agent may not be read.
RetrievalRefused == node = "retrieve" /\ search = "none" /\ Fail

\* RETRIEVE is denied: no evidence.
RetrievalDenied == node = "retrieve" /\ search = "none" /\ Retrieved(NoEvidence)

\* An inventory question lists documents and never searches them, and the
\* word "project" keeps those of projects.
Inventory ==
  /\ node = "retrieve" /\ search = "none" /\ Compiles(plan, context.version)
  /\ decision.reason = "knowledge_inventory"
  /\ \/ Retrieved([content |-> {}, listing |-> Listed(context)])
     \/ Retrieved([content |-> {},
                   listing |-> {d \in Listed(context) : Domain[d] = "project"}])

\* HybridKnowledgeSearch.search embeds the query first; any failure of it
\* leads FallbackKnowledgeSearch to the local search.
EmbedQuery ==
  /\ node = "retrieve" /\ search = "none" /\ Compiles(plan, context.version)
  /\ decision.reason # "knowledge_inventory"
  /\ search' \in {"embedded", "fallback"}
  /\ queried' = space
  /\ UNCHANGED <<node, request, evidence, toolUse, outcome>>

\* A file name in the message narrows the matches to that file, if it is
\* one of them; a question about a project adds sources of projects.
Narrowed(S) == LET exact == {d \in S : Title[d] \in decision.named}
               IN IF exact = {} THEN S ELSE exact
Matched(S) ==
  IF decision.reason = "project_operations_request"
  THEN /\ evidence' = [content |-> S, listing |-> {}]
       /\ search' = "matched"
       /\ UNCHANGED <<node, request, queried, toolUse, outcome>>
  ELSE Retrieved([content |-> Narrowed(S), listing |-> {}])

QueryHybrid ==
  /\ node = "retrieve" /\ search = "embedded"
  /\ \E S \in Ranked(HybridMatches(context, queried), EvidenceLimit) : Matched(Safe(S))

QueryLocal ==
  /\ node = "retrieve" /\ search \in {"embedded", "fallback"}
  /\ \E found \in SUBSET LocalMatches(context) :
       \E S \in Ranked(found, EvidenceLimit) : Matched(Safe(S))

AddProjectSources ==
  /\ node = "retrieve" /\ search = "matched"
  /\ LET sources == {d \in Listed(context) : Domain[d] = "project" /\ Purpose[d] # "ignore"}
         room == EvidenceLimit - Cardinality(evidence.content)
     IN \E S \in Ranked(sources \ evidence.content, room) :
          Retrieved([evidence EXCEPT !.listing = S])

Retrieve == RetrievalRefused \/ RetrievalDenied \/ Inventory \/ EmbedQuery
            \/ QueryHybrid \/ QueryLocal \/ AddProjectSources

-----------------------------------------------------------------------------
(* _plan_node.                                                             *)

\* _next_after_plan: a message that asks for an artifact has its type in
\* the state since its classification.
NextAfterPlan(d, c) ==
  IF d.artifact # NoArtifact THEN "create_artifact"
  ELSE IF c # NoCall THEN "execute_tool" ELSE "review"

\* The plan is built again with the tools of now.  The composition always gives
\* the graph a dispatcher of background jobs, so its branch without one, which
\* answers "pending-worker-configuration", is not here.
Plan ==
  /\ node = "plan"
  /\ \E seen \in ToolLists :
       LET tools == IF decision.tools THEN seen ELSE <<>>
           built == Build(decision, context.version, tools)
           projects == decision.reason = "project_operations_request"
           choice == IF projects THEN Range(tools) \ Demo ELSE Range(tools)
           missing == projects /\ choice \cap ProjectTool = {} /\ evidence = NoEvidence
           Planned(c, t, kind) ==
             /\ call' = c /\ offered' = t /\ response' = kind
             /\ Goto(NextAfterPlan(decision, c))
       IN /\ plan' = built
          /\ job' = IF built.work = "background" THEN JobKind(built) ELSE job
          /\ \/ /\ built.work = "background"
                /\ Planned(NoCall, Range(tools), "deferred")
             \/ /\ built.work # "background" /\ decision.artifact # NoArtifact
                /\ Planned(NoCall, {}, "content")
             \/ /\ built.work # "background" /\ decision.artifact = NoArtifact /\ missing
                /\ Planned(NoCall, {}, "missing")
             \/ /\ built.work # "background" /\ decision.artifact = NoArtifact /\ ~missing
                /\ \/ Planned(NoCall, choice, "text")
                   \/ /\ MaxToolCalls > 0
                      /\ \E t \in choice \cup {UnknownTool} : Planned(t, choice, "text")
  /\ UNCHANGED <<decision, context, admitted, retrieval, approval, called, artifact>>

\* The planning fails: gateway, model or job service do not answer.
PlanFails == node = "plan" /\ Fail

-----------------------------------------------------------------------------
(* _tool_node and _artifact_node.                                          *)

\* The checks before anything is proposed, which a resumed run repeats.
Declared == Compiles(plan, context.version) /\ call \in plan.tools

\* The assignment no longer permits execution, or the plan does not declare
\* the call.
CallRefused == node = "execute_tool" /\ Fail

Propose ==
  /\ node = "execute_tool" /\ approval = "none"
  /\ Declared /\ call \in offered /\ call \in Mutating
  /\ approval' = "pending"
  /\ Goto("interrupted")
  /\ UNCHANGED <<request, retrieval, offered, call, called, outcome>>

\* The approver decides, and resume() puts the authority of now into the
\* state before it re-enters the node.
Resume ==
  /\ node = "interrupted"
  /\ approval' \in {"approved", "rejected"}
  /\ context' = CurrentContext /\ admitted' = policy
  /\ Goto("execute_tool")
  /\ UNCHANGED <<decision, plan, retrieval, offered, call, called, outcome>>

\* The user is gone, or the assignment no longer permits execution.
ResumeRefused == node = "interrupted" /\ Fail

CallTool ==
  /\ node = "execute_tool"
  /\ Declared /\ call \in offered
  /\ call \in Mutating => approval = "approved"
  /\ called' = called \cup {call}
  /\ Goto("review")
  /\ UNCHANGED <<request, retrieval, offered, call, approval, outcome>>

\* _rejected_tool: arguments, decision or policy are against the call.
RejectTool ==
  /\ node = "execute_tool" /\ Declared
  /\ Goto("review")
  /\ UNCHANGED <<request, retrieval, toolUse, outcome>>

\* The draft is made of the response, and the response then announces it.
CreateArtifact ==
  /\ node = "create_artifact"
  /\ artifact' = response
  /\ response' = "announcement"
  /\ Goto("review")
  /\ UNCHANGED <<request, retrieval, toolUse, job>>

CreateArtifactFails == node = "create_artifact" /\ Fail

\* _review_node and _respond_node.
Review ==
  /\ node = "review"
  /\ Goto(IF Compiles(plan, context.version) THEN "respond" ELSE "failed")
  /\ UNCHANGED <<request, retrieval, toolUse, outcome>>

Respond ==
  /\ node = "respond"
  /\ response' = IF response = "none" \/ called # {} THEN "answer" ELSE response
  /\ Goto("end")
  /\ UNCHANGED <<request, retrieval, toolUse, job, artifact>>

-----------------------------------------------------------------------------
(* Meanwhile.                                                              *)

\* A policy change raises the version; the clearance may change with it.
ChangeAuthority ==
  /\ Change
  /\ policy' = policy + 1
  /\ clearance' \in 0..2
  /\ UNCHANGED <<node, request, retrieval, toolUse, outcome, rows, space>>

Nodes ==
  \/ Receive \/ Authorize \/ Retrieve \/ Plan \/ PlanFails \/ CallRefused \/ Propose
  \/ Resume \/ ResumeRefused \/ CallTool \/ RejectTool \/ CreateArtifact
  \/ CreateArtifactFails \/ Review \/ Respond

Others ==
  \/ KnowledgeChanges /\ UNCHANGED <<node, request, retrieval, toolUse, outcome, authority>>
  \/ ChangeAuthority

PipelineNext ==
  \/ Nodes /\ UNCHANGED <<authority, knowledgeVars>>
  \/ Others

PipelineSpec == PipelineInit /\ [][PipelineNext]_pipelineVars

-----------------------------------------------------------------------------
(* What the code promises.                                                 *)

\* "Apply ACLs first": content that enters the evidence, by whichever search it
\* was found, is at that moment readable under the authority the run holds, and
\* for the user as cleared now unless the policy version has risen since the
\* run resolved that authority; no quarantined text is among it.
EvidenceIsReadable ==
  [][\A d \in evidence'.content \ evidence.content :
       /\ Readable(d, context) /\ d \notin Suspicious
       /\ policy = admitted => Readable(d, CurrentContext)]_pipelineVars

\* The clearance a run was admitted with outlives a change: content that the
\* user may no longer read still enters (README.md, section 6).
EvidenceIsReadableNow ==
  [][\A d \in evidence'.content \ evidence.content : Readable(d, CurrentContext)]_pipelineVars

\* The two rules by which content is read agree at all times: that of the
\* snapshots, for the hybrid search and the preview, and that of the rows,
\* for the local search, which a failure of the first leads to.
ReadersAgree ==
  \A c \in [actor : {Owner[d] : d \in Document} \cup {Actor}, clearance : 0..2] :
    Previewed(c) = LocalMatches(c)

\* A tool is called only if the plan declares it and was built under the
\* policy that was current when the run was started or last resumed: a change
\* while it waited for its approval stops it.  A call with effect has been
\* approved, and the plan has announced the approval.
CallsFollowThePlan ==
  [][\A t \in called' \ called :
       /\ t \in plan.tools /\ plan.version = admitted
       /\ t \in Mutating => approval = "approved" /\ plan.approval]_pipelineVars

\* "Background-class work returns a safe deferred status": the foreground
\* neither reads documents nor calls tools for it, and it does not get its
\* answer without a job.
BackgroundIsQueued ==
  plan # NoPlan /\ plan.work = "background" =>
    /\ evidence = NoEvidence /\ called = {}
    /\ node \in {"review", "respond", "end", "create_artifact"} => job # "none"

-----------------------------------------------------------------------------
(* What the documentation says and the code does not do.                   *)

\* "... without foreground side effects": but a message that asks for an
\* artifact gets one, of the text that announces the job.
DeferredHasNoEffect == job # "none" => artifact = "none"

=============================================================================
