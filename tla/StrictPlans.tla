----------------------------- MODULE StrictPlans -----------------------------
(***************************************************************************)
(* The strict plan of a run (agents/application/planning.py,               *)
(* agents/domain/planning.py): built from the routing decision and the     *)
(* tools its user can see, compiled against the authority of now before    *)
(* every use, its step handed to the job service.  A plan is built with    *)
(* one step, whose fields stand in the plan here; PlanSchedule arranges    *)
(* the steps of any plan in waves.                                         *)
(*                                                                         *)
(* An operator whose name has the form X_Y is X with one plausible bug.    *)
(***************************************************************************)
EXTENDS ExecutionRouting

CONSTANTS
  Tool,         \* tools of the connected servers
  Mutating,     \* the tools that are not read-only
  Demo,         \* the tools of a server that is labelled as a demo
  ProjectTool,  \* the tools with a project marker in their name
  MaxToolCalls  \* agent_max_tool_calls

ASSUME ToolAssumption == Mutating \subseteq Tool /\ Demo \subseteq Tool /\ ProjectTool \subseteq Tool
ASSUME CallsAssumption == MaxToolCalls \in 0..12

\* StrictPlanCompiler._MAXIMUM_TOOL_CALLS.
MaximumToolCalls == 20

\* build: the step declares as many tools, of those the user can see, as
\* the run may make calls; the risk is that of all of them.
Build(decision, version, tools) ==
  LET scope == Range(SubSeq(tools, 1, IF Len(tools) < MaxToolCalls THEN Len(tools)
                                                                    ELSE MaxToolCalls))
  IN [version |-> version,
      work |-> decision.work,
      agent |-> AgentCode(decision),
      reader |-> decision.route \in {"knowledge", "planned_knowledge"},
      tools |-> scope,
      approval |-> Range(tools) \cap Mutating # {},
      calls |-> MaxToolCalls,
      media |-> decision.media]

\* compile.
Compiles_AnyVersion(plan, version) == plan.calls <= MaximumToolCalls
Compiles(plan, version) == plan.version = version /\ plan.calls <= MaximumToolCalls

\* JobService._kind.
JobKind(plan) ==
  CASE plan.media > 0 -> "media"
    [] plan.media = 0 /\ plan.agent = "data_analytics" -> "report_bi"
    [] plan.media = 0 /\ plan.agent = "planner" -> "integration_automation"
    [] plan.media = 0 /\ plan.agent \notin {"data_analytics", "planner"} -> "document_ocr"

=============================================================================
