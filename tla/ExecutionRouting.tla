-------------------------- MODULE ExecutionRouting --------------------------
(***************************************************************************)
(* The guardrail and the routing of a message, both before any model or    *)
(* retrieval call (agents/application/guardrails.py,                       *)
(* agents/application/execution_classifier.py).                            *)
(*                                                                         *)
(* Both look for substrings of the message.  A message is a set of         *)
(* phrases, and Marked says in which phrases the text of a marker of each  *)
(* table is found: "large file" holds a marker of the knowledge table too, *)
(* and no two phrases side by side make up another marker.  A phrase holds *)
(* at most one marker of a table that is counted.  Only English phrases    *)
(* appear; the Arabic markers stand in the same tables.                    *)
(***************************************************************************)
EXTENDS Integers, FiniteSets, SequencesExt

Marked ==
  [greetings |-> {"hello"},
   knowledge |-> {"report.pdf", "large file", "list files", "documents", "word document",
                  "markdown report"},
   inventory |-> {"list files"},
   entities |-> {"list files", "documents"},
   intents |-> {"list files", "which"},
   structured |-> {"database"},
   operations |-> {"project status"},
   actions |-> {"jira", "email", "create a"},
   complexity |-> {"then", "after that", "workflow", "automation"},
   background |-> {"large file", "video", "bulk"},
   media |-> {"video", "audio"},
   creation |-> {"create a", "make a"},
   presentation |-> {"powerpoint"},
   document |-> {"word document"},
   spreadsheet |-> {"excel"},
   report |-> {"markdown report"},
   filename |-> {"report.pdf", "notes.txt"},
   injection |-> {"ignore previous instructions"},
   long |-> {"8001 characters", "12001 characters"},
   excessive |-> {"12001 characters"}]

Phrase == UNION Range(Marked)

Has(m, table) == m \cap Marked[table] # {}
Count(m, table) == Cardinality(m \cap Marked[table])
Flag(b) == IF b THEN 1 ELSE 0

\* InputGuardrails.evaluate.
Guardrail(m) ==
  [allowed |-> m # {} /\ ~Has(m, "excessive"),
   tools |-> m # {} /\ ~Has(m, "excessive") /\ ~Has(m, "injection")]

\* ExecutionLimits, and the estimate they bound; nothing counts records.
Limits == [characters |-> 8000, files |-> 3, media |-> 0, records |-> 1000,
           steps |-> 4, tools |-> 2]

Estimate(m) ==
  [characters |-> IF Has(m, "long") THEN Limits.characters + 1 ELSE 20 * Cardinality(m),
   files |-> Flag(Has(m, "knowledge")),
   media |-> Flag(Has(m, "media")),
   records |-> 0,
   steps |-> 1 + Count(m, "complexity"),
   tools |-> Count(m, "actions")]

ShouldEscalate(estimate) == \E field \in DOMAIN Limits : estimate[field] > Limits[field]

\* _artifact_request: the formats are tried in this order.
Artifacts == <<"presentation", "document", "spreadsheet", "report">>
NoArtifact == "none"
ArtifactRequest(m) ==
  LET asked == {i \in DOMAIN Artifacts : Has(m, "creation") /\ Has(m, Artifacts[i])}
  IN IF asked = {} THEN NoArtifact
     ELSE Artifacts[CHOOSE i \in asked : \A j \in asked : i <= j]

\* The returns of classify in their order, each with its condition.
Returns(m) ==
  LET artifact == ArtifactRequest(m) # NoArtifact
      named == Has(m, "filename") \/ Has(m, "knowledge")
  IN << [when |-> m \subseteq Marked.greetings,
         route |-> "fast", reason |-> "simple_conversation"],
        [when |-> artifact /\ Has(m, "knowledge"),
         route |-> "planned_knowledge", reason |-> "artifact_creation_request"],
        [when |-> artifact,
         route |-> "planned", reason |-> "artifact_creation_request"],
        [when |-> Has(m, "inventory") \/ (Has(m, "entities") /\ Has(m, "intents")),
         route |-> "knowledge", reason |-> "knowledge_inventory"],
        [when |-> Has(m, "structured"),
         route |-> "planned", reason |-> "structured_data_request"],
        [when |-> Has(m, "operations"),
         route |-> "planned_knowledge", reason |-> "project_operations_request"],
        [when |-> Has(m, "actions") /\ named,
         route |-> "planned_knowledge", reason |-> "action_with_evidence"],
        [when |-> Has(m, "actions") \/ Has(m, "complexity"),
         route |-> "planned", reason |-> "tool_or_multistep_request"],
        [when |-> named,
         route |-> "knowledge", reason |-> "direct_knowledge_request"],
        [when |-> TRUE,
         route |-> "fast", reason |-> "direct_conversation"] >>

\* Reasons whose decision is FAST work whatever the estimate says.
AlwaysFast == {"simple_conversation", "knowledge_inventory", "direct_knowledge_request",
               "direct_conversation"}

\* classify.
Classify(m) ==
  LET returns == Returns(m)
      first == CHOOSE i \in DOMAIN returns :
                 /\ returns[i].when
                 /\ \A j \in 1..(i - 1) : ~returns[j].when
      background == Has(m, "background") \/ ShouldEscalate(Estimate(m))
      reason == returns[first].reason
  IN [route |-> returns[first].route,
      reason |-> reason,
      work |-> IF reason \in AlwaysFast THEN "fast"
               ELSE IF background THEN "background" ELSE "standard",
      artifact |-> IF reason = "artifact_creation_request" THEN ArtifactRequest(m)
                                                           ELSE NoArtifact,
      media |-> Estimate(m).media]

\* ExecutionDecision.agent_code.
ArtifactAgent == [presentation |-> "presentation_execution", document |-> "document_execution",
                  spreadsheet |-> "spreadsheet_execution", report |-> "report_execution"]
ReasonAgent == [structured_data_request |-> "data_analytics", project_operations_request |-> "pmo"]
RouteAgent == [knowledge |-> "knowledge_documents", planned_knowledge |-> "knowledge_documents",
               planned |-> "planner", fast |-> "chat_assistant"]
AgentCode(decision) ==
  IF decision.artifact \in DOMAIN ArtifactAgent THEN ArtifactAgent[decision.artifact]
  ELSE IF decision.reason \in DOMAIN ReasonAgent THEN ReasonAgent[decision.reason]
  ELSE RouteAgent[decision.route]

=============================================================================
