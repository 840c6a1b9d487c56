------------------------- MODULE MCRequestPipeline -------------------------
(* Instances of RequestPipeline and PlanSchedule for TLC. *)
EXTENDS RequestPipeline, PlanSchedule

CONSTANTS
  d1, d2, d3, d4, alice, bob, s1, s2, jira, trello, demo, MaxSteps

Owners == (d1 :> alice) @@ (d2 :> bob) @@ (d3 :> alice) @@ (d4 :> bob)
Levels == (d1 :> 2) @@ (d2 :> 1) @@ (d3 :> 1) @@ (d4 :> 1)
Purposes == [d \in {d1, d2, d4} |-> "research"] @@ (d3 :> "ignore")
Domains == [d \in {d1, d3} |-> "project"] @@ [d \in {d2, d4} |-> "general"]
Titles == (d1 :> "report.pdf") @@ [d \in {d2, d3, d4} |-> "notes.txt"]

\* Every message of up to two phrases that differ in their tables, and one
\* of each that only counts exceed.
Phrases == Phrase \ {"after that", "workflow", "automation", "email", "8001 characters",
                     "12001 characters", "word document", "excel", "audio"}
Messages == {{p, q} : p, q \in Phrases}
            \cup {{}, {"12001 characters"}, {"jira", "8001 characters"}, {"make a", "excel"},
                  {"make a", "word document"},
                  {"make a", "powerpoint", "bulk"}, Marked.complexity, Marked.actions}

Tools == {jira, trello, demo}
Lists == {<<>>, <<demo, jira>>, <<jira, trello>>, <<trello>>}

Symmetry == Permutations(Space)

\* Every list of n steps whose dependencies are among these, which use up to
\* two resources.
StepLists(n, among) ==
  {[i \in 1..n |-> [needs |-> {j \in 1..n : <<i, j>> \in needs}, uses |-> uses[i]]] :
     needs \in SUBSET among, uses \in [1..n -> SUBSET {jira, demo}]}

Backward(n) == {p \in (1..n) \X (1..n) : p[2] < p[1]}

\* Valid ones of MaxSteps, and any of two steps.
Steps == StepLists(MaxSteps, Backward(MaxSteps)) \cup StepLists(2, (1..2) \X (1..2))

\* What is looked at: a message on its way, or a plan that is scheduled.
VARIABLE stage

MCInit ==
  \/ stage = "message" /\ PipelineInit
     /\ steps = <<>> /\ completed = {} /\ batches = <<>>
     /\ looked = 0 /\ selected = {} /\ claimed = {}
  \/ stage = "plan" /\ ScheduleInit /\ PipelineInit

MCNext ==
  \/ stage = "message" /\ PipelineNext /\ UNCHANGED <<scheduleVars, stage>>
  \/ stage = "plan" /\ ScheduleNext /\ UNCHANGED <<pipelineVars, stage>>

MCSpec == MCInit /\ [][MCNext]_<<pipelineVars, scheduleVars, stage>>

=============================================================================
