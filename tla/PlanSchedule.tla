---------------------------- MODULE PlanSchedule ----------------------------
(***************************************************************************)
(* DependencyScheduler.batches (agents/application/planning.py): the steps *)
(* of a plan, arranged in waves of steps that may run side by side.        *)
(*                                                                         *)
(* A step is [needs, uses]: the positions of the steps it depends on, and  *)
(* the tools and connections of its data scope.  A plan may have any steps *)
(* that ExecutionPlan accepts.                                             *)
(*                                                                         *)
(* An operator whose name has the form X_Y is X with one plausible bug.    *)
(***************************************************************************)
EXTENDS Integers, Sequences, FiniteSets, Functions

CONSTANT StepList   \* lists of steps somebody may make a plan of

ASSUME StepsAssumption == \A list \in StepList : list \in Seq(Range(list))

VARIABLES
  steps,      \* of the plan
  completed,  \* steps of earlier waves
  batches,    \* the waves, in order
  looked,     \* how many steps the loop over the ready ones is past
  selected,   \* steps of the wave in the making
  claimed     \* tools and connections of these

wave == <<looked, selected, claimed>>
scheduleVars == <<steps, completed, batches, wave>>

\* ExecutionPlan.validate_dependencies.
ValidSteps(list) == \A i \in DOMAIN list : list[i].needs \subseteq 1..(i - 1)

ScheduleInit ==
  /\ steps \in {list \in StepList : ValidSteps(list)}
  /\ completed = {} /\ batches = <<>>
  /\ looked = 0 /\ selected = {} /\ claimed = {}

Remaining == DOMAIN steps \ completed
Ready == {i \in Remaining : steps[i].needs \subseteq completed}
Fits(i) == i \in Ready /\ steps[i].uses \cap claimed = {}

\* The loop over the ready steps: one that fits is selected, others pass.
Claim_Forgets(i) ==
  /\ i = looked + 1 /\ Fits(i)
  /\ looked' = i
  /\ selected' = selected \cup {i}
  /\ claimed' = steps[i].uses
  /\ UNCHANGED <<steps, completed, batches>>
Claim(i) ==
  /\ i = looked + 1 /\ Fits(i)
  /\ looked' = i
  /\ selected' = selected \cup {i}
  /\ claimed' = claimed \cup steps[i].uses
  /\ UNCHANGED <<steps, completed, batches>>

Pass(i) ==
  /\ i = looked + 1 /\ Remaining # {} /\ ~Fits(i)
  /\ looked' = i
  /\ UNCHANGED <<steps, completed, batches, selected, claimed>>

\* The wave is complete; without a ready step the plan is given up.  If none
\* was selected the first ready one is.
FirstReady == CHOOSE i \in Ready : \A j \in Ready : i <= j
Close ==
  /\ looked = Len(steps) /\ Ready # {}
  /\ LET batch == IF selected = {} THEN {FirstReady} ELSE selected
     IN /\ batches' = Append(batches, batch)
        /\ completed' = completed \cup batch
  /\ looked' = 0 /\ selected' = {} /\ claimed' = {}
  /\ UNCHANGED steps

ScheduleNext == (\E i \in DOMAIN steps : Claim(i) \/ Pass(i)) \/ Close

ScheduleSpec == ScheduleInit /\ [][ScheduleNext]_scheduleVars

-----------------------------------------------------------------------------
(* Properties.                                                             *)

Shares(i, j) == steps[i].uses \cap steps[j].uses # {}

\* No step is in two waves; each comes after all that it needs and beside
\* none that shares a resource with it, and waits for a wave only because of
\* a step in that wave.
WavesAreSafe ==
  /\ completed = UNION {batches[k] : k \in DOMAIN batches}
  /\ \A k, l \in DOMAIN batches : k # l => batches[k] \cap batches[l] = {}
  /\ \A k \in DOMAIN batches : \A i \in batches[k] :
       /\ \A j \in steps[i].needs : \E l \in 1..(k - 1) : j \in batches[l]
       /\ \A j \in batches[k] \ {i} : ~Shares(i, j)
       /\ k > 1 => \E j \in batches[k - 1] : j \in steps[i].needs \/ Shares(i, j)

\* A plan that was accepted is never given up half way: while steps remain
\* some are ready, and of the ready ones the loop has selected some.
PlanAdvances ==
  Remaining # {} => Ready # {} /\ (looked = Len(steps) => selected # {})

=============================================================================
