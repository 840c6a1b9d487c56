---------------------------- MODULE MCAgentRuns ----------------------------
(***************************************************************************)
(* Instances of AgentRuns for TLC.  The first state picks a scene, which   *)
(* bounds what happens around the runs:                                    *)
(*   pair    two runs share the supervisor, their decisions come one at a  *)
(*           time, nobody cancels and nothing fails                        *)
(*   rough   one run, two requests that decide its approval, a user who    *)
(*           cancels it, and faults                                        *)
(***************************************************************************)
EXTENDS AgentRuns

CONSTANTS r1, r2, d1, d2

VARIABLE scene

OneRun == {r1}
TwoRuns == {r1, r2}
TwoDeciders == {d1, d2}

MCInit == Init /\ scene \in {"pair", "rough"}

MCNext ==
  /\ Next
  /\ UNCHANGED scene
  /\ scene = "pair" => decision'[d2] = Idle /\ UNCHANGED <<withdrawal, faults>>
  /\ scene = "rough" => status'[r2] = "unsent"

MCSpec == MCInit /\ [][MCNext]_<<vars, scene>> /\ Fairness

=============================================================================
