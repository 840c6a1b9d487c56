---------------------------- MODULE MCAgentAccess ----------------------------
(* Instances of AgentAccess for TLC. *)
EXTENDS AgentAccess

CONSTANTS own, ag, i1, i2, q1, q2

Owner == [roles |-> {"owner", "organization_admin"}, departments |-> {}, teams |-> {},
          projects |-> {}, clearance |-> "restricted"]
Admin == [Owner EXCEPT !.roles = {"organization_admin"}]
Subjects == {Owner}

Ban == [agent |-> ag, kind |-> "user", target |-> own, effect |-> "deny",
        actions |-> {"use"}, ceiling |-> "internal"]
Commands == {Ban}
Targets == {<<"user", own>>}

Promotion == [kind |-> "role", id |-> "owner", operation |-> "remove"]
Scenarios == {Promotion}

\* Office hours for the agent, stored as a rule of the first version.
OfficeHours ==
  {[AnyRule(<<"office hours", "">>, 0, "allow", {"visible", "use"}, {"agent"})
      EXCEPT !.roles = {"organization_admin"}, !.from = 0, !.until = 1]}

Symmetry == Permutations(Request) \cup Permutations(Assignment)

=============================================================================
