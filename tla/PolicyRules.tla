----------------------------- MODULE PolicyRules -----------------------------
(***************************************************************************)
(* The policy compiler as an algorithm: which rules match a subject, a     *)
(* resource and an action, and the decision the matching rules give        *)
(* (authorization/application/compiler.py, domain/models.py).              *)
(*                                                                         *)
(* A context is [actor, roles, departments, teams, projects, clearance,    *)
(* version]; session assurance is part of the cache key too, but no rule   *)
(* reads it and it is left out.  Hours are UTC hours, NoHour is None.      *)
(***************************************************************************)
EXTENDS Integers, FiniteSets, Functions

NoHour == -1
NoUnit == "no_unit"

\* CLASSIFICATION_RANK.
Rank == [public |-> 0, internal |-> 1, confidential |-> 2, restricted |-> 3]
Classification == {"public", "internal", "confidential", "restricted"}

\* A PolicyRule with every optional condition left at its default.
AnyRule(id, version, effect, actions, types) ==
  [id |-> id, version |-> version, effect |-> effect, actions |-> actions,
   types |-> types, ids |-> {}, roles |-> {}, actors |-> {}, departments |-> {},
   teams |-> {}, projects |-> {}, subjectDepartments |-> {}, subjectTeams |-> {},
   subjectProjects |-> {}, geography |-> {}, ceiling |-> "restricted",
   ownerOnly |-> FALSE, from |-> NoHour, until |-> NoHour]

\* The PolicyResource the catalog builds for an agent; no candidate names a
\* unit, and all of them are internal.
AgentResource(agent) ==
  [type |-> "agent", id |-> agent, classification |-> "internal", owner |-> "nobody",
   department |-> NoUnit, team |-> NoUnit, project |-> NoUnit, geography |-> "global"]

\* A condition that is empty does not narrow the rule.
Admits(condition, values) == condition = {} \/ condition \cap values # {}

\* _matches: the fail-closed matrix.
Matches(rule, c, resource, action, hour) ==
  /\ rule.version = c.version
  /\ action \in rule.actions
  /\ resource.type \in rule.types
  /\ Admits(rule.ids, {resource.id})
  /\ Admits(rule.roles, c.roles)
  /\ Admits(rule.actors, {c.actor})
  /\ Admits(rule.departments, {resource.department} \cap c.departments)
  /\ Admits(rule.teams, {resource.team} \cap c.teams)
  /\ Admits(rule.projects, {resource.project} \cap c.projects)
  /\ Admits(rule.subjectDepartments, c.departments)
  /\ Admits(rule.subjectTeams, c.teams)
  /\ Admits(rule.subjectProjects, c.projects)
  /\ Admits(rule.geography, {resource.geography})
  /\ rule.ownerOnly => resource.owner = c.actor
  /\ {resource.classification, rule.ceiling, c.clearance} \subseteq Classification
  /\ Rank[resource.classification] <= Rank[rule.ceiling]
  /\ Rank[resource.classification] <= Rank[c.clearance]
  /\ rule.from # NoHour /\ rule.until # NoHour => rule.from <= hour /\ hour < rule.until

TimeConditioned(rules) == \E r \in rules : r.from # NoHour \/ r.until # NoHour

Denied(reason, rules) == [allowed |-> FALSE, reason |-> reason, rules |-> rules]
Allowed(rules) == [allowed |-> TRUE, reason |-> "allowed", rules |-> rules]

\* The first matching allow ends the search.
Evaluate_AllowFirst(rules, c, resource, action, hour) ==
  LET matching(effect) == {r.id : r \in {x \in rules :
        x.effect = effect /\ Matches(x, c, resource, action, hour)}}
  IN IF matching("allow") # {} THEN Allowed(matching("allow"))
     ELSE IF matching("deny") # {} THEN Denied("explicit_deny", matching("deny"))
     ELSE Denied("default_deny", {})
\* decide without its cache: a matching deny wins, and without a matching
\* allow the answer is no.
Evaluate(rules, c, resource, action, hour) ==
  LET matching(effect) == {r.id : r \in {x \in rules :
        x.effect = effect /\ Matches(x, c, resource, action, hour)}}
  IN IF matching("deny") # {} THEN Denied("explicit_deny", matching("deny"))
     ELSE IF matching("allow") # {} THEN Allowed(matching("allow"))
     ELSE Denied("default_deny", {})

=============================================================================
