----------------------------- MODULE AgentAccess -----------------------------
(***************************************************************************)
(* Who may see and use which agent: the catalog of an organization         *)
(* (agents/catalog), the policy compiler over its assignments and the      *)
(* stored rules (authorization/application/compiler.py), the process-wide  *)
(* cache of allow decisions (authorization/infrastructure/adapters.py),    *)
(* and the access preview that runs hypothetical subjects through the same *)
(* compiler (authorization/application/preview.py).                        *)
(*                                                                         *)
(* A request resolves its context first; every await after that lets       *)
(* administrators, other requests and the clock in.  Other identity        *)
(* transactions appear as SubjectChanges.                                  *)
(*                                                                         *)
(* X_Y is X with one plausible bug; no specification uses it.              *)
(***************************************************************************)
EXTENDS PolicyRules, Sequences, SequencesExt

CONSTANTS
  User,
  Subject,        \* [roles, departments, teams, projects, clearance] a member has
  Scenario,       \* hypothetical changes an administrator previews
  Agent,          \* agent_definitions
  Operational,    \* OPERATIONAL_AGENT_CODES
  Assignment,     \* rows of agent_assignments
  Command,        \* [agent, kind, target, effect, actions, ceiling] to assign
  Target,         \* <<kind, target>> that exist in the organization
  StoredRule,     \* rows of authorization_policy_rules, of version 0
  PolicyAction,   \* actions compiled
  Request,        \* requests that may be in flight together
  MaxEntries,     \* maximum_entries of the cache
  Hour,           \* the UTC hour in which all of this happens
  MaxChanges      \* bound on the changes of administrators

ASSUME ActionsAssumption == {"visible", "use"} \subseteq PolicyAction
ASSUME BoundsAssumption ==
  /\ MaxEntries \in Nat \ {0}
  /\ MaxChanges \in Nat
\* The codes of the classifier name agents of the packs; both lists and the
\* actions are finite.
ASSUME CodesAssumption ==
  Operational \subseteq Agent /\ IsFiniteSet(Agent) /\ IsFiniteSet(PolicyAction)
\* What the schemas admit of a command and of a scenario.
ASSUME CommandAssumption ==
  \A cmd \in Command :
    /\ cmd.kind \in {"role", "user", "department", "team", "project", "organization"}
    /\ cmd.ceiling \in Classification
ASSUME ScenarioAssumption ==
  \A s \in Scenario : s.kind \in {"role", "department", "team", "project"}
ASSUME StoredAssumption == \A rule \in StoredRule : rule.version = 0

VARIABLES
  subject,      \* what resolve finds for a user; Gone when it finds nobody
  version,      \* organizations.policy_version; every bump is a fresh one
  agent,        \* organization_agents: [installed, enabled]
  chain,        \* agents with an approval chain
  assignment,   \* agent_assignments with their grants
  cache,        \* BoundedDecisionCache: entries in order of insertion
  req,          \* the requests in flight
  world         \* history: the active assignments after every change

catalogVars == <<version, agent, chain, assignment, world>>
vars == <<catalogVars, subject, cache, req>>

Gone == [roles |-> {"gone"}, departments |-> {}, teams |-> {}, projects |-> {},
         clearance |-> "public"]
Idle == [step |-> "idle"]
NoRow == [active |-> FALSE, cmd |-> {}]
NotInstalled == [installed |-> FALSE, enabled |-> FALSE]

\* The assignments that are active, with their grants.
Live(rows) == UNION {{<<i, cmd>> : cmd \in rows[i].cmd} : i \in {j \in Assignment : rows[j].active}}

\* What the bootstrap of the local organization assigns.
BootCommand(a) ==
  [agent |-> a, kind |-> "role", target |-> "owner", effect |-> "allow",
   actions |-> {"visible", "use", "read", "draft", "execute", "administer"},
   ceiling |-> "restricted"]

TypeOK ==
  /\ subject \in [User -> Subject \cup {Gone}]
  /\ version \in 0..MaxChanges
  /\ agent \in [Agent -> [installed : BOOLEAN, enabled : BOOLEAN]]
  /\ chain \subseteq Agent
  /\ \A i \in Assignment :
       assignment[i].cmd \subseteq Command \cup {BootCommand(a) : a \in Agent}
  /\ Len(cache) <= MaxEntries

\* An organization without agents, or the local one after its first start.
Init ==
  /\ subject \in [User -> Subject]
  /\ version = 0
  /\ chain = {}
  /\ \/ /\ agent = [a \in Agent |-> NotInstalled]
        /\ assignment = [i \in Assignment |-> NoRow]
     \/ /\ agent = [a \in Agent |-> [installed |-> TRUE, enabled |-> TRUE]]
        /\ \E row \in Injection(Agent, Assignment) :
             assignment = [i \in Assignment |->
               [active |-> i \in Range(row),
                cmd |-> {BootCommand(a) : a \in {x \in Agent : row[x] = i}}]]
  /\ world = <<Live(assignment)>>
  /\ cache = <<>>
  /\ req = [q \in Request |-> Idle]

-----------------------------------------------------------------------------
(* Rules.                                                                  *)

\* _map_assignment: one rule per grant, narrowed by the target's field.
AssignmentRule(i, cmd, action, ver) ==
  LET base == [AnyRule(<<i, action>>, ver, cmd.effect, {action}, {"agent"})
                 EXCEPT !.ids = {cmd.agent}, !.ceiling = cmd.ceiling]
  IN CASE cmd.kind = "role"       -> [base EXCEPT !.roles = {cmd.target}]
       [] cmd.kind = "user"       -> [base EXCEPT !.actors = {cmd.target}]
       [] cmd.kind = "department" -> [base EXCEPT !.subjectDepartments = {cmd.target}]
       [] cmd.kind = "team"       -> [base EXCEPT !.subjectTeams = {cmd.target}]
       [] cmd.kind = "project"    -> [base EXCEPT !.subjectProjects = {cmd.target}]
       [] cmd.kind = "organization" -> base

\* list_rules: stored rules of exactly this version, every active assignment.
Rules(live, ver) ==
  {r \in StoredRule : r.version = ver} \cup
  UNION {{AssignmentRule(p[1], p[2], action, ver) : action \in p[2].actions} : p \in live}

-----------------------------------------------------------------------------
(* Decisions.                                                              *)

\* The policy version is not part of the key.
Key_AnyVersion(c, code, action) == <<[c EXCEPT !.version = 0], code, action>>
\* _cache_key: everything of the subject, the resource and the action.
Key(c, code, action) == <<c, code, action>>

\* get: the entry of the key, unless its time is over; then it is dropped.
Cached(entries, key) == {e.decision : e \in {x \in Range(entries) : x.key = key /\ ~x.expired}}
Purged(entries, key) ==
  LET over == {n \in DOMAIN entries : entries[n].key = key /\ entries[n].expired}
  IN IF over = {} THEN entries ELSE RemoveAt(entries, CHOOSE n \in over : TRUE)

\* put: allows only, and the oldest entry makes room.
Put(entries, key, decision) ==
  IF ~decision.allowed THEN entries
  ELSE Append(IF Len(entries) >= MaxEntries THEN Tail(entries) ELSE entries,
              [key |-> key, decision |-> decision, expired |-> FALSE])

\* decide, after list_rules has answered: the cache is asked and filled only
\* when no rule depends on the hour.
Decide(entries, rules, c, code, action) ==
  LET key == Key(c, code, action)
      answer == Evaluate(rules, c, AgentResource(code), action, Hour)
      hit == IF TimeConditioned(rules) THEN {} ELSE Cached(entries, key)
      rest == IF TimeConditioned(rules) THEN entries ELSE Purged(entries, key)
  IN IF hit # {} THEN [cache |-> entries, decision |-> CHOOSE d \in hit : TRUE]
     ELSE [cache |-> IF TimeConditioned(rules) THEN entries ELSE Put(rest, key, answer),
           decision |-> answer]

\* decide_many: the questions in turn, with one reading of the rules.
DecideMany(entries, rules, c, questions) ==
  LET asked == SetToSeq(questions)
      after[n \in 0..Len(asked)] ==
        IF n = 0 THEN [cache |-> entries, answers |-> {}]
        ELSE LET before == after[n - 1]
                 one == Decide(before.cache, rules, c, asked[n][1], asked[n][2])
             IN [cache |-> one.cache,
                 answers |-> before.answers \cup
                   {[context |-> c, code |-> asked[n][1], action |-> asked[n][2],
                     decision |-> one.decision]}]
  IN after[Len(asked)]

-----------------------------------------------------------------------------
(* Requests of members.                                                    *)

\* resolve, resolve_delegated: the context as of now.
ContextOf(u) ==
  [actor |-> u, roles |-> subject[u].roles, departments |-> subject[u].departments,
   teams |-> subject[u].teams, projects |-> subject[u].projects,
   clearance |-> subject[u].clearance, version |-> version]

Present(u) == subject[u] # Gone

Begin(q, direct, c, then, codes, action) ==
  /\ req[q] = Idle
  /\ req' = [req EXCEPT ![q] =
       [step |-> "resolved", direct |-> direct, context |-> c, then |-> then, codes |-> codes,
        action |-> action, since |-> Len(world), rules |-> {}, answers |-> {}]]
  /\ UNCHANGED <<catalogVars, subject, cache>>

\* GET /agents/{code}: authorize_invocation.
get_effective_agent(q, u) == \E code \in Operational :
  Present(u) /\ Begin(q, TRUE, ContextOf(u), {}, {code}, {"use"})

\* GET /agents: effective_cards; the response keeps the operational ones.
list_effective_agents(q, u) ==
  Present(u) /\ Begin(q, FALSE, ContextOf(u), {}, Agent, PolicyAction \ {"visible"})

\* list_candidates, get_candidate: the enabled ones.
Candidates(q) ==
  /\ req[q].step = "resolved"
  /\ LET found == {a \in req[q].codes : agent[a].enabled}
     IN req' = [req EXCEPT ![q] =
          IF found = {} THEN [@ EXCEPT !.step = "answered"]
          ELSE [@ EXCEPT !.step = "visible", !.codes = found]]
  /\ UNCHANGED <<catalogVars, subject, cache>>

ReadRules(q) ==
  /\ req[q].step \in {"visible", "actions"}
  /\ req' = [req EXCEPT ![q].step = IF @ = "visible" THEN "judge_visible" ELSE "judge_actions",
                        ![q].rules = Rules(Live(assignment), req[q].context.version),
                        ![q].answers = {}]
  /\ UNCHANGED <<catalogVars, subject, cache>>

\* effective_cards asks on for what is visible, authorize_invocation for what
\* it was called for; a card is made of both answers.
StillAsked(q, answers) ==
  IF req[q].direct THEN req[q].codes
  ELSE {x.code : x \in {y \in answers : y.decision.allowed}}

Judge(q) ==
  /\ req[q].step \in {"judge_visible", "judge_actions"}
  /\ LET first == req[q].step = "judge_visible"
         asked == req[q].codes \X (IF first THEN {"visible"} ELSE req[q].action)
         result == DecideMany(cache, req[q].rules, req[q].context, asked)
     IN /\ cache' = result.cache
        /\ req' = [req EXCEPT ![q] =
             [@ EXCEPT !.step = IF first THEN "actions" ELSE "answered",
                       !.codes = IF first THEN StillAsked(q, result.answers) ELSE req[q].codes,
                       !.answers = result.answers, !.rules = {}]]
  /\ UNCHANGED <<catalogVars, subject>>

\* The cards go out; a preview starts over with its hypothetical subject.
Answer(q) ==
  /\ req[q].step = "answered"
  /\ req' = [req EXCEPT ![q] =
       IF req[q].then = {} THEN Idle
       ELSE LET c == CHOOSE x \in req[q].then : TRUE
            IN [@ EXCEPT !.step = "resolved", !.context = c, !.then = {},
                         !.codes = Agent, !.answers = {}]]
  /\ UNCHANGED <<catalogVars, subject, cache>>

-----------------------------------------------------------------------------
(* Access preview.                                                         *)

\* Symmetric difference with one member; a scenario must change something.
Changes(set, x, operation) == (operation = "add") # (x \in set)
Toggle(set, x) == IF x \in set THEN set \ {x} ELSE set \cup {x}

\* _validate_scenario and _apply_scenario: one role or one membership.
Applies(c, s) ==
  CASE s.kind = "role"       -> Changes(c.roles, s.id, s.operation)
    [] s.kind = "department" -> Changes(c.departments, s.id, s.operation)
    [] s.kind = "team"       -> /\ s.operation = "add" => s.department \in c.departments
                                /\ Changes(c.teams, s.id, s.operation)
    [] s.kind = "project"    -> /\ s.operation = "add" => s.department \in c.departments
                                /\ Changes(c.projects, s.id, s.operation)

\* _simulate_membership: leaving a department leaves what is below it.
Simulated(c, s) ==
  CASE s.kind = "role" -> [c EXCEPT !.roles = Toggle(@, s.id)]
    [] s.kind = "department" ->
         [c EXCEPT !.departments = Toggle(@, s.id),
                   !.teams = IF s.operation = "remove" THEN @ \ s.below ELSE @,
                   !.projects = IF s.operation = "remove" THEN @ \ s.below ELSE @]
    [] s.kind = "team"    -> [c EXCEPT !.teams = Toggle(@, s.id)]
    [] s.kind = "project" -> [c EXCEPT !.projects = Toggle(@, s.id)]

IsAdmin(u) == subject[u].roles \cap {"owner", "organization_admin"} # {}

preview_company_member_access(q, u) == \E target \in User, s \in Scenario :
  /\ IsAdmin(u)
  /\ Present(target)
  /\ Applies(ContextOf(target), s)
  /\ Begin(q, FALSE, ContextOf(target), {Simulated(ContextOf(target), s)}, Agent,
           PolicyAction \ {"visible"})

-----------------------------------------------------------------------------
(* Catalog administration: each is one transaction.                        *)

\* _bump_policy: in the same transaction as the change.
Bump == version' = version + 1

Changed(rows) ==
  /\ Len(world) <= MaxChanges
  /\ assignment' = rows
  /\ world' = Append(world, Live(rows))
  /\ UNCHANGED <<subject, cache, req>>

AnyAdmin == \E u \in User : IsAdmin(u)

\* A version, new or other, is installed disabled.
Install(a) ==
  /\ AnyAdmin
  /\ agent' = [agent EXCEPT ![a] = [installed |-> TRUE, enabled |-> FALSE]]
  /\ Bump
  /\ Changed(assignment)
  /\ UNCHANGED chain

SetEnabled(a, enabled) ==
  /\ AnyAdmin
  /\ agent[a].installed
  /\ agent' = [agent EXCEPT ![a].enabled = enabled]
  /\ Bump
  /\ Changed(assignment)
  /\ UNCHANGED chain

Assign(i, cmd) ==
  /\ AnyAdmin
  /\ assignment[i] = NoRow
  /\ agent[cmd.agent].installed /\ <<cmd.kind, cmd.target>> \in Target
  /\ Bump
  /\ Changed([assignment EXCEPT ![i] = [active |-> TRUE, cmd |-> {cmd}]])
  /\ UNCHANGED <<agent, chain>>

RevokeAssignment(i) ==
  /\ AnyAdmin
  /\ assignment[i].active
  /\ Bump
  /\ Changed([assignment EXCEPT ![i].active = FALSE])
  /\ UNCHANGED <<agent, chain>>

SetApprovalChain(a) ==
  /\ AnyAdmin
  /\ agent[a].installed
  /\ chain' = chain \cup {a}
  /\ Bump
  /\ Changed(assignment)
  /\ UNCHANGED agent

-----------------------------------------------------------------------------
(* Around the requests.                                                    *)

\* Role, membership and status changes of identity transactions; none of
\* them touches policy_version.
SubjectChanges(u, to) ==
  /\ subject[u] # to
  /\ subject' = [subject EXCEPT ![u] = to]
  /\ UNCHANGED <<catalogVars, cache, req>>

\* The time of the oldest entry is over.
Expire ==
  /\ \E n \in DOMAIN cache :
       /\ ~cache[n].expired
       /\ \A m \in 1..(n - 1) : cache[m].expired
       /\ cache' = [cache EXCEPT ![n].expired = TRUE]
  /\ UNCHANGED <<catalogVars, subject, req>>

\* The API process starts again: its cache is empty, its requests are gone.
\* Where the local organization is enabled, every agent of the packs is
\* installed and the owner role is assigned to it, unless that is so already;
\* policy_version stays.
OwnerAssigned(a) == \E p \in Live(assignment) :
  p[2].agent = a /\ p[2].kind = "role" /\ p[2].target = "owner"

Bootstrap(a) ==
  /\ agent' = [agent EXCEPT ![a] =
       IF @.installed THEN @ ELSE [installed |-> TRUE, enabled |-> TRUE]]
  /\ IF OwnerAssigned(a) THEN UNCHANGED <<assignment, world>>
     ELSE /\ \E i \in Assignment :
               /\ assignment[i] = NoRow
               /\ assignment' = [assignment EXCEPT ![i] =
                    [active |-> TRUE, cmd |-> {BootCommand(a)}]]
          /\ world' = Append(world, Live(assignment'))
  /\ cache' = <<>>
  /\ req' = [q \in Request |-> Idle]
  /\ UNCHANGED <<version, chain, subject>>

Next ==
  \/ \E q \in Request :
       \/ \E u \in User :
            \/ get_effective_agent(q, u)
            \/ list_effective_agents(q, u)
            \/ preview_company_member_access(q, u)
       \/ Candidates(q)
       \/ ReadRules(q)
       \/ Judge(q)
       \/ Answer(q)
  \/ \E a \in Agent :
       \/ Install(a)
       \/ \E enabled \in BOOLEAN : SetEnabled(a, enabled)
       \/ SetApprovalChain(a)
       \/ Bootstrap(a)
  \/ \E i \in Assignment :
       \/ \E cmd \in Command : Assign(i, cmd)
       \/ RevokeAssignment(i)
  \/ \E u \in User, to \in Subject \cup {Gone} : SubjectChanges(u, to)
  \/ Expire

Spec == Init /\ [][Next]_vars

-----------------------------------------------------------------------------
(* Properties.                                                             *)

\* Every decision given to a request is one the compiler could have reached
\* without its cache from the assignments of some moment since the request
\* resolved its context: nothing revoked before that is ever allowed again
\* from the cache, and no previewed subject lends its allow to a real one.
DecisionsAreCurrent ==
  \A q \in Request : req[q] # Idle =>
    \A d \in req[q].answers :
      \E w \in req[q].since..Len(world) :
        d.decision = Evaluate(Rules(world[w], d.context.version), d.context,
                              AgentResource(d.code), d.action, Hour)

\* Said of the assignments alone: whoever is allowed an action on an agent
\* has had an assignment allowing it, and has not all the time had one
\* denying it, since the context was resolved.
Reaches(cmd, c) ==
  CASE cmd.kind = "role"         -> cmd.target \in c.roles
    [] cmd.kind = "user"         -> cmd.target = c.actor
    [] cmd.kind = "department"   -> cmd.target \in c.departments
    [] cmd.kind = "team"         -> cmd.target \in c.teams
    [] cmd.kind = "project"      -> cmd.target \in c.projects
    [] cmd.kind = "organization" -> TRUE

Speaks(live, effect, d) == \E p \in live :
  /\ p[2].effect = effect /\ p[2].agent = d.code /\ d.action \in p[2].actions
  /\ Reaches(p[2], d.context) /\ p[2].ceiling # "public"

DenyPrevails ==
  \A q \in Request : req[q] # Idle =>
    \A d \in req[q].answers :
      d.decision.allowed =>
        \E w \in req[q].since..Len(world) :
          /\ ~Speaks(world[w], "deny", d)
          /\ StoredRule = {} \/ d.context.version > 0 => Speaks(world[w], "allow", d)

=============================================================================
