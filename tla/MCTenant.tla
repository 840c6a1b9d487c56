------------------------------ MODULE MCTenant ------------------------------
(* Instances of TenantSessions, and so of TenantOwnership, for TLC. *)
EXTENDS TenantSessions, TLC

CONSTANTS o, a, b, so, sa, sb, q1, q2, l1, l2, i1, t1, t2, dep, team, proj

Everyone == {o, a, b}
Sessions == {so, sa, sb}
Subjects == (so :> o) @@ (sa :> a) @@ (sb :> b)
Assurances == (so :> "mfa") @@ (sa :> "mfa") @@ (sb :> "standard")
Children == (team :> dep) @@ (proj :> dep)
Admins == {"organization_admin"}
Symmetry == Permutations(Request) \cup Permutations(Lifecycle) \cup Permutations(Attempt)

\* What the people of the organization do: its owners rule a founded
\* organization, or one that is yet to be provisioned is joined.
VARIABLE people

MCInit ==
  \/ people = "rule" /\ Init /\ LoginsInit
  \/ people = "join" /\ SessionsInit

MCNext ==
  \/ people = "rule" /\ Next /\ UNCHANGED <<loginVars, people>>
  \/ people = "join" /\ SessionsNext /\ UNCHANGED people

MCSpec == MCInit /\ [][MCNext]_<<sessionsVars, people>>

=============================================================================
