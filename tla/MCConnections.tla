---------------------------- MODULE MCConnections ----------------------------
(* Instances of Connections for TLC. *)
EXTENDS Connections, TLC

CONSTANTS mgr, mem, c1, q1, q2, rd, wr

Subjects == {mem}
Matching == [a \in Actor |-> {a, "org"} \cap Subjects]
Symmetric == Permutations(Call)

=============================================================================
