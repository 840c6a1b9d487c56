--------------------------- MODULE MCConversations ---------------------------
(* Instances of Conversations for TLC. *)
EXTENDS Conversations, FiniteSets, TLC

CONSTANTS r1, r2, r3, r4,
  MaxTurns,     \* turns of a conversation that may all run at once
  MaxAtOnce,    \* runs at once in a conversation of more turns
  MaxStreamed   \* runs of a conversation whose events are streamed

\* What the clients of a conversation do: a few turns, in any overlap; more
\* turns, of which few overlap; or a turn that may be cancelled while its
\* events are streamed.
VARIABLE clients

Sent == {r \in Run : task'[r] # NoTask \/ status'[r] # "unsent"}
Running == {r \in Run : task'[r] # NoTask}
Quiet == stream' = stream /\ withdrawal' = withdrawal

Scene ==
  \/ clients = "turns" /\ Quiet /\ Cardinality(Sent) <= MaxTurns
  \/ clients = "more turns" /\ Quiet /\ Cardinality(Running) <= MaxAtOnce
  \/ clients = "streaming" /\ Cardinality(Sent) <= MaxStreamed

MCInit ==
  /\ Init
  /\ clients \in {"turns", "more turns", "streaming"}

MCNext == Next /\ Scene /\ UNCHANGED clients

MCSpec == MCInit /\ [][MCNext]_<<vars, clients>>

Symmetric == Permutations(Run)

=============================================================================
