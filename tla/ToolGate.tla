------------------------------ MODULE ToolGate ------------------------------
(***************************************************************************)
(* What approvals promise to users, without graph, tasks or requests: a    *)
(* tool call is planned, one that changes something is asked for, decided  *)
(* once, and made only if approved, once for each time a decision has the  *)
(* run resumed; a read needs nobody and is made at most once.              *)
(***************************************************************************)
EXTENDS Naturals

CONSTANT Call

VARIABLES risk, approval, resumptions, executed

gate == <<risk, approval, resumptions, executed>>

Init ==
  /\ risk = [c \in Call |-> "none"]
  /\ approval = [c \in Call |-> "none"]
  /\ resumptions = [c \in Call |-> 0]
  /\ executed = [c \in Call |-> 0]

Plan(c) ==
  /\ risk[c] = "none"
  /\ \E k \in {"read_only", "mutating"} : risk' = [risk EXCEPT ![c] = k]
  /\ UNCHANGED <<approval, resumptions, executed>>

Ask(c) ==
  /\ risk[c] = "mutating" /\ approval[c] = "none"
  /\ approval' = [approval EXCEPT ![c] = "pending"]
  /\ UNCHANGED <<risk, resumptions, executed>>

Decide(c) ==
  /\ approval[c] = "pending"
  /\ \E a \in {"approved", "rejected"} :
       approval' = [approval EXCEPT ![c] = a]
  /\ UNCHANGED <<risk, resumptions, executed>>

Resume(c) ==
  /\ approval[c] \in {"approved", "rejected"}
  /\ resumptions' = [resumptions EXCEPT ![c] = @ + 1]
  /\ UNCHANGED <<risk, approval, executed>>

Execute(c) ==
  /\ \/ risk[c] = "read_only" /\ executed[c] = 0
     \/ approval[c] = "approved" /\ executed[c] < resumptions[c]
  /\ executed' = [executed EXCEPT ![c] = @ + 1]
  /\ UNCHANGED <<risk, approval, resumptions>>

Next ==
  \E c \in Call : Plan(c) \/ Ask(c) \/ Decide(c) \/ Resume(c) \/ Execute(c)

Spec == Init /\ [][Next]_gate

=============================================================================
