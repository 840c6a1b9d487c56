---------------------------- MODULE MCJobRuntime ----------------------------
(* Instances of JobRuntime for TLC. *)
EXTENDS JobRuntime, TLC

CONSTANTS w1, w2, j1, j2, media, report

TwoKinds == [j \in Job |-> IF j = j1 THEN media ELSE report]

TwoRegistered == <<media, report>>

\* Before anything else a job of the second family is submitted, which nobody
\* cancels: it competes for the workers as long as the run lasts.
MCNext == Next /\ status'[j2] # "absent" /\ ~cancel'[j2]

MCSpec == Init /\ [][MCNext]_vars /\ Fairness
=============================================================================
