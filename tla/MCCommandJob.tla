---------------------------- MODULE MCCommandJob ----------------------------
(* CommandJob on a small set of routing decisions, for TLC. *)
EXTENDS CommandJob

\* A mutating decision with every step and an approval, and a read-only one
\* without verification.
MCDecisions == {[taskType |-> "coding_change", verify |-> TRUE, requiresApproval |-> TRUE],
                [taskType |-> "summarization", verify |-> FALSE, requiresApproval |-> FALSE]}
=============================================================================
