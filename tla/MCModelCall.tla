----------------------------- MODULE MCModelCall -----------------------------
(* Calls of one role on one budget, for TLC. *)
EXTENDS ModelCall, TLC

CONSTANTS c1, c2, o1

OnePlan == {[total |-> 2, reserve |-> 1]}
SamePlan == [q \in Requests |-> [total |-> 2, reserve |-> 1]]
TwoAttempts == (c1 :> 2 @@ c2 :> 1 @@ o1 :> 1)
=============================================================================
