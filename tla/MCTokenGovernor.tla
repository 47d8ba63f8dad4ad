---- MODULE MCTokenGovernor ----
(* One budget used with two plans, for TLC. *)
EXTENDS TokenGovernor, TLC

CONSTANTS c1, c2, h1

TwoPlans == {[total |-> 4, reserve |-> 1], [total |-> 5, reserve |-> 2]}
Symmetry == Permutations({c1, c2})
====
