---- MODULE MCCodingTask ----
(* Model values for CodingTask. *)
EXTENDS CodingTask, TLC

CONSTANTS f1, f2, r1, r2

Symmetric == Permutations({f1, f2}) \cup Permutations({r1, r2})
====
