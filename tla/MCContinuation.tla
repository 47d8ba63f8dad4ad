--------------------------- MODULE MCContinuation ---------------------------
(* Continuation on small sets, for TLC. *)
EXTENDS Continuation, FiniteSets, TLC

Symmetry == Permutations(Runs) \cup Permutations(Tasks) \cup Permutations(Tokens)
            \cup Permutations(Handlers)

\* Bound: one run with any number of postflights and rows, or any number of runs
\* and tasks with one postflight at a time and one row.
OneAxis ==
    \/ Cardinality({r \in Runs : run[r].phase # "none"}) <= 1
    \/ /\ Cardinality({h \in Handlers : handler[h] # Idle}) <= 1
       /\ Cardinality({i \in Rows : row[i].status # "absent"}) <= 1
=============================================================================
