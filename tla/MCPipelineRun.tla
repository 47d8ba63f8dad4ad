--------------------------- MODULE MCPipelineRun ---------------------------
(* PipelineRun on small sets, for TLC. *)
EXTENDS PipelineRun, TLC

CONSTANTS q1, q2, k1, s1, w1

Route(prepares, coding, worker, verifier, mandatory, boss, escalates, revisions) ==
    [prepares |-> prepares, coding |-> coding, worker |-> worker, verifier |-> verifier,
     mandatory |-> mandatory, boss |-> boss, escalates |-> escalates, revisions |-> revisions]

(* A route with a worker pass, a coding task, a mandatory verification that escalates, and a  *)
(* critical request with both reviewers.                                         *)
Direct == Route(FALSE, FALSE, TRUE, FALSE, FALSE, FALSE, FALSE, 0)
Coding == Route(TRUE, TRUE, TRUE, FALSE, FALSE, FALSE, FALSE, 0)
Checked == Route(FALSE, FALSE, FALSE, TRUE, FALSE, FALSE, FALSE, 1)
Critical == Route(FALSE, FALSE, FALSE, TRUE, TRUE, TRUE, TRUE, 0)

Arrival(key, body, sid, persist, dry, route) ==
    [key |-> key, body |-> body, sid |-> sid, persist |-> persist, dry |-> dry, route |-> route]

(* With a key, with another body under it, in a session that need not exist, and *)
(* a dry run.                                                                    *)
SomeArrivals ==
    {Arrival(k1, "a", s1, TRUE, FALSE, Critical), Arrival(k1, "b", NoSession, FALSE, FALSE, Direct),
     Arrival(NoKey, "c", s1, FALSE, FALSE, Coding), Arrival(NoKey, "d", s1, TRUE, FALSE, Checked),
     Arrival(k1, "e", s1, FALSE, TRUE, Direct)}

=============================================================================
