----------------------------- MODULE TokenLedger -----------------------------
(***************************************************************************)
(* What the token governor promises of one budget: an account of spent     *)
(* tokens and of the tokens held for calls under way, which outlives the   *)
(* process and is forgotten only when it is closed or after an hour in     *)
(* which no call was granted or settled.                                   *)
(***************************************************************************)
EXTENDS Integers

CONSTANTS
    Requests,   \* model calls and Host turns charged to the budget
    Plans,      \* budget plans of its turns: [total, reserve]
    Estimates,  \* tokens a call may ask for
    Ttl,        \* the hour
    Cap(_),     \* the most a call that held n tokens can be charged
    Total(_)    \* sum of the tokens held

VARIABLES
    spent,  \* tokens charged
    held,   \* tokens held for each call
    quiet,  \* time since a call was granted or settled, up to Ttl
    closed  \* parity of the number of times the budget was closed

ledger == <<spent, held, quiet, closed>>

None == [q \in Requests |-> 0]

\* A call that is not mandatory leaves the reserve of the final answer alone.
Allowances(mandatory) ==
    IF mandatory THEN {p.total : p \in Plans}
    ELSE {p.total - r.reserve : p \in Plans, r \in Plans}

-----------------------------------------------------------------------------
\* n tokens are held for q, all held and spent tokens counted.
Grant(q, n, mandatory) ==
    /\ \E a \in Allowances(mandatory) : spent + Total(held) + n <= a
    /\ held' = [held EXCEPT ![q] = n]
    /\ quiet' = 0
    /\ UNCHANGED <<spent, closed>>

\* q gives up what it holds and is charged in its place.
Settle(q) ==
    /\ spent <= spent' /\ spent' <= spent + Cap(held[q])
    /\ \E p \in Plans : spent' <= p.total
    /\ held' = [held EXCEPT ![q] = 0]
    /\ quiet' = 0
    /\ UNCHANGED closed

Reset == spent' = 0 /\ held' = None

Close == Reset /\ closed' = 1 - closed /\ UNCHANGED quiet

Forget == quiet = Ttl /\ Reset /\ UNCHANGED <<quiet, closed>>

Pass ==
    /\ quiet < Ttl /\ quiet' = quiet + 1
    /\ \/ UNCHANGED <<spent, held>>
       \/ quiet' = Ttl /\ Reset
    /\ UNCHANGED closed

Init == spent = 0 /\ held = None /\ quiet = 0 /\ closed = 0

Next ==
    \/ \E q \in Requests, n \in Estimates, mandatory \in BOOLEAN : Grant(q, n, mandatory)
    \/ \E q \in Requests : Settle(q)
    \/ Close \/ Forget \/ Pass

Spec == Init /\ [][Next]_ledger
=============================================================================
