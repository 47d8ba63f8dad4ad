---------------------------- MODULE TokenGovernor ----------------------------
(***************************************************************************)
(* The token governor, for one budget id: its state in the map of the      *)
(* process and its row in token_governors, the calls that authorize, await *)
(* a model and settle, the Host whose postflight settles after any number  *)
(* of restarts, the completion of the budget and the clean-up that any     *)
(* budget's call performs.  Time runs in ticks of less than the hour.      *)
(***************************************************************************)
EXTENDS Integers, FiniteSets

CONSTANTS
    Requests,   \* request ids charged to the budget
    Hosts,      \* those of Host turns
    Plans,      \* plans the budget is used with: [total, reserve]
    Estimates,  \* tokens a call may ask for
    Reports,    \* tokens a call may report
    Slack,      \* 2048
    Least,      \* 2500
    Ttl,        \* STATE_TTL_MS
    Retention   \* thirty days

ASSUME PlansAssumption == Plans \subseteq [total : Nat, reserve : Nat]
ASSUME TokensAssumption ==
    /\ Estimates \subseteq Nat \ {0} /\ Reports \subseteq Nat
    /\ Slack \in Nat /\ Least \in Nat \ {0}
ASSUME TimeAssumption == Ttl \in Nat \ {0} /\ Retention \in Nat
ASSUME HostsAssumption == Hosts \subseteq Requests

VARIABLES
    cached, cache, age,  \* the map has the budget; its state; since updatedAt
    status, row, left,   \* the row's status and state; until its expiresAt
    call,                \* where the executor, or the Host, is with a request
    quiet,               \* history: time since a grant or a settlement
    over,                \* history: tokens charged beyond what was reserved
    closed               \* history: parity of the number of completions

vars == <<cached, cache, age, status, row, left, call, quiet, over, closed>>

-----------------------------------------------------------------------------
Larger(a, b) == IF a < b THEN b ELSE a
Smaller(a, b) == IF a < b THEN a ELSE b

\* plausibleCap.
Cap(n) == Larger(Larger(n + Slack, 2 * n), Least)

Account == {a \in [limit : {0} \cup {p.total : p \in Plans},
                   reserve : {0} \cup {p.reserve : p \in Plans},
                   spent : Nat, held : [Requests -> {0} \cup Estimates]] : a.spent <= a.limit}

NewAccount == [limit |-> 0, reserve |-> 0, spent |-> 0, held |-> [q \in Requests |-> 0]]

TypeOK ==
    /\ cached \in BOOLEAN /\ cache \in Account /\ age \in 0..(Ttl + 1)
    /\ status \in {"none", "active", "completed"} /\ row \in Account
    /\ left \in 0..Larger(Ttl, Retention)
    /\ call \in [Requests -> {"new", "open", "over"}]
    /\ quiet \in 0..Ttl
    /\ over \in Nat
    /\ closed \in {0, 1}

\* In the map, and not for longer than the hour.
Kept == cached /\ age <= Ttl

\* getTokenGovernor finds a row that has not expired.
Durable == status = "active" /\ left > 0

Account0 == IF Kept THEN cache ELSE IF Durable THEN row ELSE NewAccount

-----------------------------------------------------------------------------
(* stateFor, persistState, cleanup *)

StateFor(p) ==
    [limit |-> Larger(Account0.limit, p.total), reserve |-> Larger(Account0.reserve, p.reserve),
     spent |-> Account0.spent, held |-> Account0.held]

Balanced(s, spent, held) ==
    [limit |-> s.limit, reserve |-> s.reserve, spent |-> spent, held |-> held]

Remember(s) == cached' = TRUE /\ cache' = s /\ age' = 0

\* Expired rows are deleted, of whatever status.
Prune ==
    IF left = 0 THEN status' = "none" /\ row' = NewAccount /\ UNCHANGED left
    ELSE UNCHANGED <<status, row, left>>

\* Only the map is brought up to date.
KeepState(s) == Remember(s) /\ Prune

PersistState(s) == Remember(s) /\ row' = s /\ status' = "active" /\ left' = Ttl

\* What stateFor leaves when nothing else is written.
Consult(p) == IF Kept THEN KeepState(StateFor(p)) ELSE PersistState(StateFor(p))

-----------------------------------------------------------------------------
(* authorizeTokenSpend *)

\* The tokens that are held, each with the request that holds it.
Tokens(h) == UNION {{q} \X (1..h[q]) : q \in Requests}

\* reservedTotal.
ReservedTotal(h) == Cardinality(Tokens(h))

Ceiling(s, mandatory) == IF mandatory THEN s.limit ELSE s.limit - s.reserve

\* Faulty: the calls under way are not counted.
FitsSpent(s, n, mandatory) == s.spent + n <= Ceiling(s, mandatory)

\* The estimate is within remainingTokens (an estimate is at least one).
Fits(s, n, mandatory) == s.spent + ReservedTotal(s.held) + n <= Ceiling(s, mandatory)

Authorize(q, p, n, mandatory) ==
    /\ call[q] = "new" /\ Fits(StateFor(p), n, mandatory)
    /\ PersistState(Balanced(StateFor(p), StateFor(p).spent, [StateFor(p).held EXCEPT ![q] = n]))
    /\ call' = [call EXCEPT ![q] = "open"]
    /\ quiet' = 0
    /\ UNCHANGED <<over, closed>>

\* The call is not made, the preflight of a Host fails.
Deny(q, p, n, mandatory) ==
    /\ call[q] = "new" /\ ~Fits(StateFor(p), n, mandatory)
    /\ Consult(p)
    /\ call' = [call EXCEPT ![q] = "over"]
    /\ UNCHANGED <<quiet, over, closed>>

-----------------------------------------------------------------------------
(* settleTokenSpend *)

\* An implausible or invalid report is replaced by the reservation.
Actual(s, q, reported, valid) ==
    IF valid /\ reported <= Cap(s.held[q]) THEN reported
    ELSE Smaller(Larger(1, s.held[q]), Larger(0, s.limit - s.spent))

\* Faulty: the limit is not applied.
SpentUnlimited(s, q, reported, valid) == s.spent + Actual(s, q, reported, valid)

\* The limit is applied to what is spent.
SpentAfter(s, q, reported, valid) == Smaller(s.limit, s.spent + Actual(s, q, reported, valid))

Charged(s, q, spent) == Balanced(s, spent, [s.held EXCEPT ![q] = 0])

\* The model answered or failed, or a postflight came for the Host's turn; the
\* postflight of a failed turn may come again.
Settle(q, p, reported, valid) ==
    LET s == StateFor(p)
        spent == SpentAfter(s, q, reported, valid)
    IN  /\ call[q] = "open"
        /\ PersistState(Charged(s, q, spent))
        /\ over' = over + Larger(0, spent - s.spent - s.held[q])
        /\ call' = [call EXCEPT ![q] = IF q \in Hosts THEN "open" ELSE "over"]
        /\ quiet' = 0
        /\ UNCHANGED closed

\* The request was not attempted: its reservation is given back.
Release(q, p) ==
    /\ call[q] = "open"
    /\ PersistState(Charged(StateFor(p), q, StateFor(p).spent))
    /\ call' = [call EXCEPT ![q] = IF q \in Hosts THEN "open" ELSE "over"]
    /\ quiet' = 0
    /\ UNCHANGED <<over, closed>>

-----------------------------------------------------------------------------
\* tokenGovernorSnapshot of a postflight.
Snapshot(p) == Consult(p) /\ UNCHANGED <<call, quiet, over, closed>>

CompleteRow ==
    /\ IF status = "none" THEN UNCHANGED <<status, row, left>>
       ELSE /\ status' = "completed" /\ left' = Retention
            /\ row' = Balanced(row, row.spent, NewAccount.held)
    /\ closed' = 1 - closed
    /\ over' = 0
    /\ UNCHANGED <<call, quiet>>

\* Faulty: the state stays in the map.
CompleteRowOnly == CompleteRow /\ UNCHANGED <<cached, cache, age>>

\* completeTokenBudget: the row keeps what was spent, and is not read again.
Complete == CompleteRow /\ cached' = FALSE /\ cache' = NewAccount /\ age' = 0

\* Another budget is consulted.
Cleanup ==
    /\ IF Kept THEN UNCHANGED <<cached, cache, age>>
       ELSE cached' = FALSE /\ cache' = NewAccount /\ age' = 0
    /\ Prune
    /\ UNCHANGED <<call, quiet, over, closed>>

Forgotten == IF Kept' \/ Durable' THEN over ELSE 0

\* The calls under way are lost with the process; a Host turn is not.
ProcessExit ==
    /\ cached' = FALSE /\ cache' = NewAccount /\ age' = 0
    /\ call' = [q \in Requests |-> IF call[q] = "open" /\ q \notin Hosts THEN "over" ELSE call[q]]
    /\ UNCHANGED <<status, row, left, quiet, closed>>
    /\ over' = Forgotten

Tick ==
    /\ age' = IF cached THEN Smaller(age + 1, Ttl + 1) ELSE age
    /\ left' = Larger(0, left - 1)
    /\ quiet' = Smaller(quiet + 1, Ttl)
    /\ UNCHANGED <<cached, cache, status, row, call, closed>>
    /\ over' = Forgotten

-----------------------------------------------------------------------------
Init ==
    /\ cached = FALSE /\ cache = NewAccount /\ age = 0
    /\ status = "none" /\ row = NewAccount /\ left = 0
    /\ call = [q \in Requests |-> "new"]
    /\ quiet = 0 /\ over = 0 /\ closed = 0

Next ==
    \/ \E q \in Requests, p \in Plans, n \in Estimates, mandatory \in BOOLEAN :
          Authorize(q, p, n, mandatory) \/ Deny(q, p, n, mandatory)
    \/ \E q \in Requests, p \in Plans, reported \in Reports, valid \in BOOLEAN :
          Settle(q, p, reported, valid)
    \/ \E q \in Requests, p \in Plans : Release(q, p)
    \/ \E p \in Plans : Snapshot(p)
    \/ Complete \/ Cleanup \/ ProcessExit \/ Tick

Spec == Init /\ [][Next]_vars

-----------------------------------------------------------------------------
(* Properties *)

\* What the map and the row say of a live budget is the same, although a
\* consultation brings only the map up to date, and a completed row never
\* stands behind a state in the map.
WriteThrough ==
    cached => /\ status # "completed"
              /\ status = "active" => cache.spent = row.spent /\ cache.held = row.held

\* Calls under way together never hold more than the spent tokens leave of the
\* limit, beyond what settled calls were charged above their reservations:
\* neither parallel calls nor a restart or an expiry between their
\* authorizations and settlements breach the budget.
NoOverdraft ==
    Account0.spent + ReservedTotal(Account0.held) <= Account0.limit + over

Ledger == INSTANCE TokenLedger
             WITH spent <- Account0.spent, held <- Account0.held, Total <- ReservedTotal

\* The governor is the account of TokenLedger: a grant counts every call under
\* way, and nothing granted or spent is lost within the hour, whatever the map,
\* the row and the process do.
Implements == Ledger!Spec
=============================================================================
