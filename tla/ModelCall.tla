------------------------------ MODULE ModelCall ------------------------------
(***************************************************************************)
(* callRuntimeModel over the token governor: concurrent calls of one role  *)
(* and model ask for tokens, pass the circuit breaker, try their transport *)
(* as often as they may and settle what they used.  The synchronous part   *)
(* of a call, from its grant to its first attempt, is not interrupted, but *)
(* the process may exit in it.                                             *)
(***************************************************************************)
EXTENDS TokenGovernor

CONSTANTS
    Others,     \* calls without a budget plan
    PlanOf,     \* the plan of a request
    Attempts,   \* how often a call may try
    Json,       \* calls that ask for a JSON response_format
    Cli,        \* calls by the command line transport
    Plausible,  \* what a provider may report, at most
    Threshold   \* failures that open the circuit, 5

Calls == (Requests \ Hosts) \cup Others

ASSUME PlanOfAssumption == PlanOf \in [Requests -> Plans]
ASSUME AttemptsAssumption == Attempts \in [Calls -> 1..3]
ASSUME CallsAssumption == Json \subseteq Calls /\ Cli \subseteq Calls /\ Others \cap Requests = {}
ASSUME CircuitAssumption == Threshold \in Nat \ {0} /\ Plausible \in Nat

VARIABLES
    at,        \* where a call is
    tries,     \* attempts begun
    json,      \* response_format is still asked for
    failures,  \* the entry of the circuit: failures counted; 0: no entry
    open,      \* its openUntil is in the future
    seen,      \* the last lifecycle event of a call
    streak     \* history: failed calls since the last success

callVars == <<at, tries, json, failures, open, seen, streak>>

CallTypeOK ==
    /\ at \in [Calls -> {"new", "granted", "asking", "over", "lost"}]
    /\ \A q \in Calls : tries[q] \in 0..Attempts[q]
    /\ json \in [Calls -> BOOLEAN]
    /\ failures \in Nat /\ open \in BOOLEAN /\ streak \in Nat
    /\ seen \in [Calls -> {"none", "calling", "completed", "failed"}]

-----------------------------------------------------------------------------
(* The synchronous part *)

\* No other call is in its synchronous part.
Free == \A q \in Calls : at[q] # "granted"

Started(q) ==
    /\ at' = [at EXCEPT ![q] = "granted"]
    /\ seen' = [seen EXCEPT ![q] = "calling"]
    /\ UNCHANGED <<tries, json, failures, open, streak>>

Ask(q) == \E n \in Estimates, mandatory \in BOOLEAN :
    /\ Free /\ at[q] = "new"
    /\ Authorize(q, PlanOf[q], n, mandatory)
    /\ Started(q)

AskUnplanned(q) ==
    /\ Free /\ at[q] = "new"
    /\ Started(q)
    /\ UNCHANGED vars

\* The denial is returned at once, without an event.
Denied(q) == \E n \in Estimates, mandatory \in BOOLEAN :
    /\ Free /\ at[q] = "new"
    /\ Deny(q, PlanOf[q], n, mandatory)
    /\ at' = [at EXCEPT ![q] = "over"]
    /\ UNCHANGED <<tries, json, failures, open, seen, streak>>

\* finalize: the budget is settled where the call has one.
Finalize(q, ok) ==
    /\ at' = [at EXCEPT ![q] = "over"]
    /\ seen' = [seen EXCEPT ![q] = IF ok THEN "completed" ELSE "failed"]
    /\ UNCHANGED <<tries, json>>

GiveBack(q) == IF q \in Requests THEN Release(q, PlanOf[q]) ELSE UNCHANGED vars

Charge(q, tokens, valid) ==
    IF q \in Requests THEN Settle(q, PlanOf[q], tokens, valid) ELSE UNCHANGED vars

\* Faulty: the early return forgets the reservation.
FailEarlyHolding(q) ==
    /\ at[q] = "granted"
    /\ Finalize(q, FALSE)
    /\ UNCHANGED <<vars, failures, open, streak>>

\* The call ends before any attempt.
FailEarly(q) ==
    /\ at[q] = "granted"
    /\ GiveBack(q) /\ Finalize(q, FALSE)
    /\ UNCHANGED <<failures, open, streak>>

\* The role has no model, or no endpoint.
Unconfigured(q) == FailEarly(q)

Refused(q) == open /\ FailEarly(q)

\* checkCircuit forgets an entry that is not open.
Send(q) ==
    /\ at[q] = "granted" /\ ~open
    /\ at' = [at EXCEPT ![q] = "asking"]
    /\ tries' = [tries EXCEPT ![q] = 1]
    /\ json' = [json EXCEPT ![q] = q \in Json \ Cli]
    /\ failures' = 0
    /\ UNCHANGED <<vars, open, seen, streak>>

-----------------------------------------------------------------------------
(* The answers of the transport *)

Asking(q) == Free /\ at[q] = "asking"

\* Faulty: the entry of the circuit outlives a success.
KeepFailures == UNCHANGED <<failures, open>> /\ streak' = 0

\* recordCircuitSuccess.
CircuitSuccess == failures' = 0 /\ open' = FALSE /\ streak' = 0

\* recordCircuitFailure.
CircuitFailure ==
    /\ failures' = failures + 1
    /\ open' = (failures + 1 >= Threshold)
    /\ streak' = streak + 1

\* What a call is charged: an implausible report is replaced by the estimate and
\* marked; the command line reports nothing.
ModelUsage(q, reported, estimate) ==
    LET valid == q \in Cli \/ reported <= Plausible
    IN  [valid |-> valid, tokens |-> IF valid /\ q \notin Cli THEN reported ELSE estimate]

Answered(q) == \E reported \in Reports, n \in Estimates :
    LET usage == ModelUsage(q, reported, n)
    IN  /\ Asking(q)
        /\ Charge(q, usage.tokens, usage.valid)
        /\ CircuitSuccess /\ Finalize(q, TRUE)

Again(q) == tries' = [tries EXCEPT ![q] = @ + 1] /\ UNCHANGED <<vars, at, failures, open, seen, streak>>

\* After the last attempt the call is charged with the prompt it sent.
FailLast(q) == \E n \in Estimates :
    /\ q \in Requests => n <= Larger(1, Account0.held[q])
    /\ Charge(q, n, TRUE)
    /\ Finalize(q, FALSE)

\* Faulty: the attempts begin anew, with the same format.
FormatRefusedAnew(q) ==
    /\ Asking(q) /\ json[q]
    /\ tries' = [tries EXCEPT ![q] = 1]
    /\ UNCHANGED <<vars, at, json, failures, open, seen, streak>>

\* A 400 about response_format: the next attempt, if there is one, does without
\* it; the circuit hears nothing of it.
FormatRefused(q) ==
    /\ Asking(q) /\ json[q]
    /\ \/ /\ tries[q] < Attempts[q]
          /\ json' = [json EXCEPT ![q] = FALSE]
          /\ Again(q)
       \/ /\ tries[q] = Attempts[q]
          /\ FailLast(q)
          /\ UNCHANGED <<failures, open, streak>>

\* A timeout, an exception, a bad answer or a status worth a retry.
Retry(q) ==
    /\ Asking(q) /\ tries[q] < Attempts[q]
    /\ Again(q) /\ UNCHANGED json

\* The same on the last attempt, or a status that is not retried.
Fail(q) ==
    /\ Asking(q) /\ (q \in Cli => tries[q] = Attempts[q])
    /\ FailLast(q) /\ CircuitFailure

Call(q) ==
    \/ Unconfigured(q) \/ Refused(q) \/ Send(q)
    \/ Answered(q) \/ FormatRefused(q) \/ Retry(q) \/ Fail(q)

-----------------------------------------------------------------------------
(* The rest of the system *)

\* openUntil passes.
Cool == Free /\ open /\ open' = FALSE /\ UNCHANGED <<vars, at, tries, json, failures, seen, streak>>

\* What is done with the budget as a whole.
Budget == Free /\ (Complete \/ Cleanup \/ Tick \/ \E p \in Plans : Snapshot(p)) /\ UNCHANGED callVars

Restarted ==
    /\ ProcessExit
    /\ at' = [q \in Calls |-> IF at[q] \in {"granted", "asking"} THEN "lost" ELSE at[q]]
    /\ failures' = 0 /\ open' = FALSE /\ streak' = 0
    /\ UNCHANGED <<tries, json, seen>>

CallInit ==
    /\ Init
    /\ at = [q \in Calls |-> "new"] /\ tries = [q \in Calls |-> 0]
    /\ json = [q \in Calls |-> FALSE]
    /\ failures = 0 /\ open = FALSE /\ streak = 0
    /\ seen = [q \in Calls |-> "none"]

CallNext ==
    \/ \E q \in Calls : Call(q)
    \/ \E q \in Calls \cap Requests : Ask(q) \/ Denied(q)
    \/ \E q \in Others : AskUnplanned(q)
    \/ Cool \/ Budget \/ Restarted

CallSpec == CallInit /\ [][CallNext]_<<vars, callVars>>

\* Every attempt has a timeout, and the synchronous part runs to its end.
FairCallSpec == CallSpec /\ \A q \in Calls : WF_<<vars, callVars>>(Call(q))

-----------------------------------------------------------------------------
(* Properties *)

\* A reservation belongs to a call under way or to one the process exited under:
\* every way out of callRuntimeModel, the early ones included, gives it back.
NothingLeaks == \A q \in Calls \cap Requests :
    Account0.held[q] > 0 => at[q] \in {"granted", "asking", "lost"}

\* The circuit opens only on as many failed calls as its threshold says with no
\* success between them, whatever answers overlapped (recordCircuitFailure).
OpenedByFailures == open => streak >= Threshold

\* Every call that was announced to the monitoring has its end announced, and its
\* outcome is the one that was settled.
EndsTold == \A q \in Calls :
    /\ seen[q] = "calling" <=> at[q] \in {"granted", "asking"} \/ (at[q] = "lost")
    /\ seen[q] = "completed" => at[q] = "over" /\ tries[q] > 0

\* The variables are typed, and a call is accounted for from its grant to its end, in the
\* budget and in the monitoring.
CallsAccounted == CallTypeOK /\ NothingLeaks /\ EndsTold

\* A call ends whatever its transport answers: the retries are bounded, the one
\* without response_format included.
CallEnds == \A q \in Calls : at[q] \in {"granted", "asking"} ~> at[q] \in {"over", "lost"}
=============================================================================
