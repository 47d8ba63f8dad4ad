--------------------------- MODULE ModelCallProofs ---------------------------
(***************************************************************************)
(* Theorems about ModelCall, for any number of calls, with and without a   *)
(* budget, any number of attempts and any threshold of the circuit: every  *)
(* call is accounted for from its grant to its end, and the circuit opens  *)
(* on failures only.                                                       *)
(*                                                                         *)
(* The governor's own invariant is kept by every step here, as a call adds *)
(* nothing to what the governor allows; what is added to it says where the *)
(* tokens of a call are held, and that the entry of the circuit counts no  *)
(* failure from before the last success.                                   *)
(***************************************************************************)
EXTENDS ModelCall, TokenGovernorProofs

\* An attempt has begun where an answer is awaited, and the circuit's entry
\* holds failures since the last success only.
Counted ==
    /\ tries \in [Calls -> Nat]
    /\ \A q \in Calls : at[q] = "asking" => tries[q] > 0
    /\ failures <= streak

CallInv == Inv /\ CallTypeOK /\ NothingLeaks /\ EndsTold /\ OpenedByFailures /\ Counted

-----------------------------------------------------------------------------
(* What a call does to the budget *)

\* Tokens are held for those requests only for which they were, q no more.
GivenUp(q) == \A r \in Requests : Account0'.held[r] > 0 => r # q /\ Account0.held[r] > 0

StillHeld == \A r \in Requests : Account0'.held[r] > 0 => Account0.held[r] > 0

LEMMA HeldType == ASSUME Inv PROVE \A r \in Requests : Account0.held[r] \in Nat
  BY Account0Type, AccountNumbers DEF Inv

LEMMA SameHeld ==
    ASSUME Inv, UNCHANGED vars
    PROVE  Inv' /\ Account0' = Account0
  <1>1. Inv'  BY Step
  <1>2. Account0' = Account0  BY DEF vars, Account0, Kept, Durable
  <1> QED  BY <1>1, <1>2

LEMMA AuthorizeHeld ==
    ASSUME Inv, NEW q \in Requests, NEW p \in Plans, NEW n \in Estimates,
           NEW mandatory \in BOOLEAN, Authorize(q, p, n, mandatory)
    PROVE  Inv' /\ \A r \in Requests \ {q} : Account0'.held[r] = Account0.held[r]
  <1>1. Inv' /\ Ledger!Grant(q, n, mandatory)  BY AuthorizeStep
  <1>2. Account0'.held = [Account0.held EXCEPT ![q] = n]  BY <1>1 DEF Ledger!Grant
  <1>3. Account0.held \in [Requests -> {0} \cup Estimates]  BY Account0Type DEF Inv, Account
  <1> QED  BY <1>1, <1>2, <1>3

LEMMA SettledHeld ==
    ASSUME Inv, NEW q \in Requests, Ledger!Settle(q)
    PROVE  GivenUp(q)
  <1>1. Account0'.held = [Account0.held EXCEPT ![q] = 0]  BY DEF Ledger!Settle
  <1>2. Account0.held \in [Requests -> {0} \cup Estimates]  BY Account0Type DEF Inv, Account
  <1>3. ASSUME NEW r \in Requests, Account0'.held[r] > 0 PROVE r # q /\ Account0.held[r] > 0
    <2>1. CASE r = q
      <3>1. Account0'.held[r] = 0  BY <1>1, <1>2, <2>1
      <3> QED  BY <1>3, <3>1
    <2>2. CASE r # q
      <3>1. Account0'.held[r] = Account0.held[r]  BY <1>1, <1>2, <2>2
      <3> QED  BY <1>3, <2>2, <3>1
    <2> QED  BY <2>1, <2>2
  <1> QED  BY <1>3 DEF GivenUp

\* The ways a call gives its reservation up.
LEMMA GiveBackHeld ==
    ASSUME Inv, NEW q \in Calls, GiveBack(q)
    PROVE  Inv' /\ GivenUp(q)
  <1>1. CASE q \in Requests
    <2>1. Release(q, PlanOf[q]) /\ PlanOf[q] \in Plans
      BY <1>1, PlanOfAssumption DEF GiveBack
    <2>2. Inv' /\ Ledger!Settle(q)  BY <1>1, <2>1, ReleaseStep
    <2> QED  BY <1>1, <2>2, SettledHeld
  <1>2. CASE q \notin Requests
    <2>1. Inv' /\ Account0' = Account0  BY <1>2, SameHeld DEF GiveBack
    <2> QED  BY <1>2, <2>1 DEF GivenUp
  <1> QED  BY <1>1, <1>2

LEMMA ChargeHeld ==
    ASSUME Inv, NEW q \in Calls, NEW tokens \in Nat, NEW valid \in BOOLEAN,
           Charge(q, tokens, valid)
    PROVE  Inv' /\ GivenUp(q)
  <1>1. CASE q \in Requests
    <2>1. Settle(q, PlanOf[q], tokens, valid) /\ PlanOf[q] \in Plans
      BY <1>1, PlanOfAssumption DEF Charge
    <2>2. Inv' /\ Ledger!Settle(q)  BY <1>1, <2>1, SettleStep
    <2> QED  BY <1>1, <2>2, SettledHeld
  <1>2. CASE q \notin Requests
    <2>1. Inv' /\ Account0' = Account0  BY <1>2, SameHeld DEF Charge
    <2> QED  BY <1>2, <2>1 DEF GivenUp
  <1> QED  BY <1>1, <1>2

\* An account forgotten, closed or kept holds nothing new.
LEMMA ResetHeld ==
    ASSUME Inv, \/ UNCHANGED Ledger!ledger \/ Ledger!Forget \/ Ledger!Pass \/ Ledger!Close
    PROVE  StillHeld
  <1>1. Account0'.held = Account0.held \/ Account0'.held = [q \in Requests |-> 0]
    BY DEF Ledger!ledger, Ledger!Forget, Ledger!Pass, Ledger!Close, Ledger!Reset, Ledger!None
  <1>2. CASE Account0'.held = Account0.held  BY <1>2 DEF StillHeld
  <1>3. CASE Account0'.held = [q \in Requests |-> 0]  BY <1>3 DEF StillHeld
  <1> QED  BY <1>1, <1>2, <1>3

-----------------------------------------------------------------------------
(* What a call does to its own rows *)

\* One call goes from one place to another; nothing of the others is different.
LEMMA MovedCall ==
    ASSUME CallInv, Inv', NEW q \in Calls,
           NEW place \in {"new", "granted", "asking", "over", "lost"},
           NEW event \in {"none", "calling", "completed", "failed"},
           NEW n \in 0..Attempts[q],
           at' = [at EXCEPT ![q] = place], seen' = [seen EXCEPT ![q] = event],
           tries' = [tries EXCEPT ![q] = n], json' \in [Calls -> BOOLEAN],
           failures' \in Nat, open' \in BOOLEAN, streak' \in Nat,
           failures' <= streak', open' => streak' >= Threshold,
           event = "calling" <=> place \in {"granted", "asking", "lost"},
           event = "completed" => place = "over" /\ n > 0,
           place = "asking" => n > 0,
           \A r \in (Calls \cap Requests) \ {q} : Account0'.held[r] > 0 => Account0.held[r] > 0,
           q \in Requests => place \in {"granted", "asking", "lost"} \/ ~(Account0'.held[q] > 0)
    PROVE  CallInv'
  <1>1. /\ at'[q] = place /\ seen'[q] = event
        /\ \A r \in Calls \ {q} : at'[r] = at[r] /\ seen'[r] = seen[r]
    BY DEF CallInv, CallTypeOK
  <1>2. \A r \in Calls : tries'[r] \in 0..Attempts[r] /\ (r # q => tries'[r] = tries[r])
                         /\ (r = q /\ n > 0 => tries'[r] > 0)
    BY DEF CallInv, CallTypeOK, Counted
  <1>3. CallTypeOK'
    <2>1. at' \in [Calls -> {"new", "granted", "asking", "over", "lost"}]
      BY DEF CallInv, CallTypeOK
    <2>2. seen' \in [Calls -> {"none", "calling", "completed", "failed"}]
      BY DEF CallInv, CallTypeOK
    <2> QED  BY <1>2, <2>1, <2>2 DEF CallTypeOK
  <1>4. NothingLeaks'
    <2>1. ASSUME NEW r \in Calls \cap Requests, Account0'.held[r] > 0
          PROVE  at'[r] \in {"granted", "asking", "lost"}
      <3>1. CASE r = q  BY <1>1, <2>1, <3>1
      <3>2. CASE r # q  BY <1>1, <2>1, <3>2 DEF CallInv, NothingLeaks
      <3> QED  BY <3>1, <3>2
    <2> QED  BY <2>1 DEF NothingLeaks
  <1>5. EndsTold'
    <2>1. ASSUME NEW r \in Calls
          PROVE  /\ seen'[r] = "calling" <=> at'[r] \in {"granted", "asking"} \/ at'[r] = "lost"
                 /\ seen'[r] = "completed" => at'[r] = "over" /\ tries'[r] > 0
      <3>1. CASE r = q  BY <1>1, <1>2, <3>1
      <3>2. CASE r # q  BY <1>1, <1>2, <3>2 DEF CallInv, EndsTold
      <3> QED  BY <3>1, <3>2
    <2> QED  BY <2>1 DEF EndsTold
  <1>6. OpenedByFailures'  BY DEF OpenedByFailures
  <1>7. Counted'
    <2>0. tries' \in [Calls -> Nat]
      <3>1. n \in Nat  BY AttemptsAssumption
      <3> QED  BY <3>1 DEF CallInv, Counted
    <2>1. ASSUME NEW r \in Calls, at'[r] = "asking" PROVE tries'[r] > 0
      <3>1. CASE r = q  BY <1>1, <1>2, <2>1, <3>1
      <3>2. CASE r # q  BY <1>1, <1>2, <2>1, <3>2 DEF CallInv, Counted
      <3> QED  BY <3>1, <3>2
    <2> QED  BY <2>0, <2>1 DEF Counted
  <1> QED  BY <1>3, <1>4, <1>5, <1>6, <1>7 DEF CallInv

-----------------------------------------------------------------------------
(* The synchronous part *)

\* What the invariant says of one call.
LEMMA CallIs ==
    ASSUME CallInv, NEW q \in Calls
    PROVE  /\ at[q] \in {"new", "granted", "asking", "over", "lost"}
           /\ seen[q] \in {"none", "calling", "completed", "failed"}
           /\ tries[q] \in 0..Attempts[q] /\ Attempts[q] \in 1..3
           /\ at = [at EXCEPT ![q] = at[q]] /\ seen = [seen EXCEPT ![q] = seen[q]]
           /\ tries = [tries EXCEPT ![q] = tries[q]]
           /\ seen[q] = "calling" <=> at[q] \in {"granted", "asking", "lost"}
           /\ seen[q] = "completed" => at[q] = "over" /\ tries[q] > 0
           /\ at[q] = "asking" => tries[q] > 0
           /\ q \in Requests /\ at[q] \in {"new", "over"} => ~(Account0.held[q] > 0)
  BY AttemptsAssumption DEF CallInv, CallTypeOK, EndsTold, Counted, NothingLeaks

\* The circuit is as it was.
LEMMA SameCircuit ==
    ASSUME CallInv, UNCHANGED <<failures, open, streak>>
    PROVE  /\ failures' \in Nat /\ open' \in BOOLEAN /\ streak' \in Nat
           /\ failures' <= streak' /\ (open' => streak' >= Threshold)
  BY DEF CallInv, CallTypeOK, OpenedByFailures, Counted

LEMMA StartedStep ==
    ASSUME CallInv, Inv', NEW q \in Calls, at[q] = "new", Started(q),
           \A r \in (Calls \cap Requests) \ {q} : Account0'.held[r] > 0 => Account0.held[r] > 0
    PROVE  CallInv'
  <1>1. /\ at' = [at EXCEPT ![q] = "granted"] /\ seen' = [seen EXCEPT ![q] = "calling"]
        /\ UNCHANGED <<tries, json, failures, open, streak>>
    BY DEF Started
  <1>2. /\ tries[q] \in 0..Attempts[q] /\ tries' = [tries EXCEPT ![q] = tries[q]]
    BY <1>1, CallIs
  <1>3. json' \in [Calls -> BOOLEAN]  BY <1>1 DEF CallInv, CallTypeOK
  <1> QED  BY <1>1, <1>2, <1>3, SameCircuit, MovedCall

LEMMA AskStep == ASSUME CallInv, NEW q \in Calls \cap Requests, Ask(q) PROVE CallInv'
  <1>1. PICK n \in Estimates, mandatory \in BOOLEAN :
           at[q] = "new" /\ Authorize(q, PlanOf[q], n, mandatory) /\ Started(q)
    BY DEF Ask
  <1>2. Inv' /\ \A r \in Requests \ {q} : Account0'.held[r] = Account0.held[r]
    BY <1>1, AuthorizeHeld, PlanOfAssumption DEF CallInv
  <1> QED  BY <1>1, <1>2, StartedStep

LEMMA AskUnplannedStep == ASSUME CallInv, NEW q \in Others, AskUnplanned(q) PROVE CallInv'
  <1>1. at[q] = "new" /\ Started(q) /\ UNCHANGED vars /\ q \in Calls
    BY DEF AskUnplanned, Calls
  <1>2. Inv' /\ Account0' = Account0  BY <1>1, SameHeld DEF CallInv
  <1> QED  BY <1>1, <1>2, StartedStep

LEMMA DeniedStep == ASSUME CallInv, NEW q \in Calls \cap Requests, Denied(q) PROVE CallInv'
  <1>1. PICK n \in Estimates, mandatory \in BOOLEAN :
           /\ at[q] = "new" /\ Deny(q, PlanOf[q], n, mandatory)
           /\ at' = [at EXCEPT ![q] = "over"]
           /\ UNCHANGED <<tries, json, failures, open, seen, streak>>
    BY DEF Denied
  <1>2. Inv' /\ UNCHANGED Ledger!ledger
    BY <1>1, DenyStep, PlanOfAssumption DEF CallInv
  <1>3. Account0'.held = Account0.held  BY <1>2 DEF Ledger!ledger
  <1>4. /\ seen[q] \in {"none", "calling", "completed", "failed"}
        /\ seen[q] # "calling" /\ seen[q] # "completed"
        /\ tries[q] \in 0..Attempts[q] /\ tries' = [tries EXCEPT ![q] = tries[q]]
        /\ seen' = [seen EXCEPT ![q] = seen[q]] /\ ~(Account0'.held[q] > 0)
    BY <1>1, <1>3, CallIs
  <1>5. json' \in [Calls -> BOOLEAN]  BY <1>1 DEF CallInv, CallTypeOK
  <1> DEFINE event == seen[q]
             n0 == tries[q]
  <1>6. /\ event \in {"none", "calling", "completed", "failed"}
        /\ event # "calling" /\ event # "completed" /\ seen' = [seen EXCEPT ![q] = event]
        /\ n0 \in 0..Attempts[q] /\ tries' = [tries EXCEPT ![q] = n0]
    BY <1>4
  <1> HIDE DEF event, n0
  <1>7. \A r \in (Calls \cap Requests) \ {q} : Account0'.held[r] > 0 => Account0.held[r] > 0
    BY <1>3
  <1>8. /\ failures' \in Nat /\ open' \in BOOLEAN /\ streak' \in Nat
        /\ failures' <= streak' /\ (open' => streak' >= Threshold)
    BY <1>1, SameCircuit
  <1>9. at' = [at EXCEPT ![q] = "over"] /\ ~(Account0'.held[q] > 0) /\ Inv'  BY <1>1, <1>2, <1>4
  <1> QED  BY <1>5, <1>6, <1>7, <1>8, <1>9, MovedCall

\* A call that ends, its reservation given up.
LEMMA FinalizeStep ==
    ASSUME CallInv, Inv', NEW q \in Calls, NEW ok \in BOOLEAN, Finalize(q, ok), GivenUp(q),
           ok => tries[q] > 0, failures' \in Nat, open' \in BOOLEAN, streak' \in Nat,
           failures' <= streak', open' => streak' >= Threshold
    PROVE  CallInv'
  <1> DEFINE event == IF ok THEN "completed" ELSE "failed"
  <1>1. /\ at' = [at EXCEPT ![q] = "over"] /\ seen' = [seen EXCEPT ![q] = event]
        /\ UNCHANGED <<tries, json>>
    BY DEF Finalize
  <1>2. event \in {"none", "calling", "completed", "failed"} /\ event # "calling"
        /\ (event = "completed" => tries[q] > 0)
    OBVIOUS
  <1> HIDE DEF event
  <1>3. tries[q] \in 0..Attempts[q] /\ tries' = [tries EXCEPT ![q] = tries[q]]
    BY <1>1, CallIs
  <1>4. json' \in [Calls -> BOOLEAN]  BY <1>1 DEF CallInv, CallTypeOK
  <1>5. /\ \A r \in (Calls \cap Requests) \ {q} : Account0'.held[r] > 0 => Account0.held[r] > 0
        /\ q \in Requests => ~(Account0'.held[q] > 0)
    BY DEF GivenUp
  <1> QED  BY <1>1, <1>2, <1>3, <1>4, <1>5, MovedCall

LEMMA FailEarlyStep == ASSUME CallInv, NEW q \in Calls, FailEarly(q) PROVE CallInv'
  <1>1. GiveBack(q) /\ Finalize(q, FALSE) /\ UNCHANGED <<failures, open, streak>>
    BY DEF FailEarly
  <1>2. Inv' /\ GivenUp(q)  BY <1>1, GiveBackHeld DEF CallInv
  <1> QED  BY <1>1, <1>2, SameCircuit, FinalizeStep

LEMMA SendStep == ASSUME CallInv, NEW q \in Calls, Send(q) PROVE CallInv'
  <1>1. /\ at[q] = "granted" /\ at' = [at EXCEPT ![q] = "asking"]
        /\ tries' = [tries EXCEPT ![q] = 1] /\ json' = [json EXCEPT ![q] = q \in Json \ Cli]
        /\ failures' = 0 /\ UNCHANGED <<open, seen, streak>> /\ UNCHANGED vars
    BY DEF Send
  <1>2. Inv' /\ Account0' = Account0  BY <1>1, SameHeld DEF CallInv
  <1>3. 1 \in 0..Attempts[q] /\ seen' = [seen EXCEPT ![q] = seen[q]] /\ seen[q] = "calling"
        /\ seen[q] \in {"none", "calling", "completed", "failed"}
    BY <1>1, CallIs
  <1>4. json' \in [Calls -> BOOLEAN]
    <2>1. (q \in Json \ Cli) \in BOOLEAN  OBVIOUS
    <2> QED  BY <1>1, <2>1 DEF CallInv, CallTypeOK
  <1>5. /\ failures' \in Nat /\ open' \in BOOLEAN /\ streak' \in Nat
        /\ failures' <= streak' /\ (open' => streak' >= Threshold)
    BY <1>1 DEF CallInv, CallTypeOK, OpenedByFailures
  <1> DEFINE event == seen[q]
  <1>6. event = "calling" /\ seen' = [seen EXCEPT ![q] = event]
        /\ event \in {"none", "calling", "completed", "failed"}
    BY <1>3
  <1> HIDE DEF event
  <1>7. \A r \in (Calls \cap Requests) \ {q} : Account0'.held[r] > 0 => Account0.held[r] > 0
    BY <1>2
  <1> DEFINE place == "asking"
             n == 1
  <1>8. /\ at' = [at EXCEPT ![q] = place] /\ tries' = [tries EXCEPT ![q] = n] /\ Inv'
        /\ place \in {"new", "granted", "asking", "over", "lost"} /\ n \in 0..Attempts[q]
    BY <1>1, <1>2, <1>3
  <1>9. /\ event = "calling" <=> place \in {"granted", "asking", "lost"}
        /\ event = "completed" => place = "over" /\ n > 0
        /\ place = "asking" => n > 0
        /\ q \in Requests => place \in {"granted", "asking", "lost"} \/ ~(Account0'.held[q] > 0)
    BY <1>6
  <1> HIDE DEF place, n
  <1> QED  BY <1>4, <1>5, <1>6, <1>7, <1>8, <1>9, MovedCall

-----------------------------------------------------------------------------
(* The answers of the transport *)

LEMMA CircuitFailureStep ==
    ASSUME CallInv, CircuitFailure
    PROVE  /\ failures' \in Nat /\ open' \in BOOLEAN /\ streak' \in Nat
           /\ failures' <= streak' /\ (open' => streak' >= Threshold)
  <1>1. failures' = failures + 1 /\ streak' = streak + 1  BY DEF CircuitFailure
  <1>2. open' = (failures + 1 >= Threshold)  BY DEF CircuitFailure
  <1>3. failures \in Nat /\ streak \in Nat /\ failures <= streak
    BY DEF CallInv, CallTypeOK, Counted
  <1>4. failures' \in Nat /\ streak' \in Nat /\ failures' <= streak'  BY <1>1, <1>3
  <1>5. failures + 1 >= Threshold => streak' >= Threshold
    BY <1>1, <1>3, CircuitAssumption
  <1>6. open' \in BOOLEAN  BY <1>2
  <1>7. open' => streak' >= Threshold  BY <1>2, <1>5
  <1> QED  BY <1>4, <1>6, <1>7

LEMMA CircuitSuccessStep ==
    ASSUME CircuitSuccess
    PROVE  /\ failures' \in Nat /\ open' \in BOOLEAN /\ streak' \in Nat
           /\ failures' <= streak' /\ (open' => streak' >= Threshold)
  <1>1. failures' = 0 /\ streak' = 0  BY DEF CircuitSuccess
  <1>2. ~open' /\ open' \in BOOLEAN  BY DEF CircuitSuccess
  <1> QED  BY <1>1, <1>2

LEMMA AnsweredStep == ASSUME CallInv, NEW q \in Calls, Answered(q) PROVE CallInv'
  <1>1. PICK reported \in Reports, n \in Estimates :
           /\ at[q] = "asking"
           /\ Charge(q, ModelUsage(q, reported, n).tokens, ModelUsage(q, reported, n).valid)
           /\ CircuitSuccess /\ Finalize(q, TRUE)
    BY DEF Answered, Asking
  <1> DEFINE usage == ModelUsage(q, reported, n)
  <1>2. usage.tokens \in Nat /\ usage.valid \in BOOLEAN
    BY TokensAssumption DEF ModelUsage
  <1>3. Charge(q, usage.tokens, usage.valid)  BY <1>1
  <1> HIDE DEF usage
  <1>4. Inv' /\ GivenUp(q)  BY <1>2, <1>3, ChargeHeld DEF CallInv
  <1>5. tries[q] > 0  BY <1>1, CallIs
  <1> QED  BY <1>1, <1>4, <1>5, CircuitSuccessStep, FinalizeStep

LEMMA AgainStep ==
    ASSUME CallInv, NEW q \in Calls, Asking(q), tries[q] < Attempts[q], Again(q),
           json' \in [Calls -> BOOLEAN]
    PROVE  CallInv'
  <1>1. /\ tries' = [tries EXCEPT ![q] = tries[q] + 1] /\ UNCHANGED vars
        /\ UNCHANGED <<at, failures, open, seen, streak>> /\ at[q] = "asking"
    BY DEF Again, Asking
  <1>2. Inv' /\ Account0' = Account0  BY <1>1, SameHeld DEF CallInv
  <1>3. /\ at' = [at EXCEPT ![q] = "asking"] /\ seen' = [seen EXCEPT ![q] = seen[q]]
        /\ seen[q] = "calling" /\ seen[q] \in {"none", "calling", "completed", "failed"}
        /\ tries[q] + 1 \in 0..Attempts[q] /\ tries[q] + 1 > 0
    BY <1>1, CallIs
  <1> QED  BY <1>1, <1>2, <1>3, SameCircuit, MovedCall

LEMMA FailLastStep ==
    ASSUME CallInv, NEW q \in Calls, FailLast(q), failures' \in Nat, open' \in BOOLEAN,
           streak' \in Nat, failures' <= streak', open' => streak' >= Threshold
    PROVE  CallInv'
  <1>1. PICK n \in Estimates : Charge(q, n, TRUE) /\ Finalize(q, FALSE)  BY DEF FailLast
  <1>2. n \in Nat  BY TokensAssumption
  <1>3. Inv' /\ GivenUp(q)  BY <1>1, <1>2, ChargeHeld DEF CallInv
  <1> QED  BY <1>1, <1>3, FinalizeStep

LEMMA FormatRefusedStep == ASSUME CallInv, NEW q \in Calls, FormatRefused(q) PROVE CallInv'
  <1>1. CASE tries[q] < Attempts[q] /\ json' = [json EXCEPT ![q] = FALSE] /\ Again(q)
    <2>1. json' \in [Calls -> BOOLEAN]  BY <1>1 DEF CallInv, CallTypeOK
    <2> QED  BY <1>1, <2>1, AgainStep DEF FormatRefused
  <1>2. CASE FailLast(q) /\ UNCHANGED <<failures, open, streak>>
    BY <1>2, SameCircuit, FailLastStep
  <1> QED  BY <1>1, <1>2 DEF FormatRefused

LEMMA CallStep == ASSUME CallInv, NEW q \in Calls, Call(q) PROVE CallInv'
  <1>1. CASE Unconfigured(q) \/ Refused(q)
    BY <1>1, FailEarlyStep DEF Unconfigured, Refused
  <1>2. CASE Send(q)  BY <1>2, SendStep
  <1>3. CASE Answered(q)  BY <1>3, AnsweredStep
  <1>4. CASE FormatRefused(q)  BY <1>4, FormatRefusedStep
  <1>5. CASE Retry(q)
    <2>1. json' \in [Calls -> BOOLEAN]  BY <1>5 DEF Retry, CallInv, CallTypeOK
    <2> QED  BY <1>5, <2>1, AgainStep DEF Retry
  <1>6. CASE Fail(q)
    BY <1>6, CircuitFailureStep, FailLastStep DEF Fail
  <1> QED  BY <1>1, <1>2, <1>3, <1>4, <1>5, <1>6 DEF Call

-----------------------------------------------------------------------------
(* The rest of the system *)

LEMMA BudgetStep == ASSUME CallInv, Budget PROVE CallInv'
  <1>1. /\ UNCHANGED <<at, tries, json, failures, open, seen, streak>>
        /\ Complete \/ Cleanup \/ Tick \/ \E p \in Plans : Snapshot(p)
    BY DEF Budget, callVars
  <1>2. Inv' /\ (\/ UNCHANGED Ledger!ledger \/ Ledger!Forget \/ Ledger!Pass \/ Ledger!Close)
    BY <1>1, CompleteStep, CleanupStep, TickStep, SnapshotStep DEF CallInv
  <1>3. StillHeld  BY <1>2, ResetHeld DEF CallInv
  <1>4. NothingLeaks'  BY <1>1, <1>3 DEF CallInv, NothingLeaks, StillHeld
  <1> QED
    BY <1>1, <1>2, <1>4 DEF CallInv, CallTypeOK, EndsTold, OpenedByFailures, Counted

LEMMA CoolStep == ASSUME CallInv, Cool PROVE CallInv'
  <1>1. UNCHANGED <<at, tries, json, failures, seen, streak>> /\ open' = FALSE /\ UNCHANGED vars
    BY DEF Cool
  <1>2. Inv' /\ Account0' = Account0  BY <1>1, SameHeld DEF CallInv
  <1> QED
    BY <1>1, <1>2 DEF CallInv, CallTypeOK, NothingLeaks, EndsTold, OpenedByFailures, Counted

LEMMA RestartedStep == ASSUME CallInv, Restarted PROVE CallInv'
  <1>1. /\ ProcessExit /\ UNCHANGED <<tries, json, seen>>
        /\ at' = [q \in Calls |-> IF at[q] \in {"granted", "asking"} THEN "lost" ELSE at[q]]
        /\ failures' = 0 /\ open' = FALSE /\ streak' = 0
    BY DEF Restarted
  <1>2. Inv' /\ (UNCHANGED Ledger!ledger \/ Ledger!Forget)  BY <1>1, ExitStep DEF CallInv
  <1>3. StillHeld  BY <1>2, ResetHeld DEF CallInv
  <1>4. CallTypeOK'  BY <1>1 DEF CallInv, CallTypeOK
  <1>5. NothingLeaks'  BY <1>1, <1>3 DEF CallInv, NothingLeaks, StillHeld
  <1>6. EndsTold'  BY <1>1 DEF CallInv, EndsTold
  <1>7. OpenedByFailures' /\ Counted'  BY <1>1 DEF CallInv, OpenedByFailures, Counted
  <1> QED  BY <1>2, <1>4, <1>5, <1>6, <1>7 DEF CallInv

LEMMA CallInitial == CallInit => CallInv
  <1> SUFFICES ASSUME CallInit PROVE CallInv  OBVIOUS
  <1>1. Inv /\ Account0 = NewAccount
    <2>1. Inv  BY Initial DEF CallInit
    <2>2. Account0 = NewAccount  BY DEF CallInit, Init, Account0, Kept, Durable
    <2> QED  BY <2>1, <2>2
  <1>2. \A q \in Calls : 0 \in 0..Attempts[q]  BY AttemptsAssumption
  <1>3. CallTypeOK  BY <1>2 DEF CallInit, CallTypeOK
  <1>4. NothingLeaks  BY <1>1 DEF NothingLeaks, NewAccount
  <1>5. EndsTold /\ OpenedByFailures /\ Counted
    BY DEF CallInit, EndsTold, OpenedByFailures, Counted
  <1> QED  BY <1>1, <1>3, <1>4, <1>5 DEF CallInv

LEMMA CallNextStep == CallInv /\ [CallNext]_<<vars, callVars>> => CallInv'
  <1> SUFFICES ASSUME CallInv, [CallNext]_<<vars, callVars>> PROVE CallInv'  OBVIOUS
  <1>1. ASSUME NEW q \in Calls, Call(q) PROVE CallInv'  BY <1>1, CallStep
  <1>2. ASSUME NEW q \in Calls \cap Requests, Ask(q) PROVE CallInv'  BY <1>2, AskStep
  <1>3. ASSUME NEW q \in Calls \cap Requests, Denied(q) PROVE CallInv'  BY <1>3, DeniedStep
  <1>4. ASSUME NEW q \in Others, AskUnplanned(q) PROVE CallInv'  BY <1>4, AskUnplannedStep
  <1>5. CASE Cool  BY <1>5, CoolStep
  <1>6. CASE Budget  BY <1>6, BudgetStep
  <1>7. CASE Restarted  BY <1>7, RestartedStep
  <1>8. CASE UNCHANGED <<vars, callVars>>
    <2>1. UNCHANGED vars /\ UNCHANGED <<at, tries, json, failures, open, seen, streak>>
      BY <1>8 DEF callVars
    <2>2. Inv' /\ Account0' = Account0  BY <2>1, SameHeld DEF CallInv
    <2> QED
      BY <2>1, <2>2 DEF CallInv, CallTypeOK, NothingLeaks, EndsTold, OpenedByFailures, Counted
  <1> QED  BY <1>1, <1>2, <1>3, <1>4, <1>5, <1>6, <1>7, <1>8 DEF CallNext

LEMMA CallInvHolds == CallSpec => []CallInv
  BY CallInitial, CallNextStep, PTL DEF CallSpec

\* Every way out of a call gives its reservation up and announces its end, the
\* early ones and the exit of the process included: for any number of calls that
\* overlap, with and without a budget (callRuntimeModel).
THEOREM CallsAccountedHolds == CallSpec => []CallsAccounted
  <1>1. CallInv => CallsAccounted  BY DEF CallInv, CallsAccounted
  <1> QED  BY <1>1, CallInvHolds, PTL

\* The circuit opens only on as many failed calls as its threshold says with no
\* success between them, for every threshold and whatever answers overlapped
\* (recordCircuitFailure, recordCircuitSuccess, checkCircuit).
THEOREM OpenedByFailuresHolds == CallSpec => []OpenedByFailures
  <1>1. CallInv => OpenedByFailures  BY DEF CallInv
  <1> QED  BY <1>1, CallInvHolds, PTL

=============================================================================
