------------------------- MODULE TokenGovernorProofs -------------------------
(***************************************************************************)
(* Theorems about TokenGovernor, for every set of requests, plans and      *)
(* estimates: its types, the agreement of the map with the row, that it    *)
(* implements TokenLedger, and that calls under way never overdraw.        *)
(*                                                                         *)
(* What has to be added to the invariants is where time stands: neither    *)
(* the map nor the row gives an account up before Ttl ticks went by        *)
(* without a grant or a settlement, and a state whose row was deleted has  *)
(* seen none for as long.  That nothing is overdrawn has to be said of the *)
(* map and of the row apart: their limits differ, and an exit or an expiry *)
(* leaves the one for the other.                                           *)
(***************************************************************************)
EXTENDS TokenGovernor, FiniteSetTheorems, TLAPS

Waits ==
    /\ age <= quiet \/ quiet = Ttl
    /\ status = "active" => left + quiet >= Ttl
    /\ cached /\ status = "none" => quiet = Ttl

Inv == TypeOK /\ WriteThrough /\ Waits

-----------------------------------------------------------------------------
(* Accounts *)

LEMMA PlanNumbers == ASSUME NEW p \in Plans PROVE p.total \in Nat /\ p.reserve \in Nat
  BY PlansAssumption

LEMMA AccountNumbers ==
    ASSUME NEW s \in Account
    PROVE  /\ s.limit \in Nat /\ s.reserve \in Nat /\ s.spent \in Nat /\ s.spent <= s.limit
           /\ \A q \in Requests : s.held[q] \in Nat
  <1>1. /\ s.limit \in {0} \cup {p.total : p \in Plans}
        /\ s.reserve \in {0} \cup {p.reserve : p \in Plans}
        /\ s.spent \in Nat /\ s.spent <= s.limit
        /\ s.held \in [Requests -> {0} \cup Estimates]
    BY DEF Account
  <1>2. s.limit \in Nat  BY <1>1, PlanNumbers
  <1>3. s.reserve \in Nat  BY <1>1, PlanNumbers
  <1>4. \A q \in Requests : s.held[q] \in Nat
    <2>1. \A q \in Requests : s.held[q] \in {0} \cup Estimates  BY <1>1
    <2>2. \A n \in {0} \cup Estimates : n \in Nat  BY TokensAssumption
    <2> QED  BY <2>1, <2>2, Zenon
  <1> QED  BY <1>1, <1>2, <1>3, <1>4

LEMMA NewAccountType == NewAccount \in Account
  BY DEF NewAccount, Account

LEMMA Account0Type == TypeOK => Account0 \in Account
  BY NewAccountType DEF TypeOK, Account0

LEMMA StateForType ==
    ASSUME TypeOK, NEW p \in Plans
    PROVE  /\ StateFor(p) \in Account
           /\ StateFor(p).spent = Account0.spent /\ StateFor(p).held = Account0.held
           /\ StateFor(p).limit \in {r.total : r \in Plans}
           /\ StateFor(p).reserve \in {r.reserve : r \in Plans}
  <1> DEFINE s == Account0
  <1>1. s \in Account  BY Account0Type
  <1>2. /\ s.limit \in Nat /\ s.reserve \in Nat /\ s.spent <= s.limit
        /\ p.total \in Nat /\ p.reserve \in Nat
    BY <1>1, AccountNumbers, PlanNumbers
  <1>3. /\ Larger(s.limit, p.total) \in {r.total : r \in Plans}
        /\ Larger(s.limit, p.total) >= s.limit
        /\ Larger(s.reserve, p.reserve) \in {r.reserve : r \in Plans}
    BY <1>1, <1>2 DEF Account, Larger
  <1>4. StateFor(p) = [limit |-> Larger(s.limit, p.total), reserve |-> Larger(s.reserve, p.reserve),
                       spent |-> s.spent, held |-> s.held]
    BY DEF StateFor
  <1>5. Larger(s.limit, p.total) \in Nat  BY <1>2 DEF Larger
  <1> QED  BY <1>1, <1>2, <1>3, <1>4, <1>5, AccountNumbers DEF Account

LEMMA BalancedType ==
    ASSUME NEW s \in Account, NEW spent \in Nat, spent <= s.limit,
           NEW held \in [Requests -> {0} \cup Estimates]
    PROVE  /\ Balanced(s, spent, held) \in Account
           /\ Balanced(s, spent, held).spent = spent
           /\ Balanced(s, spent, held).held = held
  BY DEF Balanced, Account

-----------------------------------------------------------------------------
(* Writing the map and the row *)

\* What TypeOK says of the map and of the row.
Places ==
    /\ cached \in BOOLEAN /\ cache \in Account /\ age \in 0..(Ttl + 1)
    /\ status \in {"none", "active", "completed"} /\ row \in Account
    /\ left \in 0..Larger(Ttl, Retention)

LEMMA Lefts ==
    /\ Ttl \in 0..Larger(Ttl, Retention) /\ Retention \in 0..Larger(Ttl, Retention)
    /\ 0 \in 0..Larger(Ttl, Retention) /\ Larger(Ttl, Retention) \in Nat
  BY TimeAssumption DEF Larger

LEMMA Sums == ASSUME NEW a \in Nat, NEW b \in Nat PROVE 0 <= b /\ a + b >= a
  OBVIOUS

LEMMA Persisted ==
    ASSUME NEW s \in Account, PersistState(s), quiet' \in 0..Ttl
    PROVE  Account0' = s /\ Places' /\ WriteThrough' /\ Waits'
  <1>1. /\ cached' = TRUE /\ cache' = s /\ age' = 0
        /\ row' = s /\ status' = "active" /\ left' = Ttl
    BY DEF PersistState, Remember
  <1>2. Account0' = s  BY <1>1, TimeAssumption DEF Account0, Kept
  <1>3. Places'  BY <1>1, Lefts, TimeAssumption DEF Places
  <1>4. WriteThrough'  BY <1>1 DEF WriteThrough
  <1>5. Waits'
    <2>1. quiet' \in Nat /\ Ttl \in Nat  BY TimeAssumption
    <2>2. 0 <= quiet' /\ Ttl + quiet' >= Ttl  BY <2>1, Sums
    <2>3. age' <= quiet' /\ left' + quiet' >= Ttl  BY <1>1, <2>2, Zenon
    <2> QED  BY <1>1, <2>3 DEF Waits
  <1> QED  BY <1>2, <1>3, <1>4, <1>5

LEMMA Consulted ==
    ASSUME Inv, NEW p \in Plans, Consult(p), UNCHANGED quiet
    PROVE  /\ Account0'.spent = Account0.spent /\ Account0'.held = Account0.held
           /\ Places' /\ WriteThrough' /\ Waits'
  <1> DEFINE s == StateFor(p)
  <1>1. s \in Account /\ s.spent = Account0.spent /\ s.held = Account0.held
    BY StateForType DEF Inv
  <1>2. CASE ~Kept
    <2>1. PersistState(s)  BY <1>2 DEF Consult
    <2>2. quiet' \in 0..Ttl  BY DEF Inv, TypeOK
    <2> QED  BY <1>1, <2>1, <2>2, Persisted
  <1>3. CASE Kept
    <2>1. cached' = TRUE /\ cache' = s /\ age' = 0 /\ Prune
      BY <1>3 DEF Consult, KeepState, Remember
    <2>2. Account0' = s  BY <2>1, TimeAssumption DEF Account0, Kept
    <2>3. Account0 = cache  BY <1>3 DEF Account0
    <2>4. Places'
      BY <1>1, <2>1, NewAccountType, TimeAssumption DEF Places, Prune, Inv, TypeOK
    <2>5. WriteThrough'
      BY <1>1, <1>3, <2>1, <2>3 DEF WriteThrough, Prune, Inv, Kept
    <2>6. Waits'
      <3>1. quiet \in 0..Ttl /\ left \in Nat  BY Lefts DEF Inv, TypeOK
      <3>2. status = "active" /\ left = 0 => quiet = Ttl
        BY <3>1, TimeAssumption DEF Inv, Waits
      <3>3. status \in {"none", "active"}
        BY <1>3 DEF Inv, TypeOK, WriteThrough, Kept
      <3>4. left = 0 => quiet = Ttl
        BY <1>3, <3>2, <3>3 DEF Inv, Waits, Kept
      <3>5. CASE left = 0
        BY <2>1, <3>1, <3>4, <3>5, TimeAssumption DEF Prune, Waits
      <3>6. CASE left # 0
        BY <1>3, <2>1, <3>1, <3>6, TimeAssumption DEF Prune, Waits, Inv, Kept
      <3> QED  BY <3>5, <3>6
    <2> QED  BY <1>1, <2>2, <2>4, <2>5, <2>6
  <1> QED  BY <1>2, <1>3

-----------------------------------------------------------------------------
(* The actions *)

\* The part of TypeOK that is not about the map and the row.
Rest ==
    /\ call \in [Requests -> {"new", "open", "over"}] /\ quiet \in 0..Ttl
    /\ over \in Nat /\ closed \in {0, 1}

LEMMA Ceilings ==
    ASSUME TypeOK, NEW p \in Plans, NEW mandatory \in BOOLEAN
    PROVE  Ceiling(StateFor(p), mandatory) \in Ledger!Allowances(mandatory)
  BY StateForType DEF Ceiling, Ledger!Allowances

LEMMA AuthorizeStep ==
    ASSUME Inv, NEW q \in Requests, NEW p \in Plans, NEW n \in Estimates,
           NEW mandatory \in BOOLEAN, Authorize(q, p, n, mandatory)
    PROVE  Inv' /\ Ledger!Grant(q, n, mandatory)
  <1> DEFINE s == StateFor(p)
             h == [s.held EXCEPT ![q] = n]
             t == Balanced(s, s.spent, h)
  <1>1. /\ s \in Account /\ s.spent = Account0.spent /\ s.held = Account0.held
    BY StateForType DEF Inv
  <1>2. h \in [Requests -> {0} \cup Estimates]  BY <1>1 DEF Account
  <1>3. t \in Account /\ t.spent = s.spent /\ t.held = h
    BY <1>1, <1>2, AccountNumbers, BalancedType
  <1>4. PersistState(t) /\ quiet' = 0  BY DEF Authorize
  <1>5. quiet' \in 0..Ttl  BY <1>4, TimeAssumption
  <1>6. Account0' = t /\ Places' /\ WriteThrough' /\ Waits'  BY <1>3, <1>4, <1>5, Persisted
  <1>7. Rest'  BY <1>5 DEF Authorize, Rest, Inv, TypeOK
  <1>8. Account0.spent + ReservedTotal(Account0.held) + n <= Ceiling(s, mandatory)
    BY <1>1 DEF Authorize, Fits
  <1>9. Ledger!Grant(q, n, mandatory)
    BY <1>1, <1>3, <1>4, <1>6, <1>8, Ceilings DEF Ledger!Grant, Authorize, Inv
  <1>10. TypeOK'  BY <1>6, <1>7 DEF TypeOK, Places, Rest
  <1> QED  BY <1>6, <1>9, <1>10 DEF Inv

LEMMA ConsultStep ==
    ASSUME Inv, NEW p \in Plans, Consult(p), UNCHANGED <<quiet, over, closed>>,
           call' \in [Requests -> {"new", "open", "over"}]
    PROVE  Inv' /\ UNCHANGED Ledger!ledger
  <1>1. /\ Account0'.spent = Account0.spent /\ Account0'.held = Account0.held
        /\ Places' /\ WriteThrough' /\ Waits'
    BY Consulted
  <1>2. Rest'  BY DEF Rest, Inv, TypeOK
  <1>3. TypeOK'  BY <1>1, <1>2 DEF TypeOK, Places, Rest
  <1>4. UNCHANGED Ledger!ledger  BY <1>1 DEF Ledger!ledger
  <1> QED  BY <1>1, <1>3, <1>4 DEF Inv

LEMMA DenyStep ==
    ASSUME Inv, NEW q \in Requests, NEW p \in Plans, NEW n, NEW mandatory,
           Deny(q, p, n, mandatory)
    PROVE  Inv' /\ UNCHANGED Ledger!ledger
  <1>1. call' \in [Requests -> {"new", "open", "over"}]  BY DEF Deny, Inv, TypeOK
  <1> QED  BY <1>1, ConsultStep DEF Deny

LEMMA SnapshotStep ==
    ASSUME Inv, NEW p \in Plans, Snapshot(p)
    PROVE  Inv' /\ UNCHANGED Ledger!ledger
  <1>1. call' \in [Requests -> {"new", "open", "over"}]  BY DEF Snapshot, Inv, TypeOK
  <1> QED  BY <1>1, ConsultStep DEF Snapshot

\* A call is never charged more than its plausible cap, nor the budget more
\* than its limit.
LEMMA SpentAfterBounds ==
    ASSUME NEW s \in Account, NEW q \in Requests, NEW reported \in Nat,
           NEW valid \in BOOLEAN
    PROVE  /\ SpentAfter(s, q, reported, valid) \in Nat
           /\ SpentAfter(s, q, reported, valid) <= s.limit
           /\ s.spent <= SpentAfter(s, q, reported, valid)
           /\ SpentAfter(s, q, reported, valid) <= s.spent + Cap(s.held[q])
  <1> DEFINE limit == s.limit
             spent == s.spent
             held == s.held[q]
             actual == Actual(s, q, reported, valid)
  <1>1. limit \in Nat /\ spent \in Nat /\ spent <= limit /\ held \in Nat
    BY AccountNumbers
  <1>2. Cap(held) \in Nat /\ Cap(held) >= 1 /\ Cap(held) >= held
    BY <1>1, TokensAssumption DEF Cap, Larger
  <1>3. /\ Smaller(Larger(1, held), Larger(0, limit - spent)) \in Nat
        /\ Smaller(Larger(1, held), Larger(0, limit - spent)) <= Cap(held)
    <2> HIDE DEF limit, spent, held
    <2> QED  BY <1>1, <1>2 DEF Smaller, Larger
  <1>5. actual \in Nat /\ actual <= Cap(held)
    BY <1>2, <1>3 DEF Actual
  <1>6. SpentAfter(s, q, reported, valid) = Smaller(limit, spent + actual)
    BY DEF SpentAfter
  <1> HIDE DEF limit, spent, held, actual
  <1>7. /\ Smaller(limit, spent + actual) \in Nat /\ Smaller(limit, spent + actual) <= limit
        /\ spent <= Smaller(limit, spent + actual)
        /\ Smaller(limit, spent + actual) <= spent + Cap(held)
    BY <1>1, <1>2, <1>5 DEF Smaller
  <1> QED  BY <1>6, <1>7 DEF limit, spent, held

LEMMA ChargeStep ==
    ASSUME Inv, NEW q \in Requests, NEW p \in Plans, NEW spent \in Nat,
           StateFor(p).spent <= spent, spent <= StateFor(p).limit,
           spent <= StateFor(p).spent + Cap(StateFor(p).held[q]),
           PersistState(Charged(StateFor(p), q, spent)), quiet' = 0, UNCHANGED closed
    PROVE  Places' /\ WriteThrough' /\ Waits' /\ Ledger!Settle(q)
  <1> DEFINE s == StateFor(p)
             h == [s.held EXCEPT ![q] = 0]
             t == Charged(s, q, spent)
  <1>1. /\ s \in Account /\ s.spent = Account0.spent /\ s.held = Account0.held
        /\ s.limit \in {r.total : r \in Plans}
    BY StateForType DEF Inv
  <1>2. h \in [Requests -> {0} \cup Estimates]  BY <1>1 DEF Account
  <1>3. t \in Account /\ t.spent = spent /\ t.held = h
    BY <1>1, <1>2, BalancedType DEF Charged
  <1>4. quiet' \in 0..Ttl  BY TimeAssumption
  <1>5. Account0' = t /\ Places' /\ WriteThrough' /\ Waits'  BY <1>3, <1>4, Persisted
  <1>6. /\ Account0.spent <= Account0'.spent
        /\ Account0'.spent <= Account0.spent + Cap(Account0.held[q])
        /\ Account0'.held = [Account0.held EXCEPT ![q] = 0]
    BY <1>1, <1>3, <1>5
  <1>7. \E r \in Plans : Account0'.spent <= r.total  BY <1>1, <1>3, <1>5
  <1> QED  BY <1>5, <1>6, <1>7 DEF Ledger!Settle

LEMMA SettleStep ==
    ASSUME Inv, NEW q \in Requests, NEW p \in Plans, NEW reported \in Nat,
           NEW valid \in BOOLEAN, Settle(q, p, reported, valid)
    PROVE  Inv' /\ Ledger!Settle(q)
  <1> DEFINE s == StateFor(p)
             spent == SpentAfter(s, q, reported, valid)
  <1>1. s \in Account  BY StateForType DEF Inv
  <1>2. /\ spent \in Nat /\ s.spent <= spent /\ spent <= s.limit
        /\ spent <= s.spent + Cap(s.held[q])
    BY <1>1, SpentAfterBounds
  <1>3. /\ PersistState(Charged(s, q, spent)) /\ quiet' = 0 /\ UNCHANGED closed
        /\ over' = over + Larger(0, spent - s.spent - s.held[q])
    BY DEF Settle
  <1> HIDE DEF spent
  <1>4. Places' /\ WriteThrough' /\ Waits' /\ Ledger!Settle(q)  BY <1>2, <1>3, ChargeStep
  <1>5. over + Larger(0, spent - s.spent - s.held[q]) \in Nat
    BY <1>1, <1>2, AccountNumbers DEF Inv, TypeOK, Larger
  <1>6. call' \in [Requests -> {"new", "open", "over"}]  BY DEF Settle, Inv, TypeOK
  <1>7. Rest'  BY <1>3, <1>5, <1>6, TimeAssumption DEF Rest, Inv, TypeOK
  <1>8. TypeOK'  BY <1>4, <1>7 DEF TypeOK, Places, Rest
  <1> QED  BY <1>4, <1>8 DEF Inv

LEMMA ReleaseStep ==
    ASSUME Inv, NEW q \in Requests, NEW p \in Plans, Release(q, p)
    PROVE  Inv' /\ Ledger!Settle(q)
  <1> DEFINE s == StateFor(p)
  <1>1. s \in Account  BY StateForType DEF Inv
  <1>2. s.spent \in Nat /\ s.spent <= s.limit /\ s.held[q] \in Nat  BY <1>1, AccountNumbers
  <1>3. Cap(s.held[q]) \in Nat  BY <1>2, TokensAssumption DEF Cap, Larger
  <1>4. s.spent <= s.spent + Cap(s.held[q])  BY <1>2, <1>3, Sums
  <1>5. s.spent <= s.spent  BY <1>2
  <1>6. PersistState(Charged(s, q, s.spent)) /\ quiet' = 0 /\ UNCHANGED <<over, closed>>
    BY DEF Release
  <1>7. Places' /\ WriteThrough' /\ Waits' /\ Ledger!Settle(q)
    BY <1>2, <1>4, <1>5, <1>6, ChargeStep
  <1>8. call' \in [Requests -> {"new", "open", "over"}]  BY DEF Release, Inv, TypeOK
  <1>9. Rest'  BY <1>6, <1>8, TimeAssumption DEF Rest, Inv, TypeOK
  <1>10. TypeOK'  BY <1>7, <1>9 DEF TypeOK, Places, Rest
  <1> QED  BY <1>7, <1>10 DEF Inv

LEMMA NotInMap ==
    ASSUME cached' = FALSE, cache' = NewAccount, age' = 0
    PROVE  /\ Account0' = IF Durable' THEN row' ELSE NewAccount
           /\ WriteThrough'
  BY DEF Account0, Kept, WriteThrough

LEMMA CompleteStep ==
    ASSUME Inv, Complete
    PROVE  Inv' /\ Ledger!Close
  <1>1. /\ cached' = FALSE /\ cache' = NewAccount /\ age' = 0 /\ status' # "active"
        /\ closed' = 1 - closed /\ over' = 0 /\ UNCHANGED <<call, quiet>>
    BY DEF Complete, CompleteRow
  <1>2. Account0' = NewAccount /\ WriteThrough'  BY <1>1, NotInMap DEF Durable
  <1>3. row' \in Account
    <2>1. CASE status = "none"  BY <2>1 DEF Complete, CompleteRow, Inv, TypeOK
    <2>2. CASE status # "none"
      <3>1. row' = Balanced(row, row.spent, NewAccount.held)
        BY <2>2 DEF Complete, CompleteRow
      <3>2. row \in Account /\ NewAccount.held \in [Requests -> {0} \cup Estimates]
        BY NewAccountType DEF Inv, TypeOK, Account
      <3> QED  BY <3>1, <3>2, AccountNumbers, BalancedType
    <2> QED  BY <2>1, <2>2
  <1>4. 0 \in 0..(Ttl + 1)  BY TimeAssumption
  <1>5. Places'
    BY <1>1, <1>3, <1>4, NewAccountType, Lefts DEF Places, Complete, CompleteRow, Inv, TypeOK
  <1>6. 0 <= quiet  BY TimeAssumption DEF Inv, TypeOK
  <1>7. Waits'  BY <1>1, <1>6 DEF Waits
  <1>8. Rest'  BY <1>1 DEF Rest, Inv, TypeOK
  <1>9. TypeOK'  BY <1>5, <1>8 DEF TypeOK, Places, Rest
  <1>10. Ledger!Close
    BY <1>1, <1>2 DEF Ledger!Close, Ledger!Reset, Ledger!None, NewAccount
  <1> QED  BY <1>2, <1>7, <1>9, <1>10 DEF Inv

LEMMA CleanupStep ==
    ASSUME Inv, Cleanup
    PROVE  Inv' /\ UNCHANGED Ledger!ledger
  <1>1. Prune /\ UNCHANGED <<call, quiet, over, closed>>  BY DEF Cleanup
  <1>2. 0 \in 0..(Ttl + 1) /\ 0 <= quiet /\ quiet \in 0..Ttl
    BY TimeAssumption DEF Inv, TypeOK
  <1>3. Durable' = Durable /\ (Durable => row' = row)
    BY <1>1 DEF Prune, Durable
  <1>4. ASSUME Kept
        PROVE Account0' = Account0 /\ Places' /\ WriteThrough' /\ Waits'
    <2>1. UNCHANGED <<cached, cache, age>>  BY <1>4 DEF Cleanup
    <2>2. Account0' = Account0  BY <1>4, <2>1 DEF Account0, Kept
    <2>3. Places'  BY <1>1, <2>1, NewAccountType DEF Places, Prune, Inv, TypeOK
    <2>4. WriteThrough'  BY <1>1, <2>1 DEF WriteThrough, Prune, Inv
    <2>5. left = 0 => quiet = Ttl
      <3>1. status \in {"none", "active"}  BY <1>4 DEF Inv, TypeOK, WriteThrough, Kept
      <3>2. left = 0 /\ status = "active" => quiet >= Ttl
        BY <1>2, TimeAssumption DEF Inv, Waits
      <3>3. quiet >= Ttl => quiet = Ttl  BY <1>2, TimeAssumption
      <3> QED  BY <1>4, <3>1, <3>2, <3>3 DEF Inv, Waits, Kept
    <2>6. Waits'  BY <1>1, <2>1, <2>5 DEF Waits, Prune, Inv
    <2> QED  BY <2>2, <2>3, <2>4, <2>6
  <1>5. ASSUME ~Kept
        PROVE Account0' = Account0 /\ Places' /\ WriteThrough' /\ Waits'
    <2>1. cached' = FALSE /\ cache' = NewAccount /\ age' = 0  BY <1>5 DEF Cleanup
    <2>2. Account0' = Account0  BY <1>3, <1>5, <2>1, NotInMap DEF Account0
    <2>3. Places'
      BY <1>1, <1>2, <2>1, NewAccountType DEF Places, Prune, Inv, TypeOK
    <2>4. WriteThrough'  BY <2>1, NotInMap
    <2>5. Waits'  BY <1>1, <1>2, <2>1 DEF Waits, Prune, Inv
    <2> QED  BY <2>2, <2>3, <2>4, <2>5
  <1>6. Account0' = Account0 /\ Places' /\ WriteThrough' /\ Waits'  BY <1>4, <1>5
  <1>7. Rest'  BY <1>1 DEF Rest, Inv, TypeOK
  <1>8. TypeOK'  BY <1>6, <1>7 DEF TypeOK, Places, Rest
  <1>9. UNCHANGED Ledger!ledger  BY <1>1, <1>6 DEF Ledger!ledger
  <1> QED  BY <1>6, <1>8, <1>9 DEF Inv

LEMMA ExitStep ==
    ASSUME Inv, ProcessExit
    PROVE  /\ Inv'
           /\ UNCHANGED Ledger!ledger \/ Ledger!Forget
  <1>1. /\ cached' = FALSE /\ cache' = NewAccount /\ age' = 0
        /\ UNCHANGED <<status, row, left, quiet, closed>>
    BY DEF ProcessExit
  <1>2. quiet \in 0..Ttl /\ 0 <= quiet /\ 0 \in 0..(Ttl + 1)
    BY TimeAssumption DEF Inv, TypeOK
  <1>3. Account0' = (IF Durable THEN row ELSE NewAccount) /\ WriteThrough'
    BY <1>1, NotInMap DEF Durable
  <1>4. Places'  BY <1>1, <1>2, NewAccountType DEF Places, Inv, TypeOK
  <1>5. Waits'  BY <1>1, <1>2 DEF Waits, Inv
  <1>6. over' \in Nat
    BY TimeAssumption DEF ProcessExit, Forgotten, Inv, TypeOK
  <1>7. Rest'  BY <1>1, <1>6 DEF Rest, ProcessExit, Inv, TypeOK
  <1>8. TypeOK'  BY <1>4, <1>7 DEF TypeOK, Places, Rest
  <1>9. CASE Durable \/ ~Kept
    <2>1. Account0'.spent = Account0.spent /\ Account0'.held = Account0.held
      BY <1>3, <1>9 DEF Account0, Kept, Durable, Inv, WriteThrough
    <2>2. UNCHANGED Ledger!ledger  BY <1>1, <2>1 DEF Ledger!ledger
    <2> QED  BY <1>3, <1>5, <1>8, <2>2 DEF Inv
  <1>10. CASE ~Durable /\ Kept
    <2>1. quiet = Ttl
      <3>1. CASE status = "active"
        <4>1. left = 0
          <5>1. left \in Nat  BY Lefts DEF Inv, TypeOK
          <5> QED  BY <1>10, <3>1, <5>1 DEF Durable
        <4> QED  BY <1>2, <3>1, <4>1, TimeAssumption DEF Inv, Waits
      <3>2. CASE status # "active"
        BY <1>10, <3>2 DEF Inv, TypeOK, WriteThrough, Waits, Kept
      <3> QED  BY <3>1, <3>2
    <2>2. Account0' = NewAccount  BY <1>3, <1>10
    <2>3. Ledger!Forget
      BY <1>1, <2>1, <2>2 DEF Ledger!Forget, Ledger!Reset, Ledger!None, NewAccount
    <2> QED  BY <1>3, <1>5, <1>8, <2>3 DEF Inv
  <1> QED  BY <1>9, <1>10

\* What a tick does to the three times.
LEMMA TickTimes ==
    ASSUME NEW a \in 0..(Ttl + 1), NEW l \in Nat, NEW q \in 0..Ttl
    PROVE  /\ Smaller(a + 1, Ttl + 1) \in 0..(Ttl + 1) /\ Smaller(q + 1, Ttl) \in 0..Ttl
           /\ Larger(0, l - 1) \in Nat /\ Larger(0, l - 1) <= l
           /\ q = Ttl => Smaller(q + 1, Ttl) = Ttl
           /\ q # Ttl => q < Ttl /\ Smaller(q + 1, Ttl) = q + 1
           /\ a <= q => \/ /\ Smaller(a + 1, Ttl + 1) <= Smaller(q + 1, Ttl)
                          /\ a <= Smaller(q + 1, Ttl)
                       \/ Smaller(q + 1, Ttl) = Ttl
           /\ l + q >= Ttl => Larger(0, l - 1) + Smaller(q + 1, Ttl) >= Ttl
           /\ Smaller(a + 1, Ttl + 1) <= Ttl => a <= Ttl
           /\ (a <= q \/ q = Ttl) /\ a <= Ttl /\ ~(Smaller(a + 1, Ttl + 1) <= Ttl)
              => Smaller(q + 1, Ttl) = Ttl
           /\ Larger(0, l - 1) > 0 => l > 0
           /\ l + q >= Ttl /\ l > 0 /\ ~(Larger(0, l - 1) > 0) => Smaller(q + 1, Ttl) = Ttl
  BY TimeAssumption DEF Smaller, Larger

LEMMA TickStep ==
    ASSUME Inv, Tick
    PROVE  /\ Inv'
           /\ UNCHANGED Ledger!ledger \/ Ledger!Forget \/ Ledger!Pass
  <1> DEFINE a == Smaller(age + 1, Ttl + 1)
             l == Larger(0, left - 1)
             t == Smaller(quiet + 1, Ttl)
  <1>1. /\ age' = (IF cached THEN a ELSE age) /\ left' = l /\ quiet' = t
        /\ UNCHANGED <<cached, cache, status, row, call, closed>>
    BY DEF Tick
  <1>2. age \in 0..(Ttl + 1) /\ left \in Nat /\ quiet \in 0..Ttl /\ cached \in BOOLEAN
    BY Lefts DEF Inv, TypeOK
  <1>3. /\ age <= quiet \/ quiet = Ttl
        /\ status = "active" => left + quiet >= Ttl
        /\ cached /\ status = "none" => quiet = Ttl
    BY DEF Inv, Waits
  <1>4. /\ a \in 0..(Ttl + 1) /\ t \in 0..Ttl /\ l \in Nat /\ l <= left
        /\ quiet = Ttl => t = Ttl
        /\ quiet # Ttl => quiet < Ttl /\ t = quiet + 1
        /\ age <= quiet => (a <= t /\ age <= t) \/ t = Ttl
        /\ left + quiet >= Ttl => l + t >= Ttl
        /\ a <= Ttl => age <= Ttl
        /\ (age <= quiet \/ quiet = Ttl) /\ age <= Ttl /\ ~(a <= Ttl) => t = Ttl
        /\ l > 0 => left > 0
        /\ left + quiet >= Ttl /\ left > 0 /\ ~(l > 0) => t = Ttl
    BY <1>2, TickTimes
  <1>5. l \in 0..Larger(Ttl, Retention)
    <2>1. left <= Larger(Ttl, Retention) /\ Larger(Ttl, Retention) \in Nat
      BY Lefts DEF Inv, TypeOK
    <2> HIDE DEF l
    <2> QED  BY <1>2, <1>4, <2>1
  <1> HIDE DEF a, l, t
  <1>6. Places'
    <2>1. age' \in 0..(Ttl + 1)  BY <1>1, <1>2, <1>4
    <2> QED  BY <1>1, <1>5, <2>1 DEF Places, Inv, TypeOK
  <1>7. Waits'
    <2>1. age' <= quiet' \/ quiet' = Ttl
      <3>1. CASE quiet = Ttl  BY <1>1, <1>4, <3>1
      <3>2. CASE age <= quiet
        <4>1. CASE t = Ttl  BY <1>1, <4>1
        <4>2. CASE a <= t /\ age <= t  BY <1>1, <1>2, <4>2
        <4> QED  BY <1>4, <3>2, <4>1, <4>2
      <3> QED  BY <1>3, <3>1, <3>2
    <2>2. status' = "active" => left' + quiet' >= Ttl  BY <1>1, <1>3, <1>4
    <2>3. cached' /\ status' = "none" => quiet' = Ttl  BY <1>1, <1>3, <1>4
    <2> QED  BY <2>1, <2>2, <2>3 DEF Waits
  <1>8. WriteThrough'  BY <1>1 DEF WriteThrough, Inv
  <1>9. over' \in Nat  BY TimeAssumption DEF Tick, Forgotten, Inv, TypeOK
  <1>10. Rest'  BY <1>1, <1>4, <1>9 DEF Rest, Inv, TypeOK
  <1>11. TypeOK'  BY <1>6, <1>10 DEF TypeOK, Places, Rest
  <1>12. Inv'  BY <1>7, <1>8, <1>11 DEF Inv
  <1>13. \/ Account0'.spent = Account0.spent /\ Account0'.held = Account0.held
         \/ Account0' = NewAccount /\ t = Ttl
    <2>1. Kept' <=> cached /\ a <= Ttl  BY <1>1, <1>2 DEF Kept
    <2>2. Durable' <=> status = "active" /\ l > 0  BY <1>1 DEF Durable
    <2>3. Kept' => Kept  BY <1>4, <2>1 DEF Kept
    <2>4. Durable' => Durable  BY <1>4, <2>2 DEF Durable
    <2>5. CASE Kept'  BY <1>1, <2>3, <2>5 DEF Account0
    <2>6. CASE ~Kept' /\ Durable'
      BY <1>1, <2>4, <2>6 DEF Account0, Inv, WriteThrough, Kept, Durable
    <2>7. CASE ~Kept' /\ ~Durable'
      <3>1. Account0' = NewAccount  BY <2>7 DEF Account0
      <3>2. CASE Kept  BY <1>3, <1>4, <2>1, <2>7, <3>1, <3>2 DEF Kept
      <3>3. CASE Durable  BY <1>3, <1>4, <2>2, <2>7, <3>1, <3>3 DEF Durable
      <3>4. CASE ~Kept /\ ~Durable  BY <3>1, <3>4 DEF Account0
      <3> QED  BY <3>2, <3>3, <3>4
    <2> QED  BY <2>5, <2>6, <2>7
  <1>14. CASE quiet = Ttl
    <2>1. quiet' = quiet  BY <1>1, <1>4, <1>14
    <2> QED
      BY <1>1, <1>12, <1>13, <1>14, <2>1
      DEF Ledger!ledger, Ledger!Forget, Ledger!Reset, Ledger!None, NewAccount
  <1>15. CASE quiet # Ttl
    BY <1>1, <1>4, <1>12, <1>13, <1>15 DEF Ledger!Pass, Ledger!Reset, Ledger!None, NewAccount
  <1> QED  BY <1>14, <1>15

-----------------------------------------------------------------------------
(* The specification *)

LEMMA Initial == Init => Inv /\ Ledger!Init
  <1> SUFFICES ASSUME Init PROVE Inv /\ Ledger!Init
    OBVIOUS
  <1> USE DEF Init
  <1>1. 0 \in 0..Larger(Ttl, Retention) /\ 0 \in 0..(Ttl + 1) /\ 0 \in 0..Ttl
    BY Lefts, TimeAssumption
  <1>2. TypeOK  BY <1>1, NewAccountType DEF TypeOK
  <1>3. WriteThrough /\ Waits  BY DEF WriteThrough, Waits
  <1>4. Account0 = NewAccount  BY DEF Account0, Kept, Durable
  <1> QED  BY <1>2, <1>3, <1>4 DEF Inv, Ledger!Init, Ledger!None, NewAccount

LEMMA Step == Inv /\ [Next]_vars => Inv' /\ [Ledger!Next]_(Ledger!ledger)
  <1> SUFFICES ASSUME Inv, [Next]_vars
               PROVE  Inv' /\ [Ledger!Next]_(Ledger!ledger)
    OBVIOUS
  <1>1. ASSUME NEW q \in Requests, NEW p \in Plans, NEW n \in Estimates, NEW mandatory \in BOOLEAN,
               Authorize(q, p, n, mandatory)
        PROVE  Inv' /\ [Ledger!Next]_(Ledger!ledger)
    BY <1>1, AuthorizeStep DEF Ledger!Next
  <1>2. ASSUME NEW q \in Requests, NEW p \in Plans, NEW n \in Estimates, NEW mandatory \in BOOLEAN,
               Deny(q, p, n, mandatory)
        PROVE  Inv' /\ [Ledger!Next]_(Ledger!ledger)
    BY <1>2, DenyStep
  <1>3. ASSUME NEW q \in Requests, NEW p \in Plans, NEW reported \in Reports, NEW valid \in BOOLEAN,
               Settle(q, p, reported, valid)
        PROVE  Inv' /\ [Ledger!Next]_(Ledger!ledger)
    BY <1>3, SettleStep, TokensAssumption DEF Ledger!Next
  <1>4. ASSUME NEW q \in Requests, NEW p \in Plans, Release(q, p)
        PROVE  Inv' /\ [Ledger!Next]_(Ledger!ledger)
    BY <1>4, ReleaseStep DEF Ledger!Next
  <1>5. ASSUME NEW p \in Plans, Snapshot(p)
        PROVE  Inv' /\ [Ledger!Next]_(Ledger!ledger)
    BY <1>5, SnapshotStep
  <1>6. CASE Complete  BY <1>6, CompleteStep DEF Ledger!Next
  <1>7. CASE Cleanup  BY <1>7, CleanupStep
  <1>8. CASE ProcessExit  BY <1>8, ExitStep DEF Ledger!Next
  <1>9. CASE Tick  BY <1>9, TickStep DEF Ledger!Next
  <1>10. CASE UNCHANGED vars
    <2>1. TypeOK' /\ WriteThrough' /\ Waits'
      BY <1>10 DEF vars, Inv, TypeOK, WriteThrough, Waits
    <2>2. Account0' = Account0  BY <1>10 DEF vars, Account0, Kept, Durable
    <2>3. UNCHANGED Ledger!ledger  BY <1>10, <2>2 DEF vars, Ledger!ledger
    <2> QED  BY <2>1, <2>3 DEF Inv
  <1> QED
    BY <1>1, <1>2, <1>3, <1>4, <1>5, <1>6, <1>7, <1>8, <1>9, <1>10 DEF Next

LEMMA InvHolds == Spec => []Inv
  BY Initial, Step, PTL DEF Spec

\* The map and the row hold accounts of the budget's plans, and no account is
\* spent beyond its limit (persistState, settleTokenSpend).
THEOREM TypeCorrect == Spec => []TypeOK
  <1>1. Inv => TypeOK  BY DEF Inv
  <1> QED  BY <1>1, InvHolds, PTL

\* The map and the row never disagree about a live budget (stateFor restores and
\* persists; completeTokenBudget).
THEOREM WriteThroughHolds == Spec => []WriteThrough
  <1>1. Inv => WriteThrough  BY DEF Inv
  <1> QED  BY <1>1, InvHolds, PTL

\* The governor implements TokenLedger: grants count every call under way, and
\* a grant or a charge is lost to no restart, expiry or clean-up of the hour.
THEOREM ImplementsLedger == Spec => Implements
  BY Initial, Step, InvHolds, PTL DEF Spec, Implements, Ledger!Spec

-----------------------------------------------------------------------------
(* What is held *)

\* The tokens of a request are as many as it holds.
LEMMA TokensOfOne ==
    ASSUME NEW q, NEW n \in Nat
    PROVE  IsFiniteSet({q} \X (1..n)) /\ Cardinality({q} \X (1..n)) = n
  <1>1. IsFiniteSet({q}) /\ Cardinality({q}) = 1  BY FS_Singleton
  <1>2. IsFiniteSet(1..n) /\ Cardinality(1..n) = n  BY FS_Interval
  <1>3. /\ IsFiniteSet({q} \X (1..n))
        /\ Cardinality({q} \X (1..n)) = Cardinality({q}) * Cardinality(1..n)
    BY <1>1, <1>2, FS_Product
  <1> QED  BY <1>1, <1>2, <1>3

\* What a request holds counts once, whatever the others hold.
LEMMA TokensChanged ==
    ASSUME NEW h \in [Requests -> Nat], NEW q \in Requests, NEW n \in Nat, IsFiniteSet(Tokens(h))
    PROVE  /\ IsFiniteSet(Tokens([h EXCEPT ![q] = n]))
           /\ ReservedTotal([h EXCEPT ![q] = n]) = ReservedTotal(h) - h[q] + n
           /\ ReservedTotal(h) \in Nat
  <1> DEFINE rest == UNION {{r} \X (1..h[r]) : r \in Requests \ {q}}
             mine(m) == {q} \X (1..m)
             g == [h EXCEPT ![q] = n]
  <1>1. Tokens(h) = rest \cup mine(h[q]) /\ Tokens(g) = rest \cup mine(n)
    <2>1. g[q] = n /\ \A r \in Requests \ {q} : g[r] = h[r]  OBVIOUS
    <2> HIDE DEF g
    <2>2. Tokens(h) = rest \cup mine(h[q])  BY DEF Tokens
    <2>3. Tokens(g) = rest \cup mine(n)
      <3>1. \A r \in Requests : {r} \X (1..g[r]) = IF r = q THEN mine(n) ELSE {r} \X (1..h[r])
        BY <2>1
      <3> QED  BY <3>1 DEF Tokens
    <2> QED  BY <2>2, <2>3
  <1>2. \A m \in Nat : rest \cap mine(m) = {}  OBVIOUS
  <1>3. h[q] \in Nat  OBVIOUS
  <1>4. \A m \in Nat : IsFiniteSet(mine(m)) /\ Cardinality(mine(m)) = m  BY TokensOfOne
  <1> HIDE DEF rest, mine, g
  <1>5. IsFiniteSet(rest) /\ Cardinality(rest) \in Nat
    <2>1. rest \in SUBSET Tokens(h)  BY <1>1
    <2> QED  BY <2>1, FS_Subset, FS_CardinalityType
  <1>6. ASSUME NEW m \in Nat
        PROVE  /\ IsFiniteSet(rest \cup mine(m))
               /\ Cardinality(rest \cup mine(m)) = Cardinality(rest) + m
    <2>1. /\ IsFiniteSet(rest \cup mine(m))
          /\ Cardinality(rest \cup mine(m))
                = Cardinality(rest) + Cardinality(mine(m)) - Cardinality(rest \cap mine(m))
      BY <1>4, <1>5, FS_Union
    <2>2. Cardinality(rest \cap mine(m)) = 0  BY <1>2, FS_EmptySet
    <2> QED  BY <1>4, <1>5, <2>1, <2>2
  <1>7. ReservedTotal(h) = Cardinality(rest) + h[q] /\ ReservedTotal(g) = Cardinality(rest) + n
    BY <1>1, <1>3, <1>6 DEF ReservedTotal
  <1>8. IsFiniteSet(Tokens(g))  BY <1>1, <1>6
  <1> QED  BY <1>3, <1>5, <1>7, <1>8 DEF g

LEMMA NothingHeld ==
    IsFiniteSet(Tokens(NewAccount.held)) /\ ReservedTotal(NewAccount.held) = 0
  <1>1. \A q \in Requests : NewAccount.held[q] = 0  BY DEF NewAccount
  <1>2. Tokens(NewAccount.held) = {}  BY <1>1 DEF Tokens
  <1> QED  BY <1>2, FS_EmptySet DEF ReservedTotal

-----------------------------------------------------------------------------
(* Nothing is overdrawn *)

\* An account pays for what is spent and held, but for what was charged beyond.
Covered(s) == IsFiniteSet(Tokens(s.held)) /\ s.spent + ReservedTotal(s.held) <= s.limit + over

Funded == (Kept => Covered(cache)) /\ (Durable => Covered(row))

LEMMA StateForCovered ==
    ASSUME Inv, Funded, NEW p \in Plans
    PROVE  Covered(Account0) /\ Covered(StateFor(p))
  <1>1. over \in Nat /\ Account0 \in Account  BY Account0Type DEF Inv, TypeOK
  <1>2. Covered(Account0)
    <2>1. CASE Kept \/ Durable  BY <2>1 DEF Funded, Account0
    <2>2. CASE ~Kept /\ ~Durable
      <3>1. Account0 = NewAccount  BY <2>2 DEF Account0
      <3>2. NewAccount.spent = 0 /\ NewAccount.limit = 0  BY DEF NewAccount
      <3> QED  BY <1>1, <3>1, <3>2, NothingHeld DEF Covered
    <2> QED  BY <2>1, <2>2
  <1>3. StateFor(p).spent = Account0.spent /\ StateFor(p).held = Account0.held
    BY StateForType DEF Inv
  <1>4. StateFor(p).limit \in Nat /\ StateFor(p).limit >= Account0.limit
    BY <1>1, AccountNumbers, PlanNumbers DEF StateFor, Larger
  <1>5. Account0.spent \in Nat /\ Account0.limit \in Nat  BY <1>1, AccountNumbers
  <1>6. ReservedTotal(Account0.held) \in Nat  BY <1>2, FS_CardinalityType DEF Covered, ReservedTotal
  <1>7. Covered(StateFor(p))  BY <1>1, <1>2, <1>3, <1>4, <1>5, <1>6 DEF Covered
  <1> QED  BY <1>2, <1>7

\* The map and the row are written with the same account.
LEMMA PersistFunded ==
    ASSUME NEW s, PersistState(s), IsFiniteSet(Tokens(s.held)),
           s.spent + ReservedTotal(s.held) <= s.limit + over'
    PROVE  Funded'
  <1>1. cache' = s /\ row' = s  BY DEF PersistState, Remember
  <1>2. Covered(cache)' /\ Covered(row)'  BY <1>1 DEF Covered
  <1> QED  BY <1>2 DEF Funded

\* The balance of an account after one request's share of it has changed.
LEMMA Rebalanced ==
    ASSUME NEW s \in Account, NEW q \in Requests, NEW n \in {0} \cup Estimates, NEW spent \in Nat,
           IsFiniteSet(Tokens(s.held))
    PROVE  LET t == Balanced(s, spent, [s.held EXCEPT ![q] = n])
           IN  /\ t.spent = spent /\ t.limit = s.limit /\ IsFiniteSet(Tokens(t.held))
               /\ ReservedTotal(t.held) = ReservedTotal(s.held) - s.held[q] + n
               /\ ReservedTotal(s.held) \in Nat /\ s.held[q] \in Nat /\ n \in Nat
  <1> DEFINE h == s.held
  <1>1. h \in [Requests -> Nat] /\ n \in Nat
    <2>1. h \in [Requests -> {0} \cup Estimates]  BY DEF Account
    <2>2. {0} \cup Estimates \subseteq Nat  BY TokensAssumption
    <2> QED  BY <2>1, <2>2
  <1> HIDE DEF h
  <1>2. /\ IsFiniteSet(Tokens([h EXCEPT ![q] = n]))
        /\ ReservedTotal([h EXCEPT ![q] = n]) = ReservedTotal(h) - h[q] + n
        /\ ReservedTotal(h) \in Nat
    BY <1>1, TokensChanged DEF h
  <1>3. h[q] \in Nat  BY <1>1
  <1> QED  BY <1>1, <1>2, <1>3 DEF h, Balanced

LEMMA ConsultFunded ==
    ASSUME Inv, Funded, NEW p \in Plans, Consult(p), UNCHANGED over
    PROVE  Funded'
  <1>1. Covered(StateFor(p))  BY StateForCovered
  <1>2. CASE ~Kept
    <2>1. PersistState(StateFor(p))  BY <1>2 DEF Consult
    <2> QED  BY <1>1, <2>1, PersistFunded DEF Covered
  <1>3. CASE Kept
    <2>1. cache' = StateFor(p) /\ Prune  BY <1>3 DEF Consult, KeepState, Remember
    <2>2. Covered(cache)'  BY <1>1, <2>1 DEF Covered
    <2>3. Durable' => Durable /\ row' = row  BY <2>1 DEF Prune, Durable
    <2>4. Durable' => Covered(row)'  BY <2>3 DEF Funded, Covered
    <2> QED  BY <2>2, <2>4 DEF Funded
  <1> QED  BY <1>2, <1>3

LEMMA AuthorizeFunded ==
    ASSUME Inv, Funded, NEW q \in Requests, NEW p \in Plans, NEW n \in Estimates,
           NEW mandatory \in BOOLEAN, Authorize(q, p, n, mandatory)
    PROVE  Funded'
  <1> DEFINE s == StateFor(p)
             t == Balanced(s, s.spent, [s.held EXCEPT ![q] = n])
  <1>1. s \in Account /\ Covered(s) /\ over \in Nat
    BY StateForType, StateForCovered DEF Inv, TypeOK
  <1>2. PersistState(t) /\ over' = over /\ Fits(s, n, mandatory)  BY DEF Authorize
  <1>3. s.spent \in Nat /\ s.limit \in Nat /\ s.reserve \in Nat  BY <1>1, AccountNumbers
  <1> HIDE DEF s
  <1>4. /\ t.spent = s.spent /\ t.limit = s.limit /\ IsFiniteSet(Tokens(t.held))
        /\ ReservedTotal(t.held) = ReservedTotal(s.held) - s.held[q] + n
        /\ ReservedTotal(s.held) \in Nat /\ s.held[q] \in Nat /\ n \in Nat
    BY <1>1, <1>3, Rebalanced DEF Covered
  <1>5. s.spent + ReservedTotal(s.held) + n <= s.limit
    BY <1>2, <1>3, <1>4 DEF Fits, Ceiling
  <1> HIDE DEF t
  <1>6. t.spent + ReservedTotal(t.held) <= t.limit + over'
    BY <1>1, <1>2, <1>3, <1>4, <1>5
  <1> QED  BY <1>2, <1>4, <1>6, PersistFunded

\* What is charged beyond a reservation is counted in over.
LEMMA ChargedFunded ==
    ASSUME Inv, Funded, NEW q \in Requests, NEW p \in Plans, NEW spent \in Nat,
           PersistState(Charged(StateFor(p), q, spent)), StateFor(p).spent <= spent,
           over' = over + Larger(0, spent - StateFor(p).spent - StateFor(p).held[q])
    PROVE  Funded'
  <1> DEFINE s == StateFor(p)
             t == Charged(s, q, spent)
  <1>1. s \in Account /\ Covered(s) /\ over \in Nat
    BY StateForType, StateForCovered DEF Inv, TypeOK
  <1>2. PersistState(t) /\ over' = over + Larger(0, spent - s.spent - s.held[q])  OBVIOUS
  <1>3. s.spent \in Nat /\ s.limit \in Nat  BY <1>1, AccountNumbers
  <1> HIDE DEF s
  <1>4. /\ t.spent = spent /\ t.limit = s.limit /\ IsFiniteSet(Tokens(t.held))
        /\ ReservedTotal(t.held) = ReservedTotal(s.held) - s.held[q] + 0
        /\ ReservedTotal(s.held) \in Nat /\ s.held[q] \in Nat
    <2>1. 0 \in {0} \cup Estimates  OBVIOUS
    <2> QED  BY <1>1, <2>1, Rebalanced DEF Covered, Charged
  <1> HIDE DEF t
  <1>5. s.spent + ReservedTotal(s.held) <= s.limit + over  BY <1>1 DEF Covered
  <1>6. t.spent + ReservedTotal(t.held) <= t.limit + over'
    BY <1>1, <1>2, <1>3, <1>4, <1>5 DEF Larger
  <1> QED  BY <1>2, <1>4, <1>6, PersistFunded

\* Where the map or the row is no longer read, the other keeps what it had.
LEMMA LapsedFunded ==
    ASSUME Funded, Kept' => Kept /\ cache' = cache, Durable' => Durable /\ row' = row,
           Kept' \/ Durable' => over' = over
    PROVE  Funded'
  BY DEF Funded, Covered

LEMMA StepFunded == Inv /\ Funded /\ [Next]_vars => Funded'
  <1> SUFFICES ASSUME Inv, Funded, [Next]_vars PROVE Funded'  OBVIOUS
  <1>1. ASSUME NEW q \in Requests, NEW p \in Plans, NEW n \in Estimates, NEW mandatory \in BOOLEAN,
               Authorize(q, p, n, mandatory)
        PROVE  Funded'
    BY <1>1, AuthorizeFunded
  <1>2. ASSUME NEW q \in Requests, NEW p \in Plans, NEW n \in Estimates, NEW mandatory \in BOOLEAN,
               Deny(q, p, n, mandatory)
        PROVE  Funded'
    BY <1>2, ConsultFunded DEF Deny
  <1>3. ASSUME NEW q \in Requests, NEW p \in Plans, NEW reported \in Reports, NEW valid \in BOOLEAN,
               Settle(q, p, reported, valid)
        PROVE  Funded'
    <2> DEFINE spent == SpentAfter(StateFor(p), q, reported, valid)
    <2>1. StateFor(p) \in Account  BY StateForType DEF Inv
    <2>2. spent \in Nat /\ StateFor(p).spent <= spent
      BY <2>1, SpentAfterBounds, TokensAssumption
    <2>3. /\ PersistState(Charged(StateFor(p), q, spent))
          /\ over' = over + Larger(0, spent - StateFor(p).spent - StateFor(p).held[q])
      BY <1>3 DEF Settle
    <2> HIDE DEF spent
    <2> QED  BY <2>2, <2>3, ChargedFunded
  <1>4. ASSUME NEW q \in Requests, NEW p \in Plans, Release(q, p) PROVE Funded'
    <2> DEFINE spent == StateFor(p).spent
    <2>1. StateFor(p) \in Account  BY StateForType DEF Inv
    <2>2. spent \in Nat /\ StateFor(p).held[q] \in Nat /\ over \in Nat
      BY <2>1, AccountNumbers DEF Inv, TypeOK
    <2>3. PersistState(Charged(StateFor(p), q, spent)) /\ over' = over  BY <1>4 DEF Release
    <2>4. over' = over + Larger(0, spent - StateFor(p).spent - StateFor(p).held[q])
      BY <2>2, <2>3 DEF Larger
    <2>5. StateFor(p).spent <= spent  BY <2>2
    <2> HIDE DEF spent
    <2> QED  BY <2>2, <2>3, <2>4, <2>5, ChargedFunded
  <1>5. ASSUME NEW p \in Plans, Snapshot(p) PROVE Funded'
    BY <1>5, ConsultFunded DEF Snapshot
  <1>6. CASE Complete
    BY <1>6 DEF Complete, CompleteRow, Funded, Kept, Durable
  <1>7. CASE Cleanup
    BY <1>7, LapsedFunded DEF Cleanup, Prune, Kept, Durable
  <1>8. CASE ProcessExit
    BY <1>8, LapsedFunded DEF ProcessExit, Forgotten, Kept, Durable
  <1>9. CASE Tick
    <2>1. /\ UNCHANGED <<cached, cache, status, row>> /\ left' = Larger(0, left - 1)
          /\ age' = (IF cached THEN Smaller(age + 1, Ttl + 1) ELSE age)
          /\ over' = IF Kept' \/ Durable' THEN over ELSE 0
      BY <1>9 DEF Tick, Forgotten
    <2>2. left \in Nat /\ age \in 0..(Ttl + 1) /\ Ttl \in Nat
      BY Lefts, TimeAssumption DEF Inv, TypeOK
    <2>3. Kept' => Kept  BY <2>1, <2>2 DEF Kept, Smaller
    <2>4. Durable' => Durable  BY <2>1, <2>2 DEF Durable, Larger
    <2> QED  BY <2>1, <2>3, <2>4, LapsedFunded
  <1>10. CASE UNCHANGED vars
    BY <1>10, LapsedFunded DEF vars, Kept, Durable
  <1> QED
    BY <1>1, <1>2, <1>3, <1>4, <1>5, <1>6, <1>7, <1>8, <1>9, <1>10 DEF Next

LEMMA FundedHolds == Spec => []Funded
  <1>1. Init => Funded  BY DEF Init, Funded, Kept, Durable
  <1> QED  BY <1>1, StepFunded, InvHolds, PTL DEF Spec

\* Calls under way together never hold more than the spent tokens leave of the
\* limit, beyond what settled calls were charged above their reservations: for
\* any number of parallel calls, and for every restart, expiry and clean-up
\* between an authorization and its settlement (authorizeTokenSpend,
\* settleTokenSpend, stateFor).
THEOREM NoOverdraftHolds == Spec => []NoOverdraft
  <1>1. Inv /\ Funded => NoOverdraft
    <2> SUFFICES ASSUME Inv, Funded PROVE NoOverdraft  OBVIOUS
    <2>1. CASE Kept \/ Durable  BY <2>1 DEF Funded, Account0, Covered, NoOverdraft
    <2>2. CASE ~Kept /\ ~Durable
      <3>1. Account0.spent = 0 /\ Account0.limit = 0 /\ ReservedTotal(Account0.held) = 0
        BY <2>2, NothingHeld DEF Account0, NewAccount
      <3> QED  BY <3>1 DEF NoOverdraft, Inv, TypeOK
    <2> QED  BY <2>1, <2>2
  <1> QED  BY <1>1, InvHolds, FundedHolds, PTL

=============================================================================
