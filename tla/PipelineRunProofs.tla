-------------------------- MODULE PipelineRunProofs --------------------------
(***************************************************************************)
(* Theorems about PipelineRun, for any number of requests, sessions, worker *)
(* leases and Idempotency-Keys and for every kind of request: its types,   *)
(* that only what the reviewers let through is released, that a key stands *)
(* for one execution, that rows, sessions and the ledger tell what became  *)
(* of a run, and that an outcome is never changed.                         *)
(*                                                                         *)
(* The invariants say something of runs that are over and of records that  *)
(* are complete.  What makes them inductive is what they say meanwhile: at *)
(* each stage, of which version a reviewer has spoken, and while a         *)
(* pipeline is under way, that the record of its key is its own.           *)
(***************************************************************************)
EXTENDS PipelineRun, TLAPS

-----------------------------------------------------------------------------
(* The inductive invariant *)

Results == {"none", "done", "needs_input", "blocked", "failed"}

Pipe == [at : Stages, key : Keys \cup {NoKey}, sid : Sessions \cup {NoSession}, route : RouteType,
         coding : Codings, draft : 0..3, tries : 0..1, judged : Verdicts, passed : 0..3,
         blocked : 0..3, boss : BossVerdicts, approved : 0..3, result : Results, term : Nat]

Lease == [sid : Sessions \cup {NoSession}, status : LeaseStatus, call : BOOLEAN]

Record == [status : {"none", "running", "complete", "failed"},
           body : {"none"} \cup {a.body : a \in Arrivals}, by : Requests \cup {NoKey}]

Codes == {0, 200, 409, 422, 500, 502}

Typed ==
    /\ run \in [Requests -> RunStatus] /\ session \in [Sessions -> SessionStatus]
    /\ lease \in [Leases -> Lease] /\ idem \in [Keys -> Record]
    /\ p \in [Requests -> Pipe] /\ reply \in [Requests -> Codes]
    /\ ledger \in [Requests -> Seq(Passport)]
    /\ alive \in BOOLEAN /\ outside \in 0..MaxOutside /\ exits \in 0..MaxExits
    /\ term \in [Keys -> Nat]

\* What the reviewers have said allows the version to be answered with a status.
Releasable(x, status) ==
    /\ status \in {"done", "needs_input"} => x.draft # x.blocked
    /\ status = "done" /\ x.route.verifier =>
          x.draft \in {x.passed, x.approved} \/ (x.judged = "none" /\ ~x.route.mandatory)

\* The last verdict is about the present version.
Present(x) ==
    /\ x.judged = "pass" => x.passed = x.draft
    /\ x.judged = "block" => x.blocked = x.draft
    /\ x.judged # "block" => x.blocked = 0
    /\ x.judged = "none" => ~(x.route.verifier /\ x.route.mandatory)
    /\ ~x.route.verifier => x.judged = "none"

Unreviewed(x) == x.passed = 0 /\ x.blocked = 0 /\ x.boss = "none" /\ x.approved = 0

\* Of which version a reviewer has spoken, at each stage.
Reviewed(x) ==
    /\ x.at \in {"prepare", "workers", "host"} =>
          x.draft = 0 /\ x.tries = 0 /\ x.judged = "none" /\ Unreviewed(x)
    /\ x.at \in {"verify", "revise"} =>
          /\ x.route.verifier /\ x.draft = x.tries + 1
          /\ x.judged \in {"none", "revise"} /\ Unreviewed(x)
    /\ x.at = "revise" => x.tries = 0
    /\ x.at = "boss" =>
          x.draft \in 1..2 /\ Present(x) /\ x.boss = "none" /\ x.approved = 0
    /\ x.at \in {"delegate", "bossRevise"} =>
          /\ x.draft \in 1..2 /\ x.blocked <= x.draft /\ x.boss \in {"revise", "delegate"}
          /\ ~x.route.verifier => x.judged = "none" /\ x.blocked = 0
    /\ x.at = "finalVerify" =>
          /\ x.route.verifier /\ x.draft \in 2..3 /\ x.blocked < x.draft
          /\ x.boss \in {"revise", "delegate"}
    /\ x.at = "persist" => x.draft \in 1..3 /\ Releasable(x, Outcome(x))
    /\ Releasable(x, x.result)
    /\ x.result # "none" => x.at = "over"

\* The record of a key is its latest claimant's, and runs with it.
Claimed(q) == p[q].key # NoKey =>
    /\ p[q].term <= term[p[q].key]
    /\ p[q].term = term[p[q].key] => idem[p[q].key].status # "none" /\ idem[p[q].key].by = q
    /\ p[q].at \in Waiting => p[q].term = term[p[q].key] /\ idem[p[q].key].status = "running"

\* The run row and the ledger of a request that has not come to its end.
Rowed(q) ==
    /\ p[q].at = "idle" => p[q] = Idle /\ run[q] = "none"
    /\ p[q].at \in Waiting => run[q] \in {"running", "abandoned"}
    /\ ledger[q] # <<>> => p[q].at = "over" /\ run[q] \in {"done", "blocked", "failed"}

\* RunRowTruth and LedgerTruth, of one request.
Truth(q) ==
    /\ alive /\ run[q] = "running" => p[q].at \in Waiting
    /\ p[q].result = "done" => ledger[q] # <<>>
    /\ \A i \in 1..Len(ledger[q]) : ledger[q][i].verdict =
          IF p[q].result = "done" THEN IF p[q].draft > 1 THEN "revised" ELSE "success"
          ELSE run[q]

Turn(q) == Reviewed(p[q]) /\ Claimed(q) /\ Rowed(q) /\ Truth(q)

\* RecordFollowsRun, of one key, and whose record it is.
Recorded(k) ==
    LET q == idem[k].by
    IN  idem[k].status # "none" =>
          /\ q \in Requests /\ p[q].key = k
          /\ idem[k].status = "complete" => p[q].at = "over" /\ run[q] = "done"
                                            /\ p[q].result \in {"none", "done"}
          /\ idem[k].status = "failed" => p[q].at = "over" /\ p[q].result # "done"
          /\ idem[k].status = "running" => p[q].at \in Waiting \cup {"lost"}

\* SessionSettled, of one session.
Settled(s) ==
    /\ outside = 0 /\ exits = 0
    /\ \A q \in Requests : p[q].at \in Waiting => p[q].sid # s
    => session[s] \in {"none", "done", "failed"}

\* Workers are dispatched by calls of their own only.
NoLeases == outside = 0 => \A w \in Leases : lease[w].status = "none" /\ ~lease[w].call

Inv ==
    /\ Typed
    /\ \A q \in Requests : Turn(q)
    /\ \A k \in Keys : Recorded(k)
    /\ OneExecution
    /\ NoLeases /\ \A s \in Sessions : Settled(s)

\* OutcomeKept, of one step.
OutcomeStep ==
    \A q \in Requests : run[q] \in {"done", "blocked", "failed"} => run'[q] = run[q]

Kept == Inv' /\ OutcomeStep

USE BoundsAssumption, NamesAssumption

-----------------------------------------------------------------------------
(* A pipeline that goes on *)

Same(x, y) == y.key = x.key /\ y.sid = x.sid /\ y.term = x.term

\* What is true of the other requests and of the keys they do not share.
LEMMA OthersTurn ==
    ASSUME NEW q \in Requests, Turn(q), UNCHANGED <<p[q], run[q], ledger[q], term, alive>>,
           p[q].key # NoKey => UNCHANGED idem[p[q].key]
    PROVE  Turn(q)'
  BY DEF Turn, Claimed, Rowed, Truth, Reviewed, Releasable, Present, Unreviewed, Outcome

\* One pipeline has moved, and nothing else is different for the others.
LEMMA MoveStep ==
    ASSUME Inv, NEW q \in Requests, alive, p[q].at \in Waiting,
           NEW y \in Pipe, y.at \in Waiting, Same(p[q], y), y.result = "none", Reviewed(y),
           p' = [p EXCEPT ![q] = y],
           session' \in [Sessions -> SessionStatus],
           \A s \in Sessions : s # p[q].sid => session'[s] = session[s],
           UNCHANGED <<run, idem, reply, ledger, lease, alive, outside, exits, term>>
    PROVE  Kept
  <1>1. p'[q] = y /\ \A r \in Requests \ {q} : p'[r] = p[r]  BY DEF Inv, Typed
  <1>2. Typed'  BY DEF Inv, Typed
  <1>3. ASSUME NEW r \in Requests \ {q} PROVE Turn(r)'  BY <1>1, OthersTurn DEF Inv
  <1>4. Turn(q)'
    <2>1. Turn(q)  BY DEF Inv
    <2>2. ledger[q] = <<>>  BY <2>1 DEF Turn, Rowed, Waiting
    <2>3. Claimed(q)'  BY <1>1, <2>1 DEF Turn, Claimed, Same
    <2>4. Rowed(q)'  BY <1>1, <2>1 DEF Turn, Rowed, Waiting
    <2>5. Truth(q)'  BY <1>1, <2>1, <2>2 DEF Turn, Truth
    <2>6. Reviewed(p[q])'  BY <1>1 DEF Reviewed, Releasable, Present, Unreviewed, Outcome
    <2> QED  BY <2>3, <2>4, <2>5, <2>6 DEF Turn
  <1>5. ASSUME NEW k \in Keys PROVE Recorded(k)'
    <2>1. Recorded(k)  BY DEF Inv
    <2>2. CASE idem[k].by = q  BY <1>1, <2>1, <2>2 DEF Recorded, Waiting, Same
    <2>3. CASE idem[k].by # q  BY <1>1, <2>1, <2>3 DEF Recorded
    <2> QED  BY <2>2, <2>3
  <1>6. OneExecution'  BY <1>1 DEF Inv, OneExecution, Same
  <1>7. NoLeases'  BY DEF Inv, NoLeases
  <1>8. ASSUME NEW s \in Sessions PROVE Settled(s)'
    <2>1. Settled(s)  BY DEF Inv
    <2> QED  BY <1>1, <2>1 DEF Settled, Same
  <1>9. OutcomeStep  BY DEF OutcomeStep
  <1> QED  BY <1>2, <1>3, <1>4, <1>5, <1>6, <1>7, <1>8, <1>9 DEF Kept, Inv

LEMMA IdlePipe == Idle \in Pipe
  <1>1. NoRoute \in RouteType  BY DEF NoRoute, RouteType
  <1>2. "idle" \in Stages /\ "none" \in Codings /\ "none" \in Verdicts /\ "none" \in BossVerdicts
        /\ "none" \in Results
    BY DEF Stages, Codings, Verdicts, BossVerdicts, Results
  <1> QED  BY <1>1, <1>2 DEF Idle, Pipe

\* What a pipeline that is over leaves of its locals.
LEMMA OverPipe ==
    ASSUME NEW x \in Pipe, NEW status \in Results \ {"none"}, x.result = "none", Releasable(x, status)
    PROVE  /\ Over(x, status) \in Pipe
           /\ Over(x, status).key = x.key /\ Over(x, status).term = x.term
           /\ Over(x, status).at = "over" /\ Over(x, status).result = status
           /\ status = "done" => Over(x, status).draft = x.draft
           /\ Reviewed(Over(x, status))
  <1> DEFINE y == Over(x, status)
  <1>0. /\ "over" \in Stages /\ status \in Results /\ "none" \in Codings /\ "none" \in BossVerdicts
        /\ NoSession \in Sessions \cup {NoSession} /\ 0 \in 0..1
    BY DEF Stages, Codings, BossVerdicts
  <1>1. CASE status \in {"done", "needs_input"}
    <2>1. y = [x EXCEPT !.at = "over", !.result = status, !.tries = 0, !.coding = "none",
                        !.boss = "none", !.sid = NoSession]
      BY <1>1 DEF Over
    <2> HIDE DEF y
    <2>2. y \in Pipe  BY <1>0, <2>1 DEF Pipe
    <2>3. /\ y.at = "over" /\ y.result = status /\ y.key = x.key /\ y.term = x.term
          /\ y.draft = x.draft /\ y.passed = x.passed /\ y.approved = x.approved
          /\ y.blocked = x.blocked /\ y.judged = x.judged /\ y.route = x.route
      BY <2>1 DEF Pipe
    <2>4. Reviewed(y)  BY <2>3 DEF Reviewed, Releasable
    <2> QED  BY <2>2, <2>3, <2>4 DEF y
  <1>2. CASE status \in {"blocked", "failed"}
    <2>1. y = [Idle EXCEPT !.at = "over", !.result = status, !.key = x.key, !.term = x.term]
      BY <1>2 DEF Over
    <2>2. x.key \in Keys \cup {NoKey} /\ x.term \in Nat  BY DEF Pipe
    <2>3. /\ y \in Pipe /\ y.at = "over" /\ y.result = status /\ y.key = x.key /\ y.term = x.term
      <3> DEFINE k == x.key  n == x.term
                 z == [Idle EXCEPT !.at = "over", !.result = status, !.key = k, !.term = n]
      <3> HIDE DEF k, n, y
      <3>1. Idle \in Pipe  BY IdlePipe
      <3>2. k \in Keys \cup {NoKey} /\ n \in Nat  BY <2>2 DEF k, n
      <3>3. z \in Pipe  BY <1>0, <3>1, <3>2 DEF Pipe
      <3>4. z.at = "over" /\ z.result = status /\ z.key = k /\ z.term = n  BY <3>1 DEF Pipe
      <3>5. y = z  BY <2>1 DEF k, n
      <3> QED  BY <3>3, <3>4, <3>5 DEF k, n
    <2> HIDE DEF y
    <2>4. Reviewed(y)  BY <1>2, <2>3 DEF Reviewed, Releasable
    <2>5. status # "done"  BY <1>2
    <2>6. Over(x, status) = y  BY DEF y
    <2> QED  BY <2>3, <2>4, <2>5, <2>6
  <1> QED  BY <1>1, <1>2 DEF Results

-----------------------------------------------------------------------------
(* A pipeline that ends *)

\* The passport of a run that ends with a status.
VerdictOf(x, status) ==
    IF status = "done" THEN IF x.draft > 1 THEN "revised" ELSE "success" ELSE status

\* The rows of a run that ends, with whichever status.
Ends(q, x, status) ==
    /\ p' = [p EXCEPT ![q] = Over(x, status)]
    /\ run' = [run EXCEPT ![q] = RowStatus(status)]
    /\ idem' = IF x.key = NoKey THEN idem
               ELSE [idem EXCEPT ![x.key].status = IF status = "done" THEN "complete" ELSE "failed"]
    /\ \/ status # "done" /\ UNCHANGED ledger
       \/ /\ status # "needs_input"
          /\ ledger' = [ledger EXCEPT ![q] =
                           Append(@, [verdict |-> VerdictOf(x, status), accepted |-> "none"])]

\* Its session is left done or failed, or is not in the store.
Leaves(s) ==
    /\ session' \in [Sessions -> SessionStatus]
    /\ \A r \in Sessions : r # s => session'[r] = session[r]
    /\ s \in Sessions => session'[s] \in {"none", "done", "failed"}

\* A run whose session is not in the store ends with an error.
LEMMA ConcludeUnknown ==
    ASSUME NEW q, NEW x, NEW status, Conclude(q, x, status), ~Known(x.sid)
    PROVE  Unsettled(q, x, "failed")
  BY DEF Conclude

LEMMA UnsettledEnds ==
    ASSUME Typed, NEW q \in Requests, NEW x \in Pipe, NEW status \in {"blocked", "failed"},
           Unsettled(q, x, status), ~Known(x.sid)
    PROVE  Ends(q, x, status) /\ Leaves(x.sid) /\ reply' \in [Requests -> Codes]
  <1>0. x.sid \in Sessions \cup {NoSession} /\ session \in [Sessions -> SessionStatus]
        /\ reply \in [Requests -> Codes]
    BY DEF Pipe, Typed
  <1>1. /\ p' = [p EXCEPT ![q] = Over(x, status)] /\ run' = SaveRun(q, status)
        /\ UNCHANGED <<session, ledger>> /\ Respond(q, x.key, 500, FALSE)
    BY DEF Unsettled
  <1>2. Leaves(x.sid)  BY <1>0, <1>1 DEF Leaves, Known
  <1>3. reply' \in [Requests -> Codes]  BY <1>0, <1>1 DEF Respond, Codes
  <1>4. Ends(q, x, status)
    <2>1. run' = [run EXCEPT ![q] = RowStatus(status)] /\ status # "done"
      BY <1>1 DEF SaveRun, RowStatus
    <2>2. idem' = IF x.key = NoKey THEN idem ELSE [idem EXCEPT ![x.key].status = "failed"]
      BY <1>1 DEF Respond
    <2> QED  BY <1>1, <2>1, <2>2 DEF Ends
  <1> QED  BY <1>2, <1>3, <1>4

LEMMA ConcludeEnds ==
    ASSUME Typed, NEW q \in Requests, NEW x \in Pipe,
           NEW status \in {"done", "needs_input", "blocked", "failed"}, Conclude(q, x, status)
    PROVE  /\ Ends(q, x, status) \/ Ends(q, x, "failed")
           /\ Leaves(x.sid) /\ reply' \in [Requests -> Codes]
  <1>0. x.sid \in Sessions \cup {NoSession} /\ session \in [Sessions -> SessionStatus]
        /\ reply \in [Requests -> Codes]
    BY DEF Pipe, Typed
  <1>1. CASE Known(x.sid)
    <2>1. /\ p' = [p EXCEPT ![q] = Over(x, status)] /\ run' = SaveRun(q, RowStatus(status))
          /\ session' = IF status \in {"blocked", "failed"} THEN FailRuntimeSession(x.sid)
                        ELSE CompleteRuntimeSession(x.sid)
          /\ RecordNativePipelineOutcome(q, x, status)
          /\ Respond(q, x.key, Http(status), status = "done")
      BY <1>1 DEF Conclude
    <2>2. Leaves(x.sid)
      <3>1. \/ session' = session /\ x.sid = NoSession
            \/ /\ x.sid \in Sessions
               /\ \/ session' = [session EXCEPT ![x.sid] = "done"]
                  \/ session' = [session EXCEPT ![x.sid] = "failed"]
        BY <1>0, <2>1 DEF FailRuntimeSession, CompleteRuntimeSession, Updated, SaveSession
      <3> QED  BY <1>0, <3>1 DEF Leaves, SessionStatus
    <2>3. reply' \in [Requests -> Codes]
      <3>1. Http(status) \in Codes  BY DEF Http, Codes
      <3> QED  BY <1>0, <2>1, <3>1 DEF Respond
    <2>4. \/ status # "done" /\ UNCHANGED ledger
          \/ /\ status # "needs_input"
             /\ ledger' = [ledger EXCEPT ![q] =
                             Append(@, [verdict |-> VerdictOf(x, status), accepted |-> "none"])]
      BY <2>1 DEF RecordNativePipelineOutcome, RecordOutcomePassport, AppendOutcome, VerdictOf
    <2>5. Ends(q, x, status)  BY <2>1, <2>4 DEF Ends, SaveRun, Respond
    <2> QED  BY <2>2, <2>3, <2>5
  <1>2. CASE ~Known(x.sid)
    <2>1. Unsettled(q, x, "failed")  BY <1>2, ConcludeUnknown
    <2> QED  BY <1>2, <2>1, UnsettledEnds
  <1> QED  BY <1>1, <1>2

LEMMA EndStep ==
    ASSUME Inv, NEW q \in Requests, alive, p[q].at \in Waiting,
           NEW x \in Pipe, Same(p[q], x), x.result = "none",
           NEW status \in {"done", "needs_input", "blocked", "failed"}, Releasable(x, status),
           Ends(q, x, status), Leaves(x.sid), reply' \in [Requests -> Codes],
           UNCHANGED <<lease, alive, outside, exits, term>>
    PROVE  Kept
  <1> DEFINE y == Over(x, status)
  <1>1. /\ y \in Pipe /\ y.key = p[q].key /\ y.term = p[q].term /\ y.at = "over"
        /\ y.result = status /\ (status = "done" => y.draft = x.draft) /\ Reviewed(y)
    BY OverPipe DEF Results, Same
  <1>2. p' = [p EXCEPT ![q] = y]  BY DEF Ends
  <1> HIDE DEF y
  <1>3. p'[q] = y /\ \A r \in Requests \ {q} : p'[r] = p[r]  BY <1>2 DEF Inv, Typed
  <1>4. /\ run' \in [Requests -> RunStatus] /\ run'[q] = RowStatus(status)
        /\ \A r \in Requests \ {q} : run'[r] = run[r]
    BY DEF Ends, Inv, Typed, RowStatus, RunStatus
  <1>5. x.key = p[q].key /\ x.sid = p[q].sid /\ x.key \in Keys \cup {NoKey}  BY DEF Same, Pipe
  <1>6. /\ idem' \in [Keys -> Record]
        /\ \A k \in Keys \ {x.key} : idem'[k] = idem[k]
        /\ x.key # NoKey => /\ idem'[x.key].by = idem[x.key].by
                            /\ idem'[x.key].status = IF status = "done" THEN "complete" ELSE "failed"
    <2>1. CASE x.key = NoKey  BY <2>1 DEF Ends, Inv, Typed
    <2>2. CASE x.key # NoKey
      <3> DEFINE s == IF status = "done" THEN "complete" ELSE "failed"
      <3>1. x.key \in Keys /\ idem \in [Keys -> Record] /\ idem[x.key] \in Record
        BY <1>5, <2>2 DEF Inv, Typed
      <3>2. idem' = [idem EXCEPT ![x.key] = [idem[x.key] EXCEPT !.status = s]]
        BY <2>2, <3>1 DEF Ends
      <3>3. s \in {"complete", "failed"}  OBVIOUS
      <3> HIDE DEF s
      <3>4. /\ [idem[x.key] EXCEPT !.status = s] \in Record
            /\ [idem[x.key] EXCEPT !.status = s].status = s
            /\ [idem[x.key] EXCEPT !.status = s].by = idem[x.key].by
        BY <3>1, <3>3 DEF Record
      <3> QED  BY <3>1, <3>2, <3>4 DEF s
    <2> QED  BY <2>1, <2>2
  <1>7. Turn(q) /\ ledger[q] = <<>>  BY DEF Inv, Turn, Rowed, Waiting
  <1>8. /\ ledger' \in [Requests -> Seq(Passport)] /\ \A r \in Requests \ {q} : ledger'[r] = ledger[r]
        /\ \/ status # "done" /\ ledger'[q] = <<>>
           \/ status # "needs_input" /\ Len(ledger'[q]) = 1
              /\ ledger'[q][1].verdict = VerdictOf(x, status)
    <2>1. CASE status # "done" /\ UNCHANGED ledger  BY <1>7, <2>1 DEF Inv, Typed
    <2>2. CASE status # "needs_input" /\ ledger' = [ledger EXCEPT ![q] =
                   Append(@, [verdict |-> VerdictOf(x, status), accepted |-> "none"])]
      <3> DEFINE z == [verdict |-> VerdictOf(x, status), accepted |-> "none"]
      <3>1. z \in Passport /\ z.verdict = VerdictOf(x, status)  BY <2>2 DEF Passport, VerdictOf
      <3> HIDE DEF z
      <3>2. ledger' = [ledger EXCEPT ![q] = <<z>>]  BY <1>7, <2>2 DEF z, Inv, Typed
      <3>3. <<z>> \in Seq(Passport) /\ Len(<<z>>) = 1 /\ <<z>>[1] = z  BY <3>1
      <3> QED  BY <2>2, <3>1, <3>2, <3>3 DEF Inv, Typed
    <2> QED  BY <2>1, <2>2 DEF Ends
  <1>9. Typed'  BY <1>1, <1>2, <1>4, <1>6, <1>8 DEF Inv, Typed, Leaves
  <1>10. ASSUME NEW r \in Requests \ {q} PROVE Turn(r)'
    <2>1. Turn(r)  BY DEF Inv
    <2>2. Reviewed(p[r])' /\ Rowed(r)' /\ Truth(r)'
      <3>1. p'[r] = p[r] /\ run'[r] = run[r] /\ ledger'[r] = ledger[r] /\ alive' = alive
        BY <1>3, <1>4, <1>8
      <3>2. Reviewed(p[r])'
        BY <2>1, <3>1 DEF Turn, Reviewed, Releasable, Present, Unreviewed, Outcome
      <3> QED  BY <2>1, <3>1, <3>2 DEF Turn, Rowed, Truth
    <2>3. Claimed(r)'
      <3>1. p[r].key # NoKey => p[r].key \in Keys  BY DEF Inv, Typed, Pipe
      <3>2. CASE p[r].key # x.key  BY <1>3, <1>6, <2>1, <3>1, <3>2 DEF Turn, Claimed
      <3>3. CASE p[r].key = x.key /\ x.key # NoKey
        <4>1. idem[x.key].by = q  BY <1>5, <1>7, <3>3 DEF Turn, Claimed
        <4>2. p[r].term # term[x.key]  BY <2>1, <3>3, <4>1 DEF Turn, Claimed
        <4> QED  BY <1>3, <2>1, <3>3, <4>2 DEF Turn, Claimed
      <3>4. CASE p[r].key = NoKey  BY <1>3, <3>4 DEF Claimed
      <3> QED  BY <3>2, <3>3, <3>4
    <2> QED  BY <2>2, <2>3 DEF Turn
  <1>11. Turn(q)'
    <2>1. Claimed(q)'  BY <1>1, <1>3, <1>5, <1>6, <1>7 DEF Turn, Claimed, Waiting
    <2>2. Rowed(q)'  BY <1>1, <1>3, <1>4, <1>8 DEF Rowed, RowStatus, Waiting
    <2>3. Truth(q)'
      BY <1>1, <1>3, <1>4, <1>8 DEF Truth, RowStatus, VerdictOf
    <2>4. Reviewed(p[q])'
      BY <1>1, <1>3 DEF Reviewed, Releasable, Present, Unreviewed, Outcome
    <2> QED  BY <2>1, <2>2, <2>3, <2>4 DEF Turn
  <1>12. ASSUME NEW k \in Keys PROVE Recorded(k)'
    <2>1. Recorded(k)  BY DEF Inv
    <2>2. CASE k = x.key
      <3>1. idem[k].by = q  BY <1>5, <1>7, <2>2 DEF Turn, Claimed
      <3> QED  BY <1>1, <1>3, <1>4, <1>5, <1>6, <2>2, <3>1 DEF Recorded, RowStatus
    <2>3. CASE k # x.key
      <3>1. idem[k].status # "none" => idem[k].by # q  BY <1>5, <2>1, <2>3 DEF Recorded
      <3> QED  BY <1>3, <1>4, <1>6, <2>1, <2>3, <3>1 DEF Recorded
    <2> QED  BY <2>2, <2>3
  <1>13. OneExecution'  BY <1>1, <1>3 DEF Inv, OneExecution
  <1>14. NoLeases'  BY DEF Inv, NoLeases
  <1>15. ASSUME NEW s \in Sessions PROVE Settled(s)'
    <2>1. Settled(s)  BY DEF Inv
    <2>2. CASE s = x.sid  BY <2>2 DEF Settled, Leaves
    <2>3. CASE s # x.sid  BY <1>3, <1>5, <2>1, <2>3 DEF Settled, Leaves
    <2> QED  BY <2>2, <2>3
  <1>16. OutcomeStep  BY <1>4, <1>7 DEF OutcomeStep, Turn, Rowed
  <1> QED  BY <1>9, <1>10, <1>11, <1>12, <1>13, <1>14, <1>15, <1>16 DEF Kept, Inv

LEMMA ConcludeStep ==
    ASSUME Inv, NEW q \in Requests, alive, p[q].at \in Waiting,
           NEW x \in Pipe, Same(p[q], x), x.result = "none",
           NEW status \in {"done", "needs_input", "blocked", "failed"}, Releasable(x, status),
           Conclude(q, x, status), UNCHANGED Outer
    PROVE  Kept
  <1>1. UNCHANGED <<lease, alive, outside, exits, term>>  BY DEF Outer
  <1>2. /\ Ends(q, x, status) \/ Ends(q, x, "failed")
        /\ Leaves(x.sid) /\ reply' \in [Requests -> Codes]
    BY ConcludeEnds DEF Inv
  <1>3. Releasable(x, "failed")  BY DEF Releasable
  <1> QED  BY <1>1, <1>2, <1>3, EndStep

\* The catch ends the run as its message says.
LEMMA CatchStep ==
    ASSUME Inv, NEW q \in Requests, alive, p[q].at \in Waiting,
           NEW x \in Pipe, Same(p[q], x), x.result = "none",
           NEW status \in {"blocked", "failed"}, Catch(q, x, status), UNCHANGED Outer
    PROVE  Kept
  <1>1. Releasable(x, status)  BY DEF Releasable
  <1>2. CASE Conclude(q, x, status)  BY <1>1, <1>2, ConcludeStep
  <1>3. CASE ~Known(x.sid) /\ Unsettled(q, x, status)
    <2>1. UNCHANGED <<lease, alive, outside, exits, term>>  BY DEF Outer
    <2>2. Ends(q, x, status) /\ Leaves(x.sid) /\ reply' \in [Requests -> Codes]
      BY <1>3, UnsettledEnds DEF Inv
    <2> QED  BY <1>1, <2>1, <2>2, EndStep
  <1> QED  BY <1>2, <1>3 DEF Catch

-----------------------------------------------------------------------------
(* The stages *)

\* y is x at another stage.
Moved(x, y) ==
    /\ Same(x, y) /\ y.route = x.route /\ y.coding = x.coding /\ y.draft = x.draft
    /\ y.tries = x.tries /\ y.judged = x.judged /\ y.passed = x.passed /\ y.blocked = x.blocked
    /\ y.boss = x.boss /\ y.approved = x.approved /\ y.result = x.result

LEMMA StageMoved ==
    ASSUME NEW x \in Pipe, NEW stage \in Stages
    PROVE  /\ [x EXCEPT !.at = stage] \in Pipe /\ [x EXCEPT !.at = stage].at = stage
           /\ Moved(x, [x EXCEPT !.at = stage])
  <1> DEFINE y == [x EXCEPT !.at = stage]
  <1>1. y \in Pipe  BY DEF Pipe
  <1>2. y.at = stage /\ Moved(x, y)  BY DEF Pipe, Moved, Same
  <1> QED  BY <1>1, <1>2

LEMMA WaitStep ==
    ASSUME Inv, NEW q \in Requests, alive, p[q].at \in Waiting,
           NEW x \in Pipe, Same(p[q], x), x.result = "none", NEW stage \in Waiting,
           \A y : y.at = stage /\ Moved(x, y) => Reviewed(y),
           Wait(q, x, stage), UNCHANGED Outer
    PROVE  Kept
  <1> DEFINE y == [x EXCEPT !.at = stage]
  <1>1. /\ UNCHANGED <<run, idem, reply, ledger, lease, alive, outside, exits, term>>
        /\ p' = [p EXCEPT ![q] = y] /\ session' = Noted(x.sid)
    BY DEF Wait, Outer
  <1>2. stage \in Stages  BY DEF Waiting
  <1>3. y \in Pipe /\ y.at = stage /\ Moved(x, y)  BY <1>2, StageMoved
  <1> HIDE DEF y
  <1>4. Same(p[q], y) /\ y.result = "none" /\ Reviewed(y)  BY <1>3 DEF Moved, Same
  <1>5. x.sid \in Sessions \cup {NoSession} /\ x.sid = p[q].sid  BY DEF Pipe, Same
  <1>6. session \in [Sessions -> SessionStatus]  BY DEF Inv, Typed
  <1>7. /\ session' \in [Sessions -> SessionStatus]
        /\ \A s \in Sessions : s # p[q].sid => session'[s] = session[s]
    BY <1>1, <1>5, <1>6 DEF Noted, SaveSession, SessionStatus, Unfinished
  <1> QED  BY <1>1, <1>3, <1>4, <1>7, MoveStep

LEMMA OutcomeType ==
    ASSUME NEW x \in Pipe
    PROVE  Outcome(x) \in {"done", "needs_input", "blocked", "failed"}
  BY DEF Pipe, Outcome, Codings

\* A version that may be answered is answered, now or after its route event.
LEMMA FinishStep ==
    ASSUME Inv, NEW q \in Requests, alive, p[q].at \in Waiting,
           NEW x \in Pipe, Same(p[q], x), x.result = "none", x.draft \in 1..3,
           x.judged # "block" /\ ~(x.judged \in {"revise", "escalate"} /\ x.boss = "none")
               => Releasable(x, Outcome(x)),
           Finish(q, x), UNCHANGED Outer
    PROVE  Kept
  <1>2. CASE Catch(q, x, "blocked") \/ Catch(q, x, "failed")  BY <1>2, CatchStep
  <1>3. CASE Releasable(x, Outcome(x)) /\ Conclude(q, x, Outcome(x))
    BY <1>3, OutcomeType, ConcludeStep
  <1>4. CASE Releasable(x, Outcome(x)) /\ Wait(q, x, "persist")
    <2>1. "persist" \in Waiting  BY DEF Waiting, Stages
    <2>2. ASSUME NEW y, y.at = "persist", Moved(x, y) PROVE Reviewed(y)
      BY <1>4, <2>2 DEF Reviewed, Moved, Releasable, Outcome
    <2> QED  BY <1>4, <2>1, <2>2, WaitStep
  <1> QED  BY <1>2, <1>3, <1>4 DEF Finish

LEMMA AfterVerifierStep ==
    ASSUME Inv, NEW q \in Requests, alive, p[q].at \in Waiting,
           NEW x \in Pipe, Same(p[q], x), x.result = "none", x.draft \in 1..2,
           Present(x), x.boss = "none", x.approved = 0,
           AfterVerifier(q, x), UNCHANGED Outer
    PROVE  Kept
  <1>1. CASE Finish(q, x)
    <2>1. ASSUME x.judged # "block", ~(x.judged \in {"revise", "escalate"} /\ x.boss = "none")
          PROVE  Releasable(x, Outcome(x))
      <3>1. x.judged \in {"none", "pass"}  BY <2>1 DEF Pipe, Verdicts
      <3> QED  BY <2>1, <3>1 DEF Present, Releasable
    <2> QED  BY <1>1, <2>1, FinishStep
  <1>2. CASE Wait(q, x, "boss")
    <2>1. "boss" \in Waiting  BY DEF Waiting, Stages
    <2>2. ASSUME NEW y, y.at = "boss", Moved(x, y) PROVE Reviewed(y)
      BY <2>2 DEF Reviewed, Moved, Releasable, Present
    <2> QED  BY <1>2, <2>1, <2>2, WaitStep
  <1>3. CASE Catch(q, x, "failed")  BY <1>3, CatchStep
  <1> QED  BY <1>1, <1>2, <1>3 DEF AfterVerifier

\* Where a pipeline stands when it is answered.
LEMMA Standing ==
    ASSUME Inv, NEW q \in Requests, NEW stage \in Waiting, At(q, stage)
    PROVE  /\ alive /\ p[q].at = stage /\ p[q].at \in Waiting /\ p[q] \in Pipe
           /\ Same(p[q], p[q]) /\ p[q].result = "none" /\ Reviewed(p[q])
  <1>1. p[q] \in Pipe /\ Reviewed(p[q])  BY DEF Inv, Typed, Turn
  <1>2. p[q].at = stage  BY DEF At
  <1>3. p[q].result = "none"  BY <1>1, <1>2 DEF Reviewed, Waiting
  <1> QED  BY <1>1, <1>2, <1>3 DEF At, Same

LEMMA CaughtStep ==
    ASSUME Inv, NEW q \in Requests, NEW stage \in Waiting, Caught(q, stage) PROVE Kept
  <1>1. PICK status \in {"failed", "blocked"} :
           At(q, stage) /\ Catch(q, p[q], status) /\ UNCHANGED Outer
    BY DEF Caught
  <1>2. /\ alive /\ p[q].at \in Waiting /\ p[q] \in Pipe /\ Same(p[q], p[q]) /\ p[q].result = "none"
    BY <1>1, Standing
  <1> QED  BY <1>1, <1>2, CatchStep

LEMMA PreparedStep == ASSUME Inv, NEW q \in Requests, Prepared(q) PROVE Kept
  <1>1. PICK outcome \in Codings :
           /\ At(q, "prepare") /\ UNCHANGED Outer
           /\ Wait(q, [p[q] EXCEPT !.coding = outcome],
                   IF p[q].route.worker /\ outcome = "none" THEN "workers" ELSE "host")
    BY DEF Prepared
  <1> DEFINE x == [p[q] EXCEPT !.coding = outcome]
             stage == IF p[q].route.worker /\ outcome = "none" THEN "workers" ELSE "host"
  <1>2. "prepare" \in Waiting /\ stage \in Waiting /\ stage \in {"workers", "host"}
    BY DEF Waiting, Stages
  <1>3. /\ alive /\ p[q].at = "prepare" /\ p[q].at \in Waiting /\ p[q] \in Pipe
        /\ p[q].result = "none" /\ Reviewed(p[q])
    BY <1>1, <1>2, Standing
  <1>4. x \in Pipe  BY <1>3 DEF Pipe
  <1>5. /\ Same(p[q], x) /\ x.result = "none" /\ x.draft = 0 /\ x.tries = 0 /\ x.judged = "none"
        /\ x.passed = 0 /\ x.blocked = 0 /\ x.boss = "none" /\ x.approved = 0
    BY <1>3 DEF Pipe, Same, Reviewed, Unreviewed
  <1>6. Wait(q, x, stage)  BY <1>1
  <1> HIDE DEF x, stage
  <1>7. ASSUME NEW y, y.at = stage, Moved(x, y) PROVE Reviewed(y)
    BY <1>2, <1>5, <1>7 DEF Reviewed, Moved, Releasable, Unreviewed
  <1> QED  BY <1>1, <1>2, <1>3, <1>4, <1>5, <1>6, <1>7, WaitStep

LEMMA CompressedStep == ASSUME Inv, NEW q \in Requests, Compressed(q) PROVE Kept
  <1>1. At(q, "workers") /\ Wait(q, p[q], "host") /\ UNCHANGED Outer  BY DEF Compressed
  <1>2. "workers" \in Waiting /\ "host" \in Waiting  BY DEF Waiting, Stages
  <1>3. /\ alive /\ p[q].at = "workers" /\ p[q].at \in Waiting /\ p[q] \in Pipe
        /\ Same(p[q], p[q]) /\ p[q].result = "none" /\ Reviewed(p[q])
    BY <1>1, <1>2, Standing
  <1>4. ASSUME NEW y, y.at = "host", Moved(p[q], y) PROVE Reviewed(y)
    BY <1>3, <1>4 DEF Reviewed, Moved, Releasable, Unreviewed
  <1> QED  BY <1>1, <1>2, <1>3, <1>4, WaitStep

\* A new version of the draft, and what is known of it.
LEMMA NewDraft ==
    ASSUME NEW x \in Pipe, NEW n \in 0..3
    PROVE  LET y == [x EXCEPT !.draft = n]
           IN  /\ y \in Pipe /\ Same(x, y) /\ y.draft = n /\ y.at = x.at /\ y.route = x.route
               /\ y.tries = x.tries /\ y.judged = x.judged /\ y.passed = x.passed
               /\ y.blocked = x.blocked /\ y.boss = x.boss /\ y.approved = x.approved
               /\ y.result = x.result /\ y.coding = x.coding
  <1> DEFINE y == [x EXCEPT !.draft = n]
  <1>1. y \in Pipe  BY DEF Pipe
  <1>2. /\ y.draft = n /\ y.at = x.at /\ y.route = x.route
        /\ y.tries = x.tries /\ y.judged = x.judged /\ y.passed = x.passed
        /\ y.blocked = x.blocked /\ y.boss = x.boss /\ y.approved = x.approved
    BY DEF Pipe
  <1>3. Same(x, y) /\ y.result = x.result /\ y.coding = x.coding  BY DEF Pipe, Same
  <1> QED  BY <1>1, <1>2, <1>3

LEMMA DraftedStep == ASSUME Inv, NEW q \in Requests, Drafted(q) PROVE Kept
  <1> DEFINE x == [p[q] EXCEPT !.draft = 1]
  <1>1. /\ At(q, "host") /\ UNCHANGED Outer
        /\ IF x.route.verifier THEN Wait(q, x, "verify") ELSE AfterVerifier(q, x)
    BY DEF Drafted
  <1>2. "host" \in Waiting /\ "verify" \in Waiting  BY DEF Waiting, Stages
  <1>3. /\ alive /\ p[q].at = "host" /\ p[q].at \in Waiting /\ p[q] \in Pipe
        /\ p[q].result = "none" /\ Reviewed(p[q])
    BY <1>1, <1>2, Standing
  <1>4. /\ x \in Pipe /\ Same(p[q], x) /\ x.draft = 1 /\ x.route = p[q].route
        /\ x.tries = p[q].tries /\ x.judged = p[q].judged /\ x.passed = p[q].passed
        /\ x.blocked = p[q].blocked /\ x.boss = p[q].boss /\ x.approved = p[q].approved
        /\ x.result = p[q].result
    <2>1. p[q] \in Pipe /\ 1 \in 0..3  BY <1>3
    <2> QED  BY <2>1, NewDraft, ZenonT(20)
  <1> HIDE DEF x
  <1>5. /\ x.result = "none" /\ x.tries = 0 /\ x.judged = "none" /\ Unreviewed(x)
    BY <1>3, <1>4 DEF Reviewed, Unreviewed
  <1>6. CASE x.route.verifier
    <2>1. ASSUME NEW y, y.at = "verify", Moved(x, y) PROVE Reviewed(y)
      BY <1>4, <1>5, <1>6, <2>1 DEF Reviewed, Moved, Releasable, Unreviewed
    <2> QED  BY <1>1, <1>2, <1>3, <1>4, <1>5, <1>6, <2>1, WaitStep
  <1>7. CASE ~x.route.verifier
    <2>1. Present(x) /\ x.boss = "none" /\ x.approved = 0 /\ x.draft \in 1..2
      BY <1>4, <1>5, <1>7 DEF Present, Unreviewed
    <2> QED  BY <1>1, <1>3, <1>4, <1>5, <1>7, <2>1, AfterVerifierStep
  <1> QED  BY <1>6, <1>7

\* A verdict is remembered of the version it was about.
LEMMA JudgedPipe ==
    ASSUME NEW x \in Pipe, NEW verdict \in Verdicts
    PROVE  LET y == Judged(x, verdict)
           IN  /\ y \in Pipe /\ Same(x, y) /\ y.judged = verdict /\ y.draft = x.draft
               /\ y.passed = (IF verdict = "pass" THEN x.draft ELSE x.passed)
               /\ y.blocked = (IF verdict = "block" THEN x.draft ELSE x.blocked)
               /\ y.route = x.route /\ y.tries = x.tries /\ y.boss = x.boss
               /\ y.approved = x.approved /\ y.result = x.result /\ y.coding = x.coding
  <1> DEFINE m == IF verdict = "pass" THEN x.draft ELSE x.passed
             n == IF verdict = "block" THEN x.draft ELSE x.blocked
             y == [x EXCEPT !.judged = verdict, !.passed = m, !.blocked = n]
  <1>1. m \in 0..3 /\ n \in 0..3  BY DEF Pipe
  <1>2. Judged(x, verdict) = y  BY DEF Judged, Pipe
  <1> HIDE DEF m, n
  <1>3. y \in Pipe  BY <1>1 DEF Pipe
  <1>4. /\ y.judged = verdict /\ y.draft = x.draft /\ y.passed = m /\ y.blocked = n
        /\ y.route = x.route /\ y.tries = x.tries /\ y.boss = x.boss
    BY DEF Pipe
  <1>5. Same(x, y) /\ y.approved = x.approved /\ y.result = x.result /\ y.coding = x.coding
    BY DEF Pipe, Same
  <1> QED  BY <1>2, <1>3, <1>4, <1>5 DEF m, n

LEMMA VerifiedStep == ASSUME Inv, NEW q \in Requests, Verified(q) PROVE Kept
  <1>1. PICK verdict \in VerifierAnswers(p[q].route) :
           /\ At(q, "verify") /\ UNCHANGED Outer
           /\ IF verdict = "none" THEN AfterVerifier(q, p[q])
              ELSE IF verdict = "revise"
                      /\ Judged(p[q], verdict).tries < Judged(p[q], verdict).route.revisions
                   THEN Wait(q, Judged(p[q], verdict), "revise")
                   ELSE AfterVerifier(q, Judged(p[q], verdict))
    BY DEF Verified
  <1> DEFINE x == Judged(p[q], verdict)
  <1>2. "verify" \in Waiting /\ "revise" \in Waiting  BY DEF Waiting, Stages
  <1>3. /\ alive /\ p[q].at = "verify" /\ p[q].at \in Waiting /\ p[q] \in Pipe
        /\ Same(p[q], p[q]) /\ p[q].result = "none" /\ Reviewed(p[q])
    BY <1>1, <1>2, Standing
  <1>4. verdict \in Verdicts /\ (verdict = "none" => ~p[q].route.mandatory)
    BY DEF VerifierAnswers
  <1>5. /\ x \in Pipe /\ Same(p[q], x) /\ x.judged = verdict /\ x.draft = p[q].draft
        /\ x.passed = (IF verdict = "pass" THEN p[q].draft ELSE p[q].passed)
        /\ x.blocked = (IF verdict = "block" THEN p[q].draft ELSE p[q].blocked)
        /\ x.route = p[q].route /\ x.tries = p[q].tries /\ x.boss = p[q].boss
        /\ x.approved = p[q].approved /\ x.result = p[q].result
    BY <1>3, <1>4, JudgedPipe
  <1> HIDE DEF x
  <1>6. /\ p[q].route.verifier /\ p[q].draft = p[q].tries + 1 /\ p[q].tries \in 0..1
        /\ p[q].judged \in {"none", "revise"}
        /\ p[q].passed = 0 /\ p[q].blocked = 0 /\ p[q].boss = "none" /\ p[q].approved = 0
    BY <1>3 DEF Reviewed, Unreviewed, Pipe
  <1>7. p[q].draft \in 1..2  BY <1>6
  <1>8. CASE verdict = "none"
    <2>1. Present(p[q])  BY <1>4, <1>6, <1>8 DEF Present
    <2>2. AfterVerifier(q, p[q])  BY <1>1, <1>8
    <2> QED  BY <1>1, <1>3, <1>6, <1>7, <2>1, <2>2, AfterVerifierStep
  <1>9. CASE verdict = "revise" /\ x.tries < x.route.revisions /\ Wait(q, x, "revise")
    <2>1. x.tries = 0
      <3>1. x.route.revisions \in {0, 1}  BY <1>5 DEF Pipe, RouteType
      <3> QED  BY <1>5, <1>6, <1>9, <3>1
    <2>2. ASSUME NEW y, y.at = "revise", Moved(x, y) PROVE Reviewed(y)
      BY <1>3, <1>5, <1>6, <1>9, <2>1, <2>2 DEF Reviewed, Moved, Releasable, Unreviewed
    <2> QED  BY <1>1, <1>2, <1>3, <1>5, <1>9, <2>2, WaitStep
  <1>10. CASE verdict # "none" /\ AfterVerifier(q, x)
    <2>1. Present(x)  BY <1>4, <1>5, <1>6, <1>7, <1>10 DEF Present
    <2> QED  BY <1>1, <1>3, <1>5, <1>6, <1>7, <1>10, <2>1, AfterVerifierStep
  <1> QED  BY <1>1, <1>8, <1>9, <1>10 DEF x

LEMMA RevisedStep == ASSUME Inv, NEW q \in Requests, Revised(q) PROVE Kept
  <1> DEFINE x == [p[q] EXCEPT !.draft = @ + 1, !.tries = @ + 1]
  <1>1. At(q, "revise") /\ Wait(q, x, "verify") /\ UNCHANGED Outer  BY DEF Revised
  <1>2. "revise" \in Waiting /\ "verify" \in Waiting  BY DEF Waiting, Stages
  <1>3. /\ alive /\ p[q].at = "revise" /\ p[q].at \in Waiting /\ p[q] \in Pipe
        /\ p[q].result = "none" /\ Reviewed(p[q])
    BY <1>1, <1>2, Standing
  <1>4. /\ p[q].route.verifier /\ p[q].tries = 0 /\ p[q].draft = 1
        /\ p[q].judged \in {"none", "revise"} /\ Unreviewed(p[q])
    BY <1>3 DEF Reviewed
  <1>5. x = [p[q] EXCEPT !.draft = 2, !.tries = 1]  BY <1>3, <1>4 DEF Pipe
  <1> HIDE DEF x
  <1>6. x \in Pipe
    <2>1. p[q] \in Pipe /\ 2 \in 0..3 /\ 1 \in 0..1  BY <1>3
    <2> QED  BY <2>1, <1>5 DEF Pipe
  <1>7. /\ x.draft = 2 /\ x.tries = 1 /\ x.route = p[q].route /\ x.judged = p[q].judged
        /\ x.passed = p[q].passed /\ x.blocked = p[q].blocked /\ x.boss = p[q].boss
        /\ x.approved = p[q].approved /\ x.result = p[q].result
    BY <1>3, <1>5 DEF Pipe
  <1>8. Same(p[q], x)  BY <1>3, <1>5 DEF Pipe, Same
  <1>9. ASSUME NEW y, y.at = "verify", Moved(x, y) PROVE Reviewed(y)
    BY <1>3, <1>4, <1>7, <1>9 DEF Reviewed, Moved, Releasable, Unreviewed
  <1> QED  BY <1>1, <1>2, <1>3, <1>6, <1>7, <1>8, <1>9, WaitStep

\* What the Boss rules of the version it saw.
Ruled(x, verdict) ==
    [x EXCEPT !.boss = verdict,
              !.approved = IF verdict = "approve" THEN x.draft ELSE @,
              !.blocked = IF verdict = "block" THEN x.draft ELSE @]

LEMMA RuledPipe ==
    ASSUME NEW x \in Pipe, NEW verdict \in BossVerdicts
    PROVE  LET y == Ruled(x, verdict)
           IN  /\ y \in Pipe /\ Same(x, y) /\ y.boss = verdict /\ y.draft = x.draft
               /\ y.approved = (IF verdict = "approve" THEN x.draft ELSE x.approved)
               /\ y.blocked = (IF verdict = "block" THEN x.draft ELSE x.blocked)
               /\ y.route = x.route /\ y.tries = x.tries /\ y.judged = x.judged
               /\ y.passed = x.passed /\ y.result = x.result /\ y.coding = x.coding
  <1> DEFINE m == IF verdict = "approve" THEN x.draft ELSE x.approved
             n == IF verdict = "block" THEN x.draft ELSE x.blocked
             y == [x EXCEPT !.boss = verdict, !.approved = m, !.blocked = n]
  <1>1. m \in 0..3 /\ n \in 0..3  BY DEF Pipe
  <1>2. Ruled(x, verdict) = y  BY DEF Ruled, Pipe
  <1> HIDE DEF m, n
  <1>3. y \in Pipe  BY <1>1 DEF Pipe
  <1>4. /\ y.boss = verdict /\ y.draft = x.draft /\ y.approved = m /\ y.blocked = n
        /\ y.route = x.route /\ y.tries = x.tries /\ y.judged = x.judged
    BY DEF Pipe
  <1>5. Same(x, y) /\ y.passed = x.passed /\ y.result = x.result /\ y.coding = x.coding
    BY DEF Pipe, Same
  <1> QED  BY <1>2, <1>3, <1>4, <1>5 DEF m, n

\* The session follows the decision.
LEMMA ToldStep ==
    ASSUME Inv, NEW q \in Requests, alive, p[q].at \in Waiting,
           NEW x \in Pipe, Same(p[q], x), x.result = "none", NEW stage \in Waiting,
           \A y : y.at = stage /\ Moved(x, y) => Reviewed(y),
           NEW verdict, p' = [p EXCEPT ![q] = [x EXCEPT !.at = stage]],
           session' = Updated(x.sid, BossStatus(verdict)),
           UNCHANGED <<run, idem, reply, ledger>>, UNCHANGED Outer
    PROVE  Kept
  <1> DEFINE y == [x EXCEPT !.at = stage]
  <1>1. UNCHANGED <<run, idem, reply, ledger, lease, alive, outside, exits, term>>
    BY DEF Outer
  <1>2. stage \in Stages  BY DEF Waiting
  <1>3. y \in Pipe /\ y.at = stage /\ Moved(x, y)  BY <1>2, StageMoved
  <1> HIDE DEF y
  <1>4. Same(p[q], y) /\ y.result = "none" /\ Reviewed(y)  BY <1>3 DEF Moved, Same
  <1>5. x.sid \in Sessions \cup {NoSession} /\ x.sid = p[q].sid  BY DEF Pipe, Same
  <1>6. session \in [Sessions -> SessionStatus]  BY DEF Inv, Typed
  <1>7. BossStatus(verdict) \in SessionStatus  BY DEF BossStatus, SessionStatus, Unfinished
  <1>8. /\ session' \in [Sessions -> SessionStatus]
        /\ \A s \in Sessions : s # p[q].sid => session'[s] = session[s]
    BY <1>5, <1>6, <1>7 DEF Updated, SaveSession
  <1>9. p' = [p EXCEPT ![q] = y]  BY DEF y
  <1> QED  BY <1>1, <1>3, <1>4, <1>8, <1>9, MoveStep

LEMMA DecidedStep == ASSUME Inv, NEW q \in Requests, Decided(q) PROVE Kept
  <1>1. PICK verdict \in BossVerdicts \ {"none"} :
           /\ At(q, "boss") /\ UNCHANGED Outer
           /\ \/ verdict = "block" /\ Conclude(q, Ruled(p[q], verdict), "blocked")
              \/ /\ verdict \in {"revise", "delegate"}
                 /\ p' = [p EXCEPT ![q] = [Ruled(p[q], verdict) EXCEPT !.at =
                             IF verdict = "delegate" THEN "delegate" ELSE "bossRevise"]]
                 /\ session' = Updated(Ruled(p[q], verdict).sid, BossStatus(verdict))
                 /\ UNCHANGED <<run, idem, reply, ledger>>
              \/ /\ verdict \in {"approve", "ask_user"} /\ Ruled(p[q], verdict).judged # "block"
                 /\ p' = [p EXCEPT ![q] = [Ruled(p[q], verdict) EXCEPT !.at = "persist"]]
                 /\ session' = Updated(Ruled(p[q], verdict).sid, BossStatus(verdict))
                 /\ UNCHANGED <<run, idem, reply, ledger>>
              \/ /\ verdict \in {"approve", "ask_user"}
                 /\ Conclude(q, Ruled(p[q], verdict),
                             IF Ruled(p[q], verdict).judged = "block" THEN "blocked"
                             ELSE Outcome(Ruled(p[q], verdict)))
    BY DEF Decided, Ruled, BossVerdicts
  <1> DEFINE x == Ruled(p[q], verdict)
  <1>2. /\ "boss" \in Waiting /\ "persist" \in Waiting /\ "delegate" \in Waiting
        /\ "bossRevise" \in Waiting
    BY DEF Waiting, Stages
  <1>3. /\ alive /\ p[q].at = "boss" /\ p[q].at \in Waiting /\ p[q] \in Pipe
        /\ p[q].result = "none" /\ Reviewed(p[q])
    BY <1>1, <1>2, Standing
  <1>4. verdict \in BossVerdicts /\ verdict # "none"  OBVIOUS
  <1>5. /\ x \in Pipe /\ Same(p[q], x) /\ x.boss = verdict /\ x.draft = p[q].draft
        /\ x.approved = (IF verdict = "approve" THEN p[q].draft ELSE p[q].approved)
        /\ x.blocked = (IF verdict = "block" THEN p[q].draft ELSE p[q].blocked)
        /\ x.route = p[q].route /\ x.tries = p[q].tries /\ x.judged = p[q].judged
        /\ x.passed = p[q].passed /\ x.result = p[q].result
    BY <1>3, <1>4, RuledPipe
  <1>6. p[q].draft \in 1..2 /\ Present(p[q])  BY <1>3 DEF Reviewed
  <1>7. CASE verdict = "block" /\ Conclude(q, x, "blocked")
    <2>1. Releasable(x, "blocked")  BY DEF Releasable
    <2> HIDE DEF x
    <2> QED  BY <1>1, <1>3, <1>5, <1>7, <2>1, ConcludeStep
  <1>8. CASE /\ verdict \in {"revise", "delegate"}
             /\ p' = [p EXCEPT ![q] = [x EXCEPT !.at =
                         IF verdict = "delegate" THEN "delegate" ELSE "bossRevise"]]
             /\ session' = Updated(x.sid, BossStatus(verdict))
             /\ UNCHANGED <<run, idem, reply, ledger>>
    <2> HIDE DEF x
    <2> DEFINE stage == IF verdict = "delegate" THEN "delegate" ELSE "bossRevise"
    <2>1. stage \in Waiting /\ stage \in {"delegate", "bossRevise"}  BY <1>2
    <2>2. p' = [p EXCEPT ![q] = [x EXCEPT !.at = stage]]  BY <1>8
    <2> HIDE DEF stage
    <2>3. x.blocked = p[q].blocked /\ p[q].blocked <= p[q].draft
      BY <1>5, <1>6, <1>8 DEF Present
    <2>4. ASSUME NEW y, y.at = stage, Moved(x, y) PROVE Reviewed(y)
      BY <1>3, <1>5, <1>6, <1>8, <2>1, <2>3, <2>4 DEF Reviewed, Moved, Releasable, Present
    <2>5. session' = Updated(x.sid, BossStatus(verdict)) /\ UNCHANGED <<run, idem, reply, ledger>>
      BY <1>8
    <2>6. x.result = "none" /\ UNCHANGED Outer  BY <1>1, <1>3, <1>5
    <2> QED  BY <1>3, <1>5, <2>1, <2>2, <2>4, <2>5, <2>6, ToldStep
  <1>9. verdict \in {"approve", "ask_user"} /\ x.judged # "block" => Releasable(x, Outcome(x))
    <2> HIDE DEF x
    <2>1. SUFFICES ASSUME verdict \in {"approve", "ask_user"}, x.judged # "block"
                   PROVE  Releasable(x, Outcome(x))
      OBVIOUS
    <2>2. x.blocked = 0 /\ x.draft # 0  BY <1>5, <1>6, <2>1 DEF Present
    <2>3. verdict = "approve" => x.draft = x.approved  BY <1>5
    <2>4. verdict = "ask_user" => Outcome(x) # "done"
      BY <1>5 DEF Outcome
    <2> QED  BY <2>1, <2>2, <2>3, <2>4 DEF Releasable
  <1>10. CASE /\ verdict \in {"approve", "ask_user"} /\ x.judged # "block"
              /\ p' = [p EXCEPT ![q] = [x EXCEPT !.at = "persist"]]
              /\ session' = Updated(x.sid, BossStatus(verdict))
              /\ UNCHANGED <<run, idem, reply, ledger>>
    <2> HIDE DEF x
    <2>1. Releasable(x, Outcome(x)) /\ x.draft \in 1..3 /\ x.result = "none"
      BY <1>3, <1>5, <1>6, <1>9, <1>10
    <2>2. ASSUME NEW y, y.at = "persist", Moved(x, y) PROVE Reviewed(y)
      BY <2>1, <2>2 DEF Reviewed, Moved, Releasable, Outcome
    <2> QED  BY <1>1, <1>2, <1>3, <1>5, <1>10, <2>2, ToldStep
  <1>11. CASE /\ verdict \in {"approve", "ask_user"}
              /\ Conclude(q, x, IF x.judged = "block" THEN "blocked" ELSE Outcome(x))
    <2> HIDE DEF x
    <2>1. Releasable(x, "blocked")  BY DEF Releasable
    <2>2. CASE x.judged = "block"
      BY <1>1, <1>3, <1>5, <1>11, <2>1, <2>2, ConcludeStep
    <2>3. CASE x.judged # "block"
      BY <1>1, <1>3, <1>5, <1>9, <1>11, <2>3, OutcomeType, ConcludeStep
    <2> QED  BY <2>2, <2>3
  <1> QED  BY <1>1, <1>7, <1>8, <1>10, <1>11

LEMMA DelegatedStep == ASSUME Inv, NEW q \in Requests, Delegated(q) PROVE Kept
  <1>1. At(q, "delegate") /\ Wait(q, p[q], "bossRevise") /\ UNCHANGED Outer  BY DEF Delegated
  <1>2. "delegate" \in Waiting /\ "bossRevise" \in Waiting  BY DEF Waiting, Stages
  <1>3. /\ alive /\ p[q].at = "delegate" /\ p[q].at \in Waiting /\ p[q] \in Pipe
        /\ Same(p[q], p[q]) /\ p[q].result = "none" /\ Reviewed(p[q])
    BY <1>1, <1>2, Standing
  <1>4. ASSUME NEW y, y.at = "bossRevise", Moved(p[q], y) PROVE Reviewed(y)
    BY <1>3, <1>4 DEF Reviewed, Moved, Releasable, Unreviewed
  <1> QED  BY <1>1, <1>2, <1>3, <1>4, WaitStep

LEMMA BossRevisedStep == ASSUME Inv, NEW q \in Requests, BossRevised(q) PROVE Kept
  <1> DEFINE n == p[q].draft + 1
             x == [p[q] EXCEPT !.draft = n]
  <1>2. "bossRevise" \in Waiting /\ "finalVerify" \in Waiting  BY DEF Waiting, Stages
  <1>3. /\ alive /\ p[q].at = "bossRevise" /\ p[q].at \in Waiting /\ p[q] \in Pipe
        /\ p[q].result = "none" /\ Reviewed(p[q])
    BY <1>2, Standing DEF BossRevised
  <1>1. /\ At(q, "bossRevise") /\ UNCHANGED Outer
        /\ IF x.route.verifier THEN Wait(q, x, "finalVerify") ELSE Finish(q, x)
    BY DEF BossRevised
  <1>4. /\ p[q].draft \in 1..2 /\ p[q].blocked \in 0..3 /\ p[q].blocked <= p[q].draft
        /\ p[q].boss \in {"revise", "delegate"}
        /\ ~p[q].route.verifier => p[q].judged = "none" /\ p[q].blocked = 0
    BY <1>3 DEF Reviewed, Pipe
  <1>5. n \in 2..3 /\ n \in 0..3 /\ n \in 1..3 /\ p[q].blocked < n  BY <1>4
  <1> HIDE DEF n
  <1>6. /\ x \in Pipe /\ Same(p[q], x) /\ x.draft = n /\ x.route = p[q].route
        /\ x.judged = p[q].judged /\ x.blocked = p[q].blocked /\ x.boss = p[q].boss
        /\ x.result = p[q].result
    BY <1>3, <1>5, NewDraft, Zenon
  <1> HIDE DEF x
  <1>7. CASE x.route.verifier
    <2>1. ASSUME NEW y, y.at = "finalVerify", Moved(x, y) PROVE Reviewed(y)
      BY <1>3, <1>4, <1>5, <1>6, <1>7, <2>1 DEF Reviewed, Moved, Releasable
    <2> QED  BY <1>1, <1>2, <1>3, <1>6, <1>7, <2>1, WaitStep
  <1>8. CASE ~x.route.verifier
    <2>1. Releasable(x, Outcome(x))  BY <1>4, <1>5, <1>6, <1>8 DEF Releasable
    <2> QED  BY <1>1, <1>3, <1>5, <1>6, <1>8, <2>1, FinishStep
  <1> QED  BY <1>7, <1>8

LEMMA FinallyVerifiedStep == ASSUME Inv, NEW q \in Requests, FinallyVerified(q) PROVE Kept
  <1>1. PICK verdict \in Verdicts \ {"none"} :
           /\ At(q, "finalVerify") /\ UNCHANGED Outer
           /\ IF verdict = "pass" THEN Finish(q, Judged(p[q], verdict))
              ELSE \/ Catch(q, Judged(p[q], verdict), "blocked")
                   \/ verdict # "block" /\ Catch(q, Judged(p[q], verdict), "failed")
    BY DEF FinallyVerified
  <1> DEFINE x == Judged(p[q], verdict)
  <1>2. "finalVerify" \in Waiting  BY DEF Waiting, Stages
  <1>3. /\ alive /\ p[q].at = "finalVerify" /\ p[q].at \in Waiting /\ p[q] \in Pipe
        /\ p[q].result = "none" /\ Reviewed(p[q])
    BY <1>1, <1>2, Standing
  <1>4. verdict \in Verdicts  OBVIOUS
  <1>5. /\ x \in Pipe /\ Same(p[q], x) /\ x.judged = verdict /\ x.draft = p[q].draft
        /\ x.passed = (IF verdict = "pass" THEN p[q].draft ELSE p[q].passed)
        /\ x.blocked = (IF verdict = "block" THEN p[q].draft ELSE p[q].blocked)
        /\ x.result = p[q].result
    BY <1>3, <1>4, JudgedPipe
  <1>6. /\ p[q].draft \in 2..3 /\ p[q].blocked \in 0..3 /\ p[q].blocked < p[q].draft
    BY <1>3 DEF Reviewed, Pipe
  <1>7. CASE verdict = "pass" /\ Finish(q, x)
    <2> HIDE DEF x
    <2>1. Releasable(x, Outcome(x))  BY <1>5, <1>6, <1>7 DEF Releasable
    <2>2. x.draft \in 1..3  BY <1>5, <1>6
    <2> QED  BY <1>1, <1>3, <1>5, <1>7, <2>1, <2>2, FinishStep
  <1>8. CASE Catch(q, x, "blocked") \/ Catch(q, x, "failed")
    <2> HIDE DEF x
    <2> QED  BY <1>1, <1>3, <1>5, <1>8, CatchStep
  <1> QED  BY <1>1, <1>7, <1>8

LEMMA PersistedStep == ASSUME Inv, NEW q \in Requests, Persisted(q) PROVE Kept
  <1>1. At(q, "persist") /\ Conclude(q, p[q], Outcome(p[q])) /\ UNCHANGED Outer
    BY DEF Persisted
  <1>2. "persist" \in Waiting  BY DEF Waiting, Stages
  <1>3. /\ alive /\ p[q].at = "persist" /\ p[q].at \in Waiting /\ p[q] \in Pipe
        /\ Same(p[q], p[q]) /\ p[q].result = "none" /\ Reviewed(p[q])
    BY <1>1, <1>2, Standing
  <1>4. Releasable(p[q], Outcome(p[q]))  BY <1>3 DEF Reviewed
  <1> QED  BY <1>1, <1>3, <1>4, OutcomeType, ConcludeStep

LEMMA PipelineStep == ASSUME Inv, NEW q \in Requests, Pipeline(q) PROVE Kept
  <1>1. {"prepare", "host", "revise", "bossRevise", "boss", "finalVerify"} \subseteq Waiting
    BY DEF Waiting, Stages
  <1>2. ASSUME PrepareFails(q) \/ HostFails(q) \/ RevisionFails(q) \/ BossFails(q)
                 \/ FinalVerifierFails(q)
        PROVE  Kept
    BY <1>1, <1>2, CaughtStep
       DEF PrepareFails, HostFails, RevisionFails, BossFails, FinalVerifierFails
  <1> QED
    BY <1>2, PreparedStep, CompressedStep, DraftedStep, VerifiedStep, RevisedStep, DecidedStep,
       DelegatedStep, BossRevisedStep, FinallyVerifiedStep, PersistedStep DEF Pipeline

-----------------------------------------------------------------------------
(* A request arrives *)

LEMMA IdleTurn ==
    ASSUME Inv, NEW q \in Requests, p[q].at = "idle"
    PROVE  p[q] = Idle /\ run[q] = "none" /\ ledger[q] = <<>> /\ p[q].at \notin Waiting
  BY DEF Inv, Turn, Rowed, Waiting

\* A request takes the place of its own, and the record of its key if it has one.
LEMMA ArriveStep ==
    ASSUME Inv, NEW q \in Requests, alive, p[q].at = "idle",
           NEW y \in Pipe, y.result = "none", Reviewed(y), p' = [p EXCEPT ![q] = y],
           NEW rs \in {"done", "running"}, run' = [run EXCEPT ![q] = rs],
           (y.at = "over" /\ rs = "done") \/ (y.at \in Waiting /\ rs = "running"),
           NEW is \in {"running", "complete", "failed"}, NEW body \in {a.body : a \in Arrivals},
           y.at \in Waiting => is = "running",
           y.at = "over" => is \in {"complete", "failed"},
           y.key # NoKey => idem[y.key].status = "none" /\ y.term = term[y.key],
           idem' = IF y.key = NoKey THEN idem
                   ELSE [idem EXCEPT ![y.key] = [status |-> is, body |-> body, by |-> q]],
           session' \in [Sessions -> SessionStatus],
           \A s \in Sessions : \/ session'[s] = session[s] \/ session'[s] = "done"
                               \/ s = y.sid /\ y.at \in Waiting,
           reply' \in [Requests -> Codes],
           UNCHANGED <<ledger, lease, alive, outside, exits, term>>
    PROVE  Kept
  <1> DEFINE z == [status |-> is, body |-> body, by |-> q]
  <1>1. p'[q] = y /\ \A r \in Requests \ {q} : p'[r] = p[r]  BY DEF Inv, Typed
  <1>2. run'[q] = rs /\ \A r \in Requests \ {q} : run'[r] = run[r]  BY DEF Inv, Typed
  <1>3. p[q] = Idle /\ run[q] = "none" /\ ledger[q] = <<>> /\ p[q].at \notin Waiting
        /\ p[q].key = NoKey
    BY IdleTurn DEF Idle
  <1>4. y.key \in Keys \cup {NoKey}  BY DEF Pipe
  <1>5. z \in Record /\ z.status = is /\ z.by = q  BY DEF Record
  <1>6. idem' = IF y.key = NoKey THEN idem ELSE [idem EXCEPT ![y.key] = z]  OBVIOUS
  <1> HIDE DEF z
  <1>7. /\ idem' \in [Keys -> Record] /\ \A k \in Keys \ {y.key} : idem'[k] = idem[k]
        /\ y.key # NoKey => idem'[y.key].status = is /\ idem'[y.key].by = q
    <2>1. idem \in [Keys -> Record]  BY DEF Inv, Typed
    <2>2. CASE y.key = NoKey  BY <1>6, <2>1, <2>2
    <2>3. CASE y.key # NoKey  BY <1>4, <1>5, <1>6, <2>1, <2>3
    <2> QED  BY <2>2, <2>3
  <1>8. Typed'
    <2>1. run' \in [Requests -> RunStatus]  BY DEF Inv, Typed, RunStatus
    <2>2. p' \in [Requests -> Pipe]  BY DEF Inv, Typed
    <2> QED  BY <1>7, <2>1, <2>2 DEF Inv, Typed
  <1>9. \A r \in Requests : p[r].key # NoKey /\ p[r].key = y.key =>
           p[r].term # term[y.key] /\ p[r].term < term[y.key] /\ p[r].at \notin Waiting
    <2> SUFFICES ASSUME NEW r \in Requests, p[r].key # NoKey, p[r].key = y.key
                 PROVE  p[r].term # term[y.key] /\ p[r].term < term[y.key]
                        /\ p[r].at \notin Waiting
      OBVIOUS
    <2>1. p[r].term \in Nat /\ term[y.key] \in Nat  BY <1>4 DEF Inv, Typed, Pipe
    <2>2. p[r].term <= term[y.key] /\ p[r].term # term[y.key] /\ p[r].at \notin Waiting
      BY DEF Inv, Turn, Claimed
    <2> QED  BY <2>1, <2>2
  <1>10. ASSUME NEW r \in Requests \ {q} PROVE Turn(r)'
    <2>1. Turn(r)  BY DEF Inv
    <2>2. Reviewed(p[r])' /\ Rowed(r)' /\ Truth(r)'
      BY <1>1, <1>2, <2>1
         DEF Turn, Rowed, Truth, Reviewed, Releasable, Present, Unreviewed, Outcome
    <2>3. Claimed(r)'
      <3>1. p[r].key # NoKey => p[r].key \in Keys  BY DEF Inv, Typed, Pipe
      <3>2. CASE p[r].key # y.key  BY <1>1, <1>7, <2>1, <3>1, <3>2 DEF Turn, Claimed
      <3>3. CASE p[r].key = y.key  BY <1>1, <1>9, <2>1, <3>3 DEF Turn, Claimed
      <3> QED  BY <3>2, <3>3
    <2> QED  BY <2>2, <2>3 DEF Turn
  <1>11. Turn(q)'
    <2>1. Claimed(q)'
      <3>1. y.key # NoKey => y.term <= term[y.key]
        <4>1. y.term \in Nat  BY DEF Pipe
        <4> QED  BY <4>1
      <3> QED  BY <1>1, <1>7, <3>1 DEF Claimed
    <2>2. Rowed(q)'  BY <1>1, <1>2, <1>3 DEF Rowed, Waiting
    <2>3. Truth(q)'  BY <1>1, <1>2, <1>3 DEF Truth
    <2>4. Reviewed(p[q])'
      BY <1>1 DEF Reviewed, Releasable, Present, Unreviewed, Outcome
    <2> QED  BY <2>1, <2>2, <2>3, <2>4 DEF Turn
  <1>12. ASSUME NEW k \in Keys PROVE Recorded(k)'
    <2>1. Recorded(k)  BY DEF Inv
    <2>2. CASE k = y.key  BY <1>1, <1>2, <1>7, <2>2 DEF Recorded
    <2>3. CASE k # y.key
      <3>1. idem[k].status # "none" => idem[k].by # q  BY <1>3, <2>1 DEF Recorded
      <3> QED  BY <1>1, <1>2, <1>7, <2>1, <2>3, <3>1 DEF Recorded
    <2> QED  BY <2>2, <2>3
  <1>13. OneExecution'
    <2>1. \A r \in Requests : p[r].key # NoKey /\ p[r].key = y.key => p[r].term # y.term
      BY <1>9
    <2> QED  BY <1>1, <2>1 DEF Inv, OneExecution
  <1>14. NoLeases'  BY DEF Inv, NoLeases
  <1>15. ASSUME NEW s \in Sessions PROVE Settled(s)'
    <2>1. Settled(s)  BY DEF Inv
    <2>2. CASE s = y.sid /\ y.at \in Waiting  BY <1>1, <2>2 DEF Settled
    <2>3. CASE session'[s] = session[s] \/ session'[s] = "done"
      <3>1. (\A r \in Requests : p'[r].at \in Waiting => p'[r].sid # s)
              => \A r \in Requests : p[r].at \in Waiting => p[r].sid # s
        BY <1>1, <1>3
      <3> QED  BY <2>1, <2>3, <3>1 DEF Settled
    <2> QED  BY <2>2, <2>3
  <1>16. OutcomeStep  BY <1>2, <1>3 DEF OutcomeStep
  <1> QED  BY <1>8, <1>10, <1>11, <1>12, <1>13, <1>14, <1>15, <1>16 DEF Kept, Inv

\* A pipeline that begins.
Fresh(key, s, route, t, stage) ==
    [Idle EXCEPT !.key = key, !.sid = s, !.route = route, !.term = t, !.at = stage]

LEMMA FreshPipe ==
    ASSUME NEW key \in Keys \cup {NoKey}, NEW s \in Sessions \cup {NoSession},
           NEW route \in RouteType, NEW t \in Nat, NEW stage \in {"over", "prepare", "workers", "host"}
    PROVE  LET y == Fresh(key, s, route, t, stage)
           IN  /\ y \in Pipe /\ y.key = key /\ y.sid = s /\ y.term = t /\ y.at = stage
               /\ y.result = "none" /\ Reviewed(y)
  <1> USE DEF Fresh
  <1> DEFINE y == Fresh(key, s, route, t, stage)
  <1>1. stage \in Stages  BY DEF Stages
  <1>2. y \in Pipe  BY <1>1, IdlePipe DEF Pipe
  <1>3. y.key = key /\ y.sid = s /\ y.term = t /\ y.at = stage /\ y.result = "none"
    BY DEF Idle
  <1>4. /\ y.draft = 0 /\ y.tries = 0 /\ y.judged = "none" /\ y.passed = 0 /\ y.blocked = 0
        /\ y.boss = "none" /\ y.approved = 0
    BY DEF Idle
  <1> HIDE DEF y
  <1>5. Reviewed(y)  BY <1>3, <1>4 DEF Reviewed, Releasable, Unreviewed
  <1> QED  BY <1>2, <1>3, <1>5 DEF y

LEMMA RunStep == ASSUME Inv, NEW q \in Requests, Run(q) PROVE Kept
  <1>0. PICK a \in Arrivals :
           /\ alive /\ p[q].at = "idle" /\ ~Found(a) /\ UNCHANGED <<ledger, Outer>>
           /\ \E s \in SessionsOf(a) : Begin(q, a, s)
    BY DEF Run
  <1>1. PICK s \in SessionsOf(a) :
           /\ alive /\ p[q].at = "idle" /\ ~Found(a) /\ Begin(q, a, s) /\ UNCHANGED <<ledger, Outer>>
    BY <1>0
  <1> DEFINE t == IF a.key = NoKey THEN 0 ELSE term[a.key]
             known == a.persist \/ Known(s)
  <1>2. /\ a.key \in Keys \cup {NoKey} /\ a.route \in RouteType /\ s \in Sessions \cup {NoSession}
        /\ a.body \in {b.body : b \in Arrivals}
    BY ArrivalsAssumption DEF SessionsOf
  <1>3. t \in Nat  BY <1>2 DEF Inv, Typed
  <1>4. a.key # NoKey => idem[a.key].status = "none" /\ t = term[a.key]  BY <1>1 DEF Found
  <1>5. UNCHANGED <<ledger, lease, alive, outside, exits, term>>  BY <1>1 DEF Outer
  <1> HIDE DEF t
  <1>6. session \in [Sessions -> SessionStatus] /\ reply \in [Requests -> Codes]
    BY DEF Inv, Typed
  <1>7. CASE a.dry
    <2> DEFINE y == Fresh(a.key, s, a.route, t, "over")
               is == IF known THEN "complete" ELSE "failed"
    <2>1. /\ p' = [p EXCEPT ![q] = y] /\ run' = [run EXCEPT ![q] = "done"]
          /\ session' = IF known THEN Updated(s, "done") ELSE session
          /\ reply' = [reply EXCEPT ![q] = IF known THEN 200 ELSE 500]
          /\ idem' = IF a.key = NoKey THEN idem
                     ELSE [idem EXCEPT ![a.key] = [status |-> is, body |-> a.body, by |-> q]]
      <3>1. [[Idle EXCEPT !.key = a.key, !.sid = s, !.route = a.route, !.term = t] EXCEPT !.at = "over"]
              = y
        BY DEF Idle, Fresh
      <3> QED  BY <1>1, <1>7, <3>1 DEF Begin, SaveRun, t
    <2>2. /\ y \in Pipe /\ y.key = a.key /\ y.sid = s /\ y.term = t /\ y.at = "over"
          /\ y.result = "none" /\ Reviewed(y)
      <3>1. "over" \in {"over", "prepare", "workers", "host"}  OBVIOUS
      <3> QED  BY <1>2, <1>3, <3>1, FreshPipe, Zenon
    <2> HIDE DEF y
    <2>3. session' \in [Sessions -> SessionStatus]
          /\ \A r \in Sessions : session'[r] = session[r] \/ session'[r] = "done"
      BY <1>2, <1>6, <2>1 DEF Updated, SaveSession, SessionStatus
    <2>4. reply' \in [Requests -> Codes]  BY <1>6, <2>1 DEF Codes
    <2>5. is \in {"complete", "failed"}  OBVIOUS
    <2> HIDE DEF is
    <2>6. y.at \notin Waiting  BY <2>2 DEF Waiting
    <2>7. idem' = IF y.key = NoKey THEN idem
                  ELSE [idem EXCEPT ![y.key] = [status |-> is, body |-> a.body, by |-> q]]
      BY <2>1, <2>2
    <2>8. y.key # NoKey => idem[y.key].status = "none" /\ y.term = term[y.key]
      BY <1>4, <2>2
    <2>9. p' = [p EXCEPT ![q] = y] /\ run' = [run EXCEPT ![q] = "done"]  BY <2>1
    <2>10. /\ "done" \in {"done", "running"} /\ is \in {"running", "complete", "failed"}
           /\ (y.at = "over" /\ "done" = "done") \/ (y.at \in Waiting /\ "done" = "running")
           /\ y.at \in Waiting => is = "running"
      BY <2>2, <2>5, <2>6
    <2>11. alive /\ p[q].at = "idle" /\ a.body \in {b.body : b \in Arrivals}  BY <1>1, <1>2
    <2> QED  BY <1>5, <2>2, <2>3, <2>4, <2>5, <2>7, <2>8, <2>9, <2>10, <2>11, ArriveStep
  <1>8. CASE ~a.dry
    <2> DEFINE y == Fresh(a.key, s, a.route, t, First(a.route))
    <2>1. /\ p' = [p EXCEPT ![q] = y] /\ run' = [run EXCEPT ![q] = "running"]
          /\ session' = IF a.persist THEN Updated(s, "working") ELSE session
          /\ UNCHANGED reply
          /\ idem' = IF a.key = NoKey THEN idem
                     ELSE [idem EXCEPT ![a.key] = [status |-> "running", body |-> a.body, by |-> q]]
      <3>1. [[Idle EXCEPT !.key = a.key, !.sid = s, !.route = a.route, !.term = t]
               EXCEPT !.at = First(a.route)] = y
        BY DEF Idle, Fresh
      <3> QED  BY <1>1, <1>8, <3>1 DEF Begin, SaveRun, t
    <2>2. First(a.route) \in {"prepare", "workers", "host"}  BY DEF First
    <2>3. /\ y \in Pipe /\ y.key = a.key /\ y.sid = s /\ y.term = t /\ y.at = First(a.route)
          /\ y.result = "none" /\ Reviewed(y)
      <3> DEFINE stage == First(a.route)
      <3>1. stage \in {"over", "prepare", "workers", "host"}  BY <2>2
      <3> HIDE DEF stage
      <3>2. LET z == Fresh(a.key, s, a.route, t, stage)
            IN  /\ z \in Pipe /\ z.key = a.key /\ z.sid = s /\ z.term = t /\ z.at = stage
                /\ z.result = "none" /\ Reviewed(z)
        BY <1>2, <1>3, <3>1, FreshPipe
      <3> QED  BY <3>2 DEF stage
    <2> HIDE DEF y
    <2>4. y.at \in Waiting /\ y.at # "over"  BY <2>2, <2>3 DEF Waiting, Stages
    <2>5. session' \in [Sessions -> SessionStatus]
          /\ \A r \in Sessions : session'[r] = session[r] \/ (r = y.sid /\ y.at \in Waiting)
      BY <1>2, <1>6, <2>1, <2>3, <2>4 DEF Updated, SaveSession, SessionStatus, Unfinished
    <2>6. reply' \in [Requests -> Codes]  BY <1>6, <2>1
    <2> QED  BY <1>1, <1>2, <1>4, <1>5, <2>1, <2>3, <2>4, <2>5, <2>6, ArriveStep
  <1> QED  BY <1>7, <1>8

LEMMA ReplayStep == ASSUME Inv, NEW q \in Requests, Replay(q) PROVE Kept
  <1>1. PICK a \in Arrivals :
           /\ alive /\ p[q].at = "idle" /\ reply' = [reply EXCEPT ![q] = ReplayStatus(a)]
           /\ p' = [p EXCEPT ![q].at = "over"]
           /\ UNCHANGED <<run, session, idem, ledger, lease, alive, outside, exits, term>>
    BY DEF Replay, Outer
  <1> DEFINE y == [p[q] EXCEPT !.at = "over"]
  <1>2. /\ p[q] = Idle /\ run[q] = "none" /\ ledger[q] = <<>> /\ p[q].at \notin Waiting
        /\ p[q] \in Pipe
    BY <1>1, IdleTurn, IdlePipe
  <1>3. y \in Pipe /\ y.at = "over" /\ Moved(p[q], y)
    <2>1. "over" \in Stages  BY DEF Stages
    <2> QED  BY <1>2, <2>1, StageMoved
  <1>4. p' = [p EXCEPT ![q] = y]  BY <1>1
  <1> HIDE DEF y
  <1>5. p'[q] = y /\ \A r \in Requests \ {q} : p'[r] = p[r]  BY <1>4 DEF Inv, Typed
  <1>6. y.key = NoKey /\ y.result = "none"  BY <1>2, <1>3 DEF Moved, Same, Idle
  <1>7. Typed'
    <2>1. ReplayStatus(a) \in Codes  BY DEF ReplayStatus, Codes
    <2>2. reply' \in [Requests -> Codes]  BY <1>1, <2>1 DEF Inv, Typed
    <2>3. p' \in [Requests -> Pipe]  BY <1>3, <1>4 DEF Inv, Typed
    <2> QED  BY <1>1, <2>2, <2>3 DEF Inv, Typed
  <1>8. ASSUME NEW r \in Requests \ {q} PROVE Turn(r)'  BY <1>1, <1>5, OthersTurn DEF Inv
  <1>9. Turn(q)'
    <2>1. Reviewed(y)  BY <1>3, <1>6 DEF Reviewed, Releasable
    <2>2. Reviewed(p[q])'
      BY <1>5, <2>1 DEF Reviewed, Releasable, Present, Unreviewed, Outcome
    <2>3. Claimed(q)'  BY <1>5, <1>6 DEF Claimed
    <2>4. Rowed(q)'  BY <1>1, <1>2, <1>3, <1>5 DEF Rowed, Waiting
    <2>5. Truth(q)'
      <3>1. run'[q] = "none" /\ ledger'[q] = <<>> /\ Len(ledger'[q]) = 0  BY <1>1, <1>2
      <3>2. p'[q].result = "none"  BY <1>5, <1>6
      <3> QED  BY <3>1, <3>2 DEF Truth
    <2> QED  BY <2>2, <2>3, <2>4, <2>5 DEF Turn
  <1>10. ASSUME NEW k \in Keys PROVE Recorded(k)'
    <2>1. Recorded(k)  BY DEF Inv
    <2>2. idem[k].status # "none" => idem[k].by # q  BY <1>2, <2>1 DEF Recorded, Idle
    <2> QED  BY <1>1, <1>5, <2>1, <2>2 DEF Recorded
  <1>11. OneExecution'  BY <1>5, <1>6 DEF Inv, OneExecution
  <1>12. NoLeases'  BY <1>1 DEF Inv, NoLeases
  <1>13. ASSUME NEW s \in Sessions PROVE Settled(s)'
    <2>1. Settled(s)  BY DEF Inv
    <2> QED  BY <1>1, <1>2, <1>5, <2>1 DEF Settled
  <1>14. OutcomeStep  BY <1>1 DEF OutcomeStep
  <1> QED  BY <1>7, <1>8, <1>9, <1>10, <1>11, <1>12, <1>13, <1>14 DEF Kept, Inv

-----------------------------------------------------------------------------
(* Sessions, leases and feedback *)

\* What only the sessions and the leases see.
LEMMA RouteStep ==
    ASSUME Inv, UNCHANGED <<run, idem, p, reply, ledger, alive, exits, term>>,
           session' \in [Sessions -> SessionStatus], lease' \in [Leases -> Lease],
           outside' \in 0..MaxOutside, NoLeases', \A s \in Sessions : Settled(s)'
    PROVE  Kept
  <1>1. Typed'  BY DEF Inv, Typed
  <1>2. ASSUME NEW r \in Requests PROVE Turn(r)'  BY OthersTurn DEF Inv
  <1>3. ASSUME NEW k \in Keys PROVE Recorded(k)'  BY DEF Inv, Recorded
  <1>4. OneExecution'  BY DEF Inv, OneExecution
  <1>5. OutcomeStep  BY DEF OutcomeStep
  <1> QED  BY <1>1, <1>2, <1>3, <1>4, <1>5 DEF Kept, Inv

LEMMA OutsideStep ==
    ASSUME Inv, Outside, UNCHANGED Inner,
           session' \in [Sessions -> SessionStatus], lease' \in [Leases -> Lease]
    PROVE  Kept
  <1>1. UNCHANGED <<run, idem, p, reply, ledger, alive, exits, term>>  BY DEF Inner
  <1>2. outside' \in 0..MaxOutside /\ outside' # 0  BY DEF Outside, Inv, Typed
  <1>3. NoLeases'  BY <1>2 DEF NoLeases
  <1>4. \A s \in Sessions : Settled(s)'  BY <1>2 DEF Settled
  <1> QED  BY <1>1, <1>2, <1>3, <1>4, RouteStep

LEMMA RoutesStep ==
    ASSUME Inv, NEW s \in Sessions, Create(s) \/ Patch(s) \/ Escalate(s) \/ BossReview(s)
    PROVE  Kept
  <1>1. lease' = lease /\ lease' \in [Leases -> Lease] /\ Outside /\ UNCHANGED Inner
    BY DEF Create, Patch, Escalate, BossReview, Move, Inv, Typed
  <1>2. PICK status \in SessionStatus : session' = [session EXCEPT ![s] = status]
    <2>1. CASE Create(s)
      BY <2>1 DEF Create, SaveSession, SessionStatus, Unfinished
    <2>2. CASE Patch(s)
      BY <2>2, PatchesAssumption DEF Patch, Move, SaveSession, SessionStatus, Unfinished
    <2>3. CASE Escalate(s)
      BY <2>3 DEF Escalate, Move, SaveSession, SessionStatus, Unfinished
    <2>4. CASE BossReview(s)
      <3>1. PICK verdict \in BossVerdicts : session' = [session EXCEPT ![s] = BossStatus(verdict)]
        BY <2>4 DEF BossReview, Move, SaveSession
      <3>2. BossStatus(verdict) \in SessionStatus  BY DEF BossStatus, SessionStatus, Unfinished
      <3> QED  BY <3>1, <3>2
    <2> QED  BY <2>1, <2>2, <2>3, <2>4
  <1>3. session' \in [Sessions -> SessionStatus]  BY <1>2 DEF Inv, Typed
  <1> QED  BY <1>1, <1>3, OutsideStep

\* The session of a cancellation, and the leases of it that are not over.
LEMMA CancelledRows ==
    ASSUME Inv, NEW s \in Sessions, Cancelled(s)
    PROVE  /\ session' \in [Sessions -> SessionStatus] /\ lease' \in [Leases -> Lease]
           /\ \A r \in Sessions : r # s => session'[r] = session[r]
           /\ LeasesOf(s) = {} => lease' = lease
  <1>1. /\ session' = [session EXCEPT ![s] = "cancelled"]
        /\ lease' = [w \in Leases |->
                    IF w \in LeasesOf(s) /\ lease[w].status \in {"queued", "running", "paused"}
                    THEN [lease[w] EXCEPT !.status = "cancelled"] ELSE lease[w]]
    BY DEF Cancelled, SaveSession
  <1>2. \A w \in Leases : lease[w] \in Lease  BY DEF Inv, Typed
  <1>3. \A w \in Leases : [lease[w] EXCEPT !.status = "cancelled"] \in Lease
    BY <1>2 DEF Lease, LeaseStatus
  <1>4. lease' \in [Leases -> Lease]  BY <1>1, <1>2, <1>3
  <1>5. lease = [w \in Leases |-> lease[w]]  BY DEF Inv, Typed
  <1> QED  BY <1>1, <1>4, <1>5 DEF Inv, Typed, SessionStatus

LEMMA CancelStep == ASSUME Inv, NEW s \in Sessions, Cancel(s) PROVE Kept
  <1>1. Outside /\ Cancelled(s) /\ UNCHANGED Inner  BY DEF Cancel
  <1>2. session' \in [Sessions -> SessionStatus] /\ lease' \in [Leases -> Lease]
    BY <1>1, CancelledRows
  <1> QED  BY <1>1, <1>2, OutsideStep

LEMMA StaleStep == ASSUME Inv, NEW s \in Sessions, Stale(s) PROVE Kept
  <1>1. /\ session[s] \in Unfinished /\ Cancelled(s)
        /\ \A q \in Requests : ~(p[q].at \in Waiting /\ p[q].sid = s)
        /\ UNCHANGED <<run, idem, p, reply, ledger, alive, exits, term, outside>>
    BY DEF Stale, Inner
  <1>2. /\ session' \in [Sessions -> SessionStatus] /\ lease' \in [Leases -> Lease]
        /\ LeasesOf(s) = {} => lease' = lease
    BY <1>1, CancelledRows
  <1>3. outside' \in 0..MaxOutside  BY <1>1 DEF Inv, Typed
  <1>4. ~(outside = 0 /\ exits = 0)
    <2>1. Settled(s)  BY DEF Inv
    <2> QED  BY <1>1, <2>1 DEF Settled, Unfinished
  <1>5. NoLeases'
    <2>1. NoLeases  BY DEF Inv
    <2>2. CASE outside # 0  BY <1>1, <2>2 DEF NoLeases
    <2>3. CASE outside = 0
      <3>1. LeasesOf(s) = {}  BY <2>1, <2>3 DEF NoLeases, LeasesOf
      <3> QED  BY <1>1, <1>2, <2>1, <3>1 DEF NoLeases
    <2> QED  BY <2>2, <2>3
  <1>6. \A r \in Sessions : Settled(r)'  BY <1>1, <1>4 DEF Settled
  <1> QED  BY <1>1, <1>2, <1>3, <1>5, <1>6, RouteStep

LEMMA DispatchStep ==
    ASSUME Inv, NEW w \in Leases, NEW s \in Sessions, Dispatch(w, s) PROVE Kept
  <1>1. PICK managed \in BOOLEAN :
           /\ Outside /\ session' = [session EXCEPT ![s] = "working"] /\ UNCHANGED Inner
           /\ lease' = [lease EXCEPT ![w] = [sid |-> s, call |-> managed,
                                        status |-> IF managed THEN "running" ELSE "queued"]]
    BY DEF Dispatch, SaveSession
  <1> DEFINE x == [sid |-> s, call |-> managed, status |-> IF managed THEN "running" ELSE "queued"]
  <1>2. x \in Lease  BY DEF Lease, LeaseStatus
  <1> HIDE DEF x
  <1>3. lease' \in [Leases -> Lease]  BY <1>1, <1>2 DEF x, Inv, Typed
  <1>4. session' \in [Sessions -> SessionStatus]
    BY <1>1 DEF Inv, Typed, SessionStatus, Unfinished
  <1> QED  BY <1>1, <1>3, <1>4, OutsideStep

\* The rows a worker event writes.
LEMMA EventRows ==
    ASSUME Inv, NEW w \in Leases, NEW status \in LeaseStatus, NEW call \in BOOLEAN,
           NEW ends, NEW pauses, lease' = SaveWorker(w, status, call), Evented(w, status, ends, pauses)
    PROVE  session' \in [Sessions -> SessionStatus] /\ lease' \in [Leases -> Lease]
  <1>1. lease \in [Leases -> Lease] /\ lease[w] \in Lease  BY DEF Inv, Typed
  <1>2. lease' \in [Leases -> Lease]
    <2> DEFINE x == [lease[w] EXCEPT !.status = status, !.call = call]
    <2>1. x \in Lease  BY <1>1 DEF Lease
    <2>2. lease' = [lease EXCEPT ![w] = x]  BY <1>1 DEF SaveWorker
    <2> HIDE DEF x
    <2> QED  BY <1>1, <2>1, <2>2
  <1>3. \/ session' = [session EXCEPT ![lease[w].sid] = "failed"]
        \/ session' = [session EXCEPT ![lease[w].sid] = "paused"]
        \/ session' = [session EXCEPT ![lease[w].sid] = "working"]
        \/ session' = session
    BY DEF Evented, Noted, SaveSession
  <1>4. session' \in [Sessions -> SessionStatus]
    BY <1>3 DEF Inv, Typed, SessionStatus, Unfinished
  <1> QED  BY <1>2, <1>4

LEMMA WorkerEventStep == ASSUME Inv, NEW w \in Leases, WorkerEvent(w) PROVE Kept
  <1>1. PICK ends \in {"no", "done", "failed"}, pauses \in BOOLEAN :
           /\ Outside /\ UNCHANGED Inner
           /\ lease' = SaveWorker(w, IF ends # "no" THEN ends ELSE IF pauses THEN "paused"
                                     ELSE IF lease[w].status = "queued" THEN "running"
                                     ELSE lease[w].status, lease[w].call)
           /\ Evented(w, IF ends # "no" THEN ends ELSE IF pauses THEN "paused"
                         ELSE IF lease[w].status = "queued" THEN "running"
                         ELSE lease[w].status, ends, pauses)
    BY DEF WorkerEvent
  <1> DEFINE status == IF ends # "no" THEN ends ELSE IF pauses THEN "paused"
                       ELSE IF lease[w].status = "queued" THEN "running" ELSE lease[w].status
  <1>2. status \in LeaseStatus /\ lease[w].call \in BOOLEAN  BY DEF Inv, Typed, Lease, LeaseStatus
  <1> HIDE DEF status
  <1>3. lease' = SaveWorker(w, status, lease[w].call) /\ Evented(w, status, ends, pauses)
    BY <1>1 DEF status
  <1>4. session' \in [Sessions -> SessionStatus] /\ lease' \in [Leases -> Lease]
    BY <1>2, <1>3, EventRows
  <1> QED  BY <1>1, <1>4, OutsideStep

LEMMA ManagedAnswerStep == ASSUME Inv, NEW w \in Leases, ManagedAnswer(w) PROVE Kept
  <1>1. PICK status \in {"done", "failed"}, pauses \in BOOLEAN :
           /\ lease[w].call /\ lease' = SaveWorker(w, status, FALSE)
           /\ Evented(w, status, status, pauses)
           /\ UNCHANGED <<run, idem, p, reply, ledger, alive, exits, term, outside>>
    BY DEF ManagedAnswer, Inner
  <1>2. status \in LeaseStatus /\ FALSE \in BOOLEAN  BY DEF LeaseStatus
  <1>3. session' \in [Sessions -> SessionStatus] /\ lease' \in [Leases -> Lease]
    <2>1. lease' = SaveWorker(w, status, FALSE) /\ Evented(w, status, status, pauses)  BY <1>1
    <2> QED  BY <1>2, <2>1, EventRows, Zenon
  <1>4. outside # 0  BY <1>1 DEF Inv, NoLeases
  <1>5. NoLeases' /\ \A s \in Sessions : Settled(s)'  BY <1>1, <1>4 DEF NoLeases, Settled
  <1>6. outside' \in 0..MaxOutside  BY <1>1 DEF Inv, Typed
  <1> QED  BY <1>1, <1>3, <1>5, <1>6, RouteStep

LEMMA FeedbackStep == ASSUME Inv, NEW q \in Requests, AppendOutcomeFeedback(q) PROVE Kept
  <1>1. PICK accepted \in {"yes", "no"} :
           /\ outside < MaxOutside /\ outside' = outside + 1 /\ ledger[q] # <<>>
           /\ ledger' = [ledger EXCEPT ![q] =
                            Append(@, [ledger[q][Len(ledger[q])] EXCEPT !.accepted = accepted])]
           /\ UNCHANGED <<run, session, lease, idem, p, reply, alive, exits, term>>
    BY DEF AppendOutcomeFeedback, Outside, AppendOutcome
  <1>2. ledger \in [Requests -> Seq(Passport)] /\ ledger[q] \in Seq(Passport)  BY DEF Inv, Typed
  <1> DEFINE last == ledger[q][Len(ledger[q])]
             next == [last EXCEPT !.accepted = accepted]
  <1>3. last \in Passport
    <2>1. Len(ledger[q]) \in 1..Len(ledger[q])  BY <1>1, <1>2
    <2> QED  BY <1>2, <2>1
  <1> HIDE DEF last
  <1>4. next \in Passport /\ next.verdict = last.verdict
    <2>1. accepted \in {"none", "yes", "no"}  OBVIOUS
    <2> QED  BY <1>3, <2>1 DEF Passport
  <1>5. ledger' = [ledger EXCEPT ![q] = Append(ledger[q], next)]  BY <1>1 DEF last
  <1> HIDE DEF next
  <1>6. /\ ledger'[q] = Append(ledger[q], next) /\ Append(ledger[q], next) \in Seq(Passport)
        /\ ledger'[q] # <<>>
        /\ \A r \in Requests \ {q} : ledger'[r] = ledger[r]
    BY <1>2, <1>4, <1>5
  <1>7. outside' \in 0..MaxOutside /\ outside' # 0  BY <1>1 DEF Inv, Typed
  <1>8. Typed'
    <2>1. ledger' \in [Requests -> Seq(Passport)]  BY <1>2, <1>5, <1>6
    <2> QED  BY <1>1, <1>7, <2>1 DEF Inv, Typed
  <1>9. ASSUME NEW r \in Requests \ {q} PROVE Turn(r)'
    BY <1>1, <1>6, OthersTurn DEF Inv
  <1>10. Turn(q)'
    <2>1. Turn(q)  BY DEF Inv
    <2>2. Reviewed(p[q])'
      BY <1>1, <2>1 DEF Turn, Reviewed, Releasable, Present, Unreviewed, Outcome
    <2>3. Claimed(q)' /\ Rowed(q)'  BY <1>1, <2>1 DEF Turn, Claimed, Rowed
    <2>4. Truth(q)'
      <3> DEFINE told == IF p[q].result = "done"
                         THEN IF p[q].draft > 1 THEN "revised" ELSE "success" ELSE run[q]
      <3>1. \A i \in 1..Len(ledger[q]) : ledger[q][i].verdict = told  BY <2>1 DEF Turn, Truth
      <3>2. last.verdict = told
        <4>1. Len(ledger[q]) \in 1..Len(ledger[q])  BY <1>1, <1>2
        <4> QED  BY <3>1, <4>1 DEF last
      <3>3. ASSUME NEW i \in 1..Len(ledger'[q]) PROVE ledger'[q][i].verdict = told
        <4> HIDE DEF told
        <4>1. i \in 1..(Len(ledger[q]) + 1)  BY <1>2, <1>4, <1>6
        <4>2. CASE i = Len(ledger[q]) + 1
          <5>1. ledger'[q][i] = next  BY <1>2, <1>4, <1>6, <4>2
          <5> QED  BY <1>4, <3>2, <5>1
        <4>3. CASE i \in 1..Len(ledger[q])
          <5>1. ledger'[q][i] = ledger[q][i]  BY <1>2, <1>4, <1>6, <4>3
          <5> QED  BY <3>1, <4>3, <5>1
        <4> QED  BY <1>2, <4>1, <4>2, <4>3
      <3>4. run'[q] = run[q] /\ p'[q] = p[q] /\ alive' = alive  BY <1>1
      <3>5. alive /\ run[q] = "running" => p[q].at \in Waiting  BY <2>1 DEF Turn, Truth
      <3> QED  BY <1>6, <3>3, <3>4, <3>5 DEF Truth
    <2> QED  BY <2>2, <2>3, <2>4 DEF Turn
  <1>11. ASSUME NEW k \in Keys PROVE Recorded(k)'  BY <1>1 DEF Inv, Recorded
  <1>12. OneExecution'  BY <1>1 DEF Inv, OneExecution
  <1>13. NoLeases' /\ \A s \in Sessions : Settled(s)'  BY <1>7 DEF NoLeases, Settled
  <1>14. OutcomeStep  BY <1>1 DEF OutcomeStep
  <1> QED  BY <1>8, <1>9, <1>10, <1>11, <1>12, <1>13, <1>14 DEF Kept, Inv

-----------------------------------------------------------------------------
(* Time and the process *)

\* Rows that said running have become abandoned, and no other row is different.
LEMMA AbandonedStep ==
    ASSUME Inv, alive' \in BOOLEAN,
           run' \in [Requests -> RunStatus],
           \A q \in Requests : run'[q] = run[q] \/ (run[q] \in Live /\ run'[q] = "abandoned"),
           alive' => alive \/ \A q \in Requests : run'[q] # "running",
           UNCHANGED <<session, lease, idem, p, reply, ledger, outside, exits, term>>
    PROVE  Kept
  <1>1. Typed'  BY DEF Inv, Typed
  <1>2. ASSUME NEW q \in Requests PROVE Turn(q)'
    <2>1. Turn(q)  BY DEF Inv
    <2>2. Reviewed(p[q])'
      BY <2>1 DEF Turn, Reviewed, Releasable, Present, Unreviewed, Outcome
    <2>3. Claimed(q)'  BY <2>1 DEF Turn, Claimed
    <2>4. Rowed(q)'  BY <2>1 DEF Turn, Rowed, Live, Waiting
    <2>5. Truth(q)'
      <3>1. run'[q] = "running" => run[q] = "running"  OBVIOUS
      <3>2. ledger[q] # <<>> => run'[q] = run[q]  BY <2>1 DEF Turn, Rowed, Live
      <3>3. ledger[q] = <<>> => Len(ledger[q]) = 0  OBVIOUS
      <3> QED  BY <2>1, <3>1, <3>2, <3>3 DEF Turn, Truth
    <2> QED  BY <2>2, <2>3, <2>4, <2>5 DEF Turn
  <1>3. ASSUME NEW k \in Keys PROVE Recorded(k)'
    <2>1. Recorded(k)  BY DEF Inv
    <2> QED  BY <2>1 DEF Recorded, Live
  <1>4. OneExecution'  BY DEF Inv, OneExecution
  <1>5. NoLeases' /\ \A s \in Sessions : Settled(s)'  BY DEF Inv, NoLeases, Settled
  <1>6. OutcomeStep  BY DEF OutcomeStep, Live
  <1> QED  BY <1>1, <1>2, <1>3, <1>4, <1>5, <1>6 DEF Kept, Inv

LEMMA ExpireStep == ASSUME Inv, NEW q \in Requests, ExpireRun(q) PROVE Kept
  <1>1. /\ alive /\ run[q] \in Live /\ run' = [run EXCEPT ![q] = "abandoned"]
        /\ UNCHANGED <<session, lease, idem, p, reply, ledger, alive, outside, exits, term>>
    BY DEF ExpireRun, SaveRun
  <1>2. run \in [Requests -> RunStatus]  BY DEF Inv, Typed
  <1>3. run' \in [Requests -> RunStatus]  BY <1>1, <1>2 DEF RunStatus
  <1>4. \A r \in Requests : run'[r] = run[r] \/ (run[r] \in Live /\ run'[r] = "abandoned")
    BY <1>1, <1>2
  <1>5. alive' \in BOOLEAN  BY <1>1 DEF Inv, Typed
  <1> QED  BY <1>1, <1>3, <1>4, <1>5, AbandonedStep

LEMMA RestartStep == ASSUME Inv, Restart PROVE Kept
  <1>1. /\ alive' = TRUE
        /\ run' = [q \in Requests |-> IF run[q] = "running" THEN "abandoned" ELSE run[q]]
        /\ UNCHANGED <<session, lease, idem, p, reply, ledger, outside, exits, term>>
    BY DEF Restart
  <1>2. run \in [Requests -> RunStatus]  BY DEF Inv, Typed
  <1>3. run' \in [Requests -> RunStatus]  BY <1>1, <1>2 DEF RunStatus
  <1>4. \A r \in Requests : run'[r] = run[r] \/ (run[r] \in Live /\ run'[r] = "abandoned")
    BY <1>1, <1>2 DEF Live
  <1>5. \A r \in Requests : run'[r] # "running"  BY <1>1
  <1> QED  BY <1>1, <1>3, <1>4, <1>5, AbandonedStep

LEMMA ForgetStep == ASSUME Inv, NEW k \in Keys, ForgetKey(k) PROVE Kept
  <1>1. /\ idem[k].status # "none" /\ p[idem[k].by].at \notin Waiting
        /\ idem' = [idem EXCEPT ![k] = NoRecord] /\ term' = [term EXCEPT ![k] = term[k] + 1]
        /\ UNCHANGED <<run, session, lease, p, reply, ledger, alive, outside, exits>>
    BY DEF ForgetKey
  <1>2. /\ idem'[k].status = "none" /\ term'[k] = term[k] + 1 /\ term[k] \in Nat
        /\ \A j \in Keys \ {k} : idem'[j] = idem[j] /\ term'[j] = term[j]
    BY <1>1 DEF Inv, Typed, NoRecord
  <1>3. Typed'
    <2>1. NoRecord \in Record  BY DEF NoRecord, Record
    <2>2. idem' \in [Keys -> Record]  BY <1>1, <2>1 DEF Inv, Typed
    <2>3. term' \in [Keys -> Nat]  BY <1>1, <1>2 DEF Inv, Typed
    <2> QED  BY <1>1, <2>2, <2>3 DEF Inv, Typed
  <1>4. ASSUME NEW q \in Requests PROVE Turn(q)'
    <2>1. Turn(q)  BY DEF Inv
    <2>2. Reviewed(p[q])'
      BY <1>1, <2>1 DEF Turn, Reviewed, Releasable, Present, Unreviewed, Outcome
    <2>3. p[q] \in Pipe  BY DEF Inv, Typed
    <2>4. p[q].key \in Keys \cup {NoKey} /\ p[q].term \in Nat  BY <2>3 DEF Pipe
    <2>5. Claimed(q)'
      <3>1. CASE p[q].key = k
        <4>1. p[q].at \notin Waiting  BY <1>1, <2>1, <3>1 DEF Turn, Claimed
        <4>2. p[q].term <= term[k]  BY <2>1, <3>1 DEF Turn, Claimed
        <4>3. p[q].term <= term'[k] /\ p[q].term # term'[k]  BY <1>2, <2>4, <4>2
        <4> QED  BY <1>1, <3>1, <4>1, <4>3 DEF Claimed
      <3>2. CASE p[q].key # k  BY <1>1, <1>2, <2>1, <2>4, <3>2 DEF Turn, Claimed
      <3> QED  BY <3>1, <3>2
    <2>6. Rowed(q)' /\ Truth(q)'  BY <1>1, <2>1 DEF Turn, Rowed, Truth
    <2> QED  BY <2>2, <2>5, <2>6 DEF Turn
  <1>5. ASSUME NEW j \in Keys PROVE Recorded(j)'
    <2>1. Recorded(j)  BY DEF Inv
    <2> QED  BY <1>1, <1>2, <2>1 DEF Recorded
  <1>6. OneExecution'  BY <1>1 DEF Inv, OneExecution
  <1>7. NoLeases' /\ \A s \in Sessions : Settled(s)'  BY <1>1 DEF Inv, NoLeases, Settled
  <1>8. OutcomeStep  BY <1>1 DEF OutcomeStep
  <1> QED  BY <1>3, <1>4, <1>5, <1>6, <1>7, <1>8 DEF Kept, Inv

\* A process that exits takes its pipelines with it.
LostPipe(x) == [Idle EXCEPT !.at = "lost", !.key = x.key, !.term = x.term]

LEMMA LostIs ==
    ASSUME NEW x \in Pipe
    PROVE  /\ LostPipe(x) \in Pipe /\ Reviewed(LostPipe(x)) /\ LostPipe(x).at = "lost"
           /\ LostPipe(x).result = "none" /\ LostPipe(x).key = x.key /\ LostPipe(x).term = x.term
  <1> USE DEF LostPipe
  <1> DEFINE y == LostPipe(x)
  <1>1. "lost" \in Stages /\ x.key \in Keys \cup {NoKey} /\ x.term \in Nat  BY DEF Stages, Pipe
  <1>2. y \in Pipe  BY <1>1, IdlePipe DEF Pipe
  <1>3. y.at = "lost" /\ y.result = "none" /\ y.key = x.key /\ y.term = x.term  BY DEF Idle
  <1> HIDE DEF y
  <1>4. Reviewed(y)  BY <1>3 DEF Reviewed, Releasable
  <1> QED  BY <1>2, <1>3, <1>4 DEF y

LEMMA ExitStep == ASSUME Inv, Exit PROVE Kept
  <1>1. /\ alive' = FALSE /\ exits < MaxExits /\ exits' = exits + 1
        /\ p' = [q \in Requests |-> IF p[q].at \notin Waiting THEN p[q] ELSE LostPipe(p[q])]
        /\ lease' = [w \in Leases |-> [lease[w] EXCEPT !.call = FALSE]]
        /\ UNCHANGED <<run, session, idem, reply, ledger, outside, term>>
    BY DEF Exit, LostPipe
  <1>2. exits' \in 0..MaxExits /\ exits' # 0  BY <1>1 DEF Inv, Typed
  <1>3. ASSUME NEW q \in Requests
        PROVE  /\ p'[q] \in Pipe /\ p'[q].key = p[q].key /\ p'[q].term = p[q].term
               /\ p[q].at \notin Waiting => p'[q] = p[q]
               /\ p[q].at \in Waiting =>
                     p'[q].at = "lost" /\ p'[q].result = "none" /\ Reviewed(p'[q])
               /\ p'[q].at \notin Waiting
    <2>1. p[q] \in Pipe  BY DEF Inv, Typed
    <2>2. CASE p[q].at \notin Waiting  BY <1>1, <2>1, <2>2
    <2>3. CASE p[q].at \in Waiting
      <3>1. p'[q] = LostPipe(p[q])  BY <1>1, <2>3
      <3> QED  BY <2>1, <2>3, <3>1, LostIs DEF Waiting
    <2> QED  BY <2>2, <2>3
  <1>4. \A w \in Leases : lease'[w] \in Lease /\ lease'[w].status = lease[w].status
                          /\ lease'[w].call = FALSE
    <2>1. \A w \in Leases : lease[w] \in Lease  BY DEF Inv, Typed
    <2> QED  BY <1>1, <2>1 DEF Lease
  <1>5. Typed'
    <2>1. p' \in [Requests -> Pipe]
      <3>1. p' = [q \in Requests |-> p'[q]]  BY <1>1
      <3> QED  BY <1>3, <3>1
    <2>2. lease' \in [Leases -> Lease]
      <3>1. lease' = [w \in Leases |-> lease'[w]]  BY <1>1
      <3> QED  BY <1>4, <3>1
    <2> QED  BY <1>1, <1>2, <2>1, <2>2 DEF Inv, Typed
  <1>6. ASSUME NEW q \in Requests PROVE Turn(q)'
    <2>1. Turn(q)  BY DEF Inv
    <2>2. CASE p[q].at \notin Waiting
      <3>1. p'[q] = p[q]  BY <1>3, <2>2
      <3>2. Reviewed(p[q])'
        BY <2>1, <3>1 DEF Turn, Reviewed, Releasable, Present, Unreviewed, Outcome
      <3>3. Claimed(q)' /\ Rowed(q)'  BY <1>1, <2>1, <3>1 DEF Turn, Claimed, Rowed
      <3>4. Truth(q)'  BY <1>1, <2>1, <3>1 DEF Turn, Truth
      <3> QED  BY <3>2, <3>3, <3>4 DEF Turn
    <2>3. CASE p[q].at \in Waiting
      <3>1. /\ p'[q].at = "lost" /\ p'[q].result = "none" /\ Reviewed(p'[q])
            /\ p'[q].key = p[q].key /\ p'[q].term = p[q].term
        BY <1>3, <2>3
      <3>2. ledger'[q] = <<>> /\ Len(ledger'[q]) = 0  BY <1>1, <2>1, <2>3 DEF Turn, Rowed, Waiting
      <3>3. Reviewed(p[q])'
        BY <3>1 DEF Reviewed, Releasable, Present, Unreviewed, Outcome
      <3>4. Claimed(q)'  BY <1>1, <2>1, <3>1 DEF Turn, Claimed, Waiting
      <3>5. Rowed(q)'  BY <3>1, <3>2 DEF Rowed, Waiting
      <3>6. Truth(q)'  BY <1>1, <3>1, <3>2 DEF Truth
      <3> QED  BY <3>3, <3>4, <3>5, <3>6 DEF Turn
    <2> QED  BY <2>2, <2>3
  <1>7. ASSUME NEW k \in Keys PROVE Recorded(k)'
    <2>1. Recorded(k)  BY DEF Inv
    <2>2. idem' = idem /\ run' = run  BY <1>1
    <2> DEFINE q == idem[k].by
    <2>3. CASE idem[k].status # "none"
      <3>1. q \in Requests /\ p[q].key = k  BY <2>1, <2>3 DEF Recorded
      <3> HIDE DEF q
      <3>2. p'[q].key = k  BY <1>3, <3>1
      <3>3. CASE p[q].at \in Waiting
        <4>1. p'[q].at = "lost" /\ idem[k].status \notin {"complete", "failed"}
          BY <1>3, <2>1, <2>3, <3>1, <3>3 DEF Recorded, Waiting, q
        <4> QED  BY <2>2, <3>1, <3>2, <4>1 DEF Recorded, q
      <3>4. CASE p[q].at \notin Waiting
        <4>1. p'[q] = p[q]  BY <1>3, <3>1, <3>4
        <4> QED  BY <2>1, <2>2, <3>1, <4>1 DEF Recorded, q
      <3> QED  BY <3>3, <3>4
    <2> QED  BY <2>2, <2>3 DEF Recorded
  <1>8. OneExecution'  BY <1>3 DEF Inv, OneExecution
  <1>9. NoLeases'  BY <1>1, <1>4 DEF Inv, NoLeases
  <1>10. \A s \in Sessions : Settled(s)'  BY <1>2 DEF Settled
  <1>11. OutcomeStep  BY <1>1 DEF OutcomeStep
  <1> QED  BY <1>5, <1>6, <1>7, <1>8, <1>9, <1>10, <1>11 DEF Kept, Inv

-----------------------------------------------------------------------------
(* The invariant *)

LEMMA Initial == Init => Inv
  <1> SUFFICES ASSUME Init PROVE Inv  OBVIOUS
  <1>1. Idle \in Pipe /\ NoRecord \in Record /\ [sid |-> NoSession, status |-> "none", call |-> FALSE] \in Lease
    BY IdlePipe DEF NoRecord, Record, Lease, LeaseStatus
  <1>2. Typed
    <2>1. p \in [Requests -> Pipe] /\ idem \in [Keys -> Record] /\ lease \in [Leases -> Lease]
      BY <1>1 DEF Init
    <2>2. ledger \in [Requests -> Seq(Passport)]  BY DEF Init
    <2>3. run \in [Requests -> RunStatus] /\ session \in [Sessions -> SessionStatus]
      BY DEF Init, RunStatus, SessionStatus
    <2>4. reply \in [Requests -> Codes] /\ term \in [Keys -> Nat]  BY DEF Init, Codes
    <2>5. alive \in BOOLEAN /\ outside \in 0..MaxOutside /\ exits \in 0..MaxExits  BY DEF Init
    <2> QED  BY <2>1, <2>2, <2>3, <2>4, <2>5 DEF Typed
  <1>3. ASSUME NEW q \in Requests PROVE Turn(q)
    <2>1. p[q] = Idle /\ run[q] = "none" /\ ledger[q] = <<>> /\ Len(ledger[q]) = 0  BY DEF Init
    <2>2. /\ Idle.at = "idle" /\ Idle.key = NoKey /\ Idle.result = "none"  BY DEF Idle
    <2>3. Reviewed(p[q])  BY <2>1, <2>2 DEF Reviewed, Releasable
    <2>4. Claimed(q) /\ Rowed(q)  BY <2>1, <2>2 DEF Claimed, Rowed, Waiting
    <2>5. Truth(q)  BY <2>1, <2>2 DEF Truth
    <2> QED  BY <2>3, <2>4, <2>5 DEF Turn
  <1>4. \A k \in Keys : Recorded(k)  BY DEF Init, Recorded, NoRecord
  <1>5. OneExecution  BY DEF Init, OneExecution, Idle
  <1>6. NoLeases /\ \A s \in Sessions : Settled(s)  BY DEF Init, NoLeases, Settled
  <1> QED  BY <1>2, <1>3, <1>4, <1>5, <1>6 DEF Inv

LEMMA StepKept == Inv /\ [Next]_vars => Kept
  <1> SUFFICES ASSUME Inv, [Next]_vars PROVE Kept  OBVIOUS
  <1>1. ASSUME NEW q \in Requests, Run(q) PROVE Kept  BY <1>1, RunStep
  <1>2. ASSUME NEW q \in Requests, Replay(q) PROVE Kept  BY <1>2, ReplayStep
  <1>3. ASSUME NEW q \in Requests, Pipeline(q) PROVE Kept  BY <1>3, PipelineStep
  <1>4. ASSUME NEW q \in Requests, ExpireRun(q) PROVE Kept  BY <1>4, ExpireStep
  <1>5. ASSUME NEW q \in Requests, AppendOutcomeFeedback(q) PROVE Kept  BY <1>5, FeedbackStep
  <1>6. ASSUME NEW s \in Sessions, Create(s) \/ Patch(s) \/ Escalate(s) \/ BossReview(s)
        PROVE  Kept
    BY <1>6, RoutesStep
  <1>7. ASSUME NEW s \in Sessions, Cancel(s) PROVE Kept  BY <1>7, CancelStep
  <1>8. ASSUME NEW s \in Sessions, Stale(s) PROVE Kept  BY <1>8, StaleStep
  <1>9. ASSUME NEW w \in Leases, WorkerEvent(w) PROVE Kept  BY <1>9, WorkerEventStep
  <1>10. ASSUME NEW w \in Leases, ManagedAnswer(w) PROVE Kept  BY <1>10, ManagedAnswerStep
  <1>11. ASSUME NEW w \in Leases, NEW s \in Sessions, Dispatch(w, s) PROVE Kept
    BY <1>11, DispatchStep
  <1>12. ASSUME NEW k \in Keys, ForgetKey(k) PROVE Kept  BY <1>12, ForgetStep
  <1>13. ASSUME Exit PROVE Kept  BY <1>13, ExitStep
  <1>14. ASSUME Restart PROVE Kept  BY <1>14, RestartStep
  <1>15. CASE UNCHANGED vars
    <2>1. UNCHANGED <<run, idem, p, reply, ledger, alive, exits, term, session, lease, outside>>
      BY <1>15 DEF vars
    <2>2. session' \in [Sessions -> SessionStatus] /\ lease' \in [Leases -> Lease]
          /\ outside' \in 0..MaxOutside
      BY <2>1 DEF Inv, Typed
    <2>3. NoLeases' /\ \A s \in Sessions : Settled(s)'  BY <2>1 DEF Inv, NoLeases, Settled
    <2> QED  BY <2>1, <2>2, <2>3, RouteStep
  <1> QED  BY <1>1, <1>2, <1>3, <1>4, <1>5, <1>6, <1>7, <1>8, <1>9, <1>10, <1>11, <1>12, <1>13,
              <1>14, <1>15 DEF Next

LEMMA Invariance == Spec => []Inv
  <1>1. Inv /\ [Next]_vars => Inv'  BY StepKept DEF Kept
  <1> QED  BY Initial, <1>1, PTL DEF Spec

-----------------------------------------------------------------------------
(* What holds of every behaviour *)

\* What is answered as done is the very version that passed the verifier or that
\* the Boss approved, and no version that either of them blocked is ever answered:
\* for every route, verdict and number of revisions, and whatever errors, expired
\* runs and restarts come in between (runZenosPipeline).
THEOREM ReleaseSafeHolds == Spec => []ReleaseSafe
  <1>1. Inv => ReleaseSafe
    <2> SUFFICES ASSUME Inv PROVE ReleaseSafe  OBVIOUS
    <2>1. \A q \in Requests : Releasable(p[q], p[q].result)  BY DEF Inv, Turn, Reviewed
    <2> QED  BY <2>1 DEF ReleaseSafe, ReleasedIsReviewed, BlockedNotReleased, Releasable
  <1> QED  BY Invariance, <1>1, PTL

\* An Idempotency-Key stands for one execution while its record lasts, and the
\* record tells what became of the request that claimed it: for any number of
\* requests and keys, crashes, expired records and failed answers included
\* (claimIdempotency, completeIdempotency).
THEOREM KeyKeptHolds == Spec => []KeyKept
  <1>1. Inv => KeyKept
    <2> SUFFICES ASSUME Inv PROVE KeyKept  OBVIOUS
    <2>1. RecordFollowsRun  BY DEF Inv, RecordFollowsRun, Recorded
    <2> QED  BY <2>1 DEF Inv, KeyKept
  <1> QED  BY Invariance, <1>1, PTL

\* The rows are typed and tell what became of the runs: a run says running only
\* while its pipeline is under way, a session whose runs are over was left done or
\* failed, and the ledger holds a success or a revision for each run that was
\* answered as done and for no other (concludeRun, reconcileAbandonedRuns,
\* recordNativePipelineOutcome).
THEOREM RowsTruthfulHolds == Spec => []RowsTruthful
  <1>1. Inv => RowsTruthful
    <2> SUFFICES ASSUME Inv PROVE RowsTruthful  OBVIOUS
    <2>1. ASSUME NEW q \in Requests
          PROVE  /\ p[q].at \in Stages /\ p[q].sid \in Sessions \cup {NoSession}
                 /\ p[q].key \in Keys \cup {NoKey} /\ p[q].route \in RouteType
                 /\ p[q].coding \in Codings /\ p[q].judged \in Verdicts /\ p[q].boss \in BossVerdicts
                 /\ {p[q].draft, p[q].passed, p[q].blocked, p[q].approved} \subseteq 0..3
                 /\ p[q].tries \in 0..1
                 /\ p[q].result \in {"none", "done", "needs_input", "blocked", "failed"}
      <3>1. p[q] \in Pipe  BY DEF Inv, Typed
      <3> QED  BY <3>1 DEF Pipe, Results
    <2>2. ASSUME NEW q \in Requests, NEW i \in 1..Len(ledger[q]) PROVE ledger[q][i] \in Passport
      <3>1. ledger[q] \in Seq(Passport)  BY DEF Inv, Typed
      <3> QED  BY <3>1
    <2>3. TypeOK  BY <2>1, <2>2 DEF Inv, Typed, TypeOK, Lease, Record, Codes
    <2>4. RunRowTruth  BY DEF Inv, Turn, Truth, RunRowTruth
    <2>5. SessionSettled  BY DEF Inv, Settled, SessionSettled
    <2>6. LedgerTruth  BY DEF Inv, Turn, Truth, LedgerTruth
    <2> QED  BY <2>3, <2>4, <2>5, <2>6 DEF RowsTruthful
  <1> QED  BY Invariance, <1>1, PTL

\* The outcome a run was saved with is never changed, neither by a lease that runs
\* out (reconcileExpiredRuns) nor by a restart (reconcileAbandonedRuns) nor by a
\* later answer.
THEOREM OutcomeKeptHolds == Spec => OutcomeKept
  <1>1. Inv /\ [Next]_vars => [OutcomeStep]_vars  BY StepKept DEF Kept
  <1>2. [OutcomeStep]_vars =>
          [\A q \in Requests : run[q] \in {"done", "blocked", "failed"} => run'[q] = run[q]]_vars
    BY DEF OutcomeStep
  <1> QED  BY Invariance, <1>1, <1>2, PTL DEF Spec, OutcomeKept

=============================================================================
