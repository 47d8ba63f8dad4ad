---------------------------- MODULE PipelineRun ----------------------------
(***************************************************************************)
(* POST /api/runtime/run: a request claims its idempotency key, runs the   *)
(* Host / Worker / Verifier / Boss pipeline in the stages between its      *)
(* awaits, writes its run row and its session, and stores its answer.      *)
(* Meanwhile the session and its worker leases are changed through their   *)
(* own routes, runs expire, and the process exits and starts again.        *)
(* A draft is the number of its version; what is judged is a version.      *)
(***************************************************************************)
EXTENDS Integers, Sequences

CONSTANTS
    Requests,   \* HTTP requests, retries included; a run is named by its own
    Arrivals,   \* what a request may be: [key, body, sid, persist, dry, route]
    Keys,       \* Idempotency-Key headers
    NoKey,      \* no such header
    Sessions,   \* session ids
    NoSession,  \* no session id
    Leases,     \* worker ids
    Patches,    \* the session statuses a PATCH may name
    MaxOutside, \* bound: calls of the session routes
    MaxExits    \* bound: process exits

RouteType == [prepares : BOOLEAN, coding : BOOLEAN, worker : BOOLEAN, verifier : BOOLEAN,
              mandatory : BOOLEAN, boss : BOOLEAN, escalates : BOOLEAN, revisions : {0, 1}]

ASSUME PatchesAssumption ==
    Patches \subseteq {"routing", "working", "paused", "boss_review", "revising", "finalizing",
                       "done", "failed", "cancelled"}
ASSUME NamesAssumption == NoKey \notin Keys /\ NoSession \notin Sessions
ASSUME ArrivalsAssumption ==
    \A a \in Arrivals : /\ a.key \in Keys \cup {NoKey} /\ a.sid \in Sessions \cup {NoSession}
                        /\ a.route \in RouteType
ASSUME BoundsAssumption == MaxOutside \in Nat /\ MaxExits \in Nat

VARIABLES
    run,      \* the row in runtime_runs: its status
    session,  \* the row in sessions: its status
    lease,    \* the row in workers: its session, its status, a managed call under way
    idem,     \* the row in idempotency: its status, request hash and claimant
    p,        \* the pipeline of a request: its stage and locals
    reply,    \* the HTTP status of the response
    ledger,   \* the outcome passports of a run, in the order of their revisions
    alive,    \* the process is up
    outside, exits,   \* counted against the bounds
    term      \* history: how many times a key's record has expired

vars == <<run, session, lease, idem, p, reply, ledger, alive, outside, exits, term>>

-----------------------------------------------------------------------------
(* Types *)

Live == {"queued", "running", "revising", "escalated"}
RunStatus == {"none", "queued", "running", "done", "blocked", "failed", "abandoned"}
Unfinished == {"routing", "working", "paused", "boss_review", "revising", "finalizing"}
SessionStatus == {"none", "done", "failed", "cancelled"} \cup Unfinished
LeaseStatus == {"none", "queued", "running", "paused", "done", "failed", "cancelled"}
Verdicts == {"none", "pass", "revise", "escalate", "block"}
BossVerdicts == {"none", "approve", "revise", "block", "ask_user", "delegate"}
Stages == {"idle", "prepare", "workers", "host", "verify", "revise", "boss", "delegate",
           "bossRevise", "finalVerify", "persist", "over", "lost"}
Waiting == Stages \ {"idle", "over", "lost"}
Passport == [verdict : {"success", "revised", "blocked", "failed"}, accepted : {"none", "yes", "no"}]
Codings == {"none", "done", "planned", "blocked", "failed"}

NoRoute == [prepares |-> FALSE, coding |-> FALSE, worker |-> FALSE, verifier |-> FALSE,
            mandatory |-> FALSE, boss |-> FALSE, escalates |-> FALSE, revisions |-> 0]
Idle == [at |-> "idle", key |-> NoKey, sid |-> NoSession, route |-> NoRoute, coding |-> "none",
         draft |-> 0, tries |-> 0, judged |-> "none", passed |-> 0, blocked |-> 0,
         boss |-> "none", approved |-> 0, result |-> "none", term |-> 0]

TypeOK ==
    /\ run \in [Requests -> RunStatus]
    /\ session \in [Sessions -> SessionStatus]
    /\ lease \in [Leases -> [sid : Sessions \cup {NoSession}, status : LeaseStatus,
                            call : BOOLEAN]]
    /\ idem \in [Keys -> [status : {"none", "running", "complete", "failed"},
                          body : {"none"} \cup {a.body : a \in Arrivals},
                          by : Requests \cup {NoKey}]]
    /\ \A q \in Requests :
        /\ p[q].at \in Stages /\ p[q].sid \in Sessions \cup {NoSession}
        /\ p[q].key \in Keys \cup {NoKey} /\ p[q].route \in RouteType
        /\ p[q].coding \in Codings /\ p[q].judged \in Verdicts /\ p[q].boss \in BossVerdicts
        /\ {p[q].draft, p[q].passed, p[q].blocked, p[q].approved} \subseteq 0..3
        /\ p[q].tries \in 0..1
        /\ p[q].result \in {"none", "done", "needs_input", "blocked", "failed"}
    /\ reply \in [Requests -> {0, 200, 409, 422, 500, 502}]
    /\ \A q \in Requests : \A i \in 1..Len(ledger[q]) : ledger[q][i] \in Passport
    /\ alive \in BOOLEAN
    /\ outside \in 0..MaxOutside /\ exits \in 0..MaxExits
    /\ term \in [Keys -> Nat]

NoRecord == [status |-> "none", body |-> "none", by |-> NoKey]

-----------------------------------------------------------------------------
(* Sessions: createRuntimeSession, completeRuntimeSession, failRuntimeSession, *)
(* recordPipelineActivity and applyBossDecision, as the pipeline uses them     *)

\* The rows are written whatever they were.
SaveRun(q, status) == [run EXCEPT ![q] = status]
SaveSession(s, status) == [session EXCEPT ![s] = status]
SaveWorker(w, status, call) == [lease EXCEPT ![w].status = status, ![w].call = call]

Known(s) == s = NoSession \/ session[s] # "none"

\* An update of a session the run has: none without a session id.
Updated(s, status) == IF s = NoSession THEN session ELSE SaveSession(s, status)

CompleteRuntimeSession(s) == Updated(s, "done")
FailRuntimeSession(s) == Updated(s, "failed")

\* recordWorkerEvent of a low event of no lease.
Noted(s) ==
    IF s # NoSession /\ session[s] = "routing" THEN SaveSession(s, "working") ELSE session

BossStatus(verdict) ==
    CASE verdict = "block" -> "failed"
      [] verdict = "ask_user" -> "paused"
      [] verdict = "revise" -> "revising"
      [] OTHER -> "working"

-----------------------------------------------------------------------------
(* How a run ends *)

Http(status) == CASE status = "blocked" -> 422 [] status = "failed" -> 502 [] OTHER -> 200

\* completeIdempotency and the response.
Respond(q, key, code, ok) ==
    /\ reply' = [reply EXCEPT ![q] = code]
    /\ idem' = IF key = NoKey THEN idem
               ELSE [idem EXCEPT ![key].status = IF ok THEN "complete" ELSE "failed"]

RowStatus(status) == IF status = "needs_input" THEN "done" ELSE status

-----------------------------------------------------------------------------
(* The outcome ledger *)

\* A row is only ever added, with the next revision of its run.
AppendOutcome(q, passport) == ledger' = [ledger EXCEPT ![q] = Append(@, passport)]

RecordOutcomePassport(q, verdict) == AppendOutcome(q, [verdict |-> verdict, accepted |-> "none"])

\* A question to the user leaves no passport; a draft that was revised says so.
RecordNativePipelineOutcome(q, after, status) ==
    CASE status = "needs_input" -> UNCHANGED ledger
      [] status = "done" -> RecordOutcomePassport(q, IF after.draft > 1 THEN "revised" ELSE "success")
      [] OTHER -> RecordOutcomePassport(q, status)

-----------------------------------------------------------------------------
\* What is left of a run that is over: its claim, its result and, where there is
\* an answer, the version that was released and what had been found of it.
Over(after, status) ==
    IF status \in {"done", "needs_input"}
    THEN [after EXCEPT !.at = "over", !.result = status, !.tries = 0, !.coding = "none",
                       !.boss = "none", !.sid = NoSession]
    ELSE [Idle EXCEPT !.at = "over", !.result = status, !.key = after.key, !.term = after.term]

\* The session is not in the store, and the update of it throws when the run has
\* been saved: the request fails and there is no passport.
Unsettled(q, after, status) ==
    /\ p' = [p EXCEPT ![q] = Over(after, status)]
    /\ run' = SaveRun(q, status)
    /\ UNCHANGED <<session, ledger>>
    /\ Respond(q, after.key, 500, FALSE)

\* Faulty: only a run that ended well writes its session.
ConcludeRun(q, after, status) ==
    IF Known(after.sid)
    THEN /\ p' = [p EXCEPT ![q] = Over(after, status)]
         /\ run' = SaveRun(q, RowStatus(status))
         /\ session' = IF status = "done" THEN CompleteRuntimeSession(after.sid) ELSE session
         /\ RecordNativePipelineOutcome(q, after, status)
         /\ Respond(q, after.key, Http(status), status = "done")
    ELSE Unsettled(q, after, "failed")

\* The run and the session are saved; where the session is not in the store
\* the update of it throws, and the catch saves the run once more, as failed.
Conclude(q, after, status) ==
    IF Known(after.sid)
    THEN /\ p' = [p EXCEPT ![q] = Over(after, status)]
         /\ run' = SaveRun(q, RowStatus(status))
         /\ session' = IF status \in {"blocked", "failed"} THEN FailRuntimeSession(after.sid)
                       ELSE CompleteRuntimeSession(after.sid)
         /\ RecordNativePipelineOutcome(q, after, status)
         /\ Respond(q, after.key, Http(status), status = "done")
    ELSE Unsettled(q, after, "failed")

\* The catch: a message with the word block makes the run blocked, also where the
\* session that would be failed next is not in the store.
Catch(q, after, status) ==
    IF Known(after.sid) THEN Conclude(q, after, status) ELSE Unsettled(q, after, status)

Wait(q, after, stage) ==
    /\ p' = [p EXCEPT ![q] = [after EXCEPT !.at = stage]]
    /\ session' = Noted(after.sid)
    /\ UNCHANGED <<run, idem, reply, ledger>>

Outer == <<lease, alive, outside, exits, term>>

\* What the coding loop reported decides between done and the rest.
Outcome(after) ==
    CASE after.coding = "planned" -> "needs_input"
      [] after.coding \in {"blocked", "failed"} -> after.coding
      [] after.boss = "ask_user" -> "needs_input"
      [] OTHER -> "done"

\* A blocking verdict is final here; the others need the Boss to have spoken.
Finish(q, after) ==
    IF after.judged = "block" THEN Catch(q, after, "blocked")
    ELSE IF after.judged \in {"revise", "escalate"} /\ after.boss = "none" THEN Catch(q, after, "failed")
    ELSE \/ Wait(q, after, "persist")
         \/ Conclude(q, after, Outcome(after))

ShouldEscalate(after) ==
    \/ after.route.boss
    \/ after.judged = "escalate"
    \/ after.judged = "revise" /\ after.route.escalates

\* The packet for the Boss is built from the session.
AfterVerifier(q, after) ==
    IF ~ShouldEscalate(after) THEN Finish(q, after)
    ELSE IF Known(after.sid) THEN Wait(q, after, "boss")
    ELSE Catch(q, after, "failed")

-----------------------------------------------------------------------------
(* Arrival *)

First(route) ==
    IF route.prepares THEN "prepare" ELSE IF route.worker THEN "workers" ELSE "host"

\* The session a run works in: the one named, a new one, or none.
SessionsOf(a) ==
    IF a.sid # NoSession THEN {a.sid}
    ELSE IF ~a.persist THEN {NoSession}
    ELSE {s \in Sessions : session[s] = "none" /\ \A b \in Arrivals : b.sid # s}

Begin(q, a, s) ==
    LET fresh == [Idle EXCEPT !.key = a.key, !.sid = s, !.route = a.route,
                              !.term = IF a.key = NoKey THEN 0 ELSE term[a.key]]
        known == a.persist \/ Known(s)
    IN  IF a.dry
        THEN /\ p' = [p EXCEPT ![q] = [fresh EXCEPT !.at = "over"]]
             /\ run' = SaveRun(q, "done")
             /\ session' = IF known THEN Updated(s, "done") ELSE session
             /\ reply' = [reply EXCEPT ![q] = IF known THEN 200 ELSE 500]
             /\ idem' = IF a.key = NoKey THEN idem
                        ELSE [idem EXCEPT ![a.key] = [status |-> IF known THEN "complete" ELSE "failed",
                                                      body |-> a.body, by |-> q]]
        ELSE /\ p' = [p EXCEPT ![q] = [fresh EXCEPT !.at = First(a.route)]]
             /\ run' = SaveRun(q, "running")
             /\ session' = IF a.persist THEN Updated(s, "working") ELSE session
             /\ idem' = IF a.key = NoKey THEN idem
                        ELSE [idem EXCEPT ![a.key] = [status |-> "running", body |-> a.body, by |-> q]]
             /\ UNCHANGED reply

\* Faulty: only a record that is complete is found again.
FoundComplete(a) == a.key # NoKey /\ idem[a.key].status \in {"running", "complete"}

\* claimIdempotency finds a record of the key.
Found(a) == a.key # NoKey /\ idem[a.key].status # "none"

Run(q) == \E a \in Arrivals :
    /\ alive /\ p[q].at = "idle"
    /\ ~Found(a)
    /\ \E s \in SessionsOf(a) : Begin(q, a, s)
    /\ UNCHANGED <<ledger, Outer>>

\* Another body under the key, or a run that has not ended: 409.  Otherwise the
\* stored response, as 502 where it was stored as failed.
ReplayStatus(a) ==
    CASE idem[a.key].body # a.body -> 409
      [] idem[a.key].status = "running" -> 409
      [] idem[a.key].status = "failed" -> 502
      [] OTHER -> 200

Replay(q) == \E a \in Arrivals :
    /\ alive /\ p[q].at = "idle"
    /\ Found(a)
    /\ reply' = [reply EXCEPT ![q] = ReplayStatus(a)]
    /\ p' = [p EXCEPT ![q].at = "over"]
    /\ UNCHANGED <<run, session, idem, ledger, Outer>>

-----------------------------------------------------------------------------
(* The stages of runZenosPipeline, each the answer to an await *)

At(q, stage) == alive /\ p[q].at = stage

\* An error at a stage ends the run.
Caught(q, stage) == \E status \in {"failed", "blocked"} :
    /\ At(q, stage)
    /\ Catch(q, p[q], status)
    /\ UNCHANGED Outer

\* The store or the repository, and the models whose answer is needed.
PrepareFails(q) == Caught(q, "prepare")
HostFails(q) == Caught(q, "host")
RevisionFails(q) == Caught(q, "revise") \/ Caught(q, "bossRevise")
BossFails(q) == Caught(q, "boss")
FinalVerifierFails(q) == Caught(q, "finalVerify")

\* Memory recalled, repository indexed, coding loop run.
Prepared(q) == \E outcome \in Codings :
    /\ At(q, "prepare")
    /\ (outcome # "none") <=> p[q].route.coding
    /\ Wait(q, [p[q] EXCEPT !.coding = outcome],
            IF p[q].route.worker /\ outcome = "none" THEN "workers" ELSE "host")
    /\ UNCHANGED Outer

\* All worker passes have answered; a failed one is a warning.
Compressed(q) == At(q, "workers") /\ Wait(q, p[q], "host") /\ UNCHANGED Outer

Drafted(q) ==
    LET after == [p[q] EXCEPT !.draft = 1]
    IN  /\ At(q, "host")
        /\ IF after.route.verifier THEN Wait(q, after, "verify") ELSE AfterVerifier(q, after)
        /\ UNCHANGED Outer

\* What a version is found to be: remembered as passed or as blocked.
Judged(after, verdict) ==
    [after EXCEPT !.judged = verdict,
                  !.passed = IF verdict = "pass" THEN after.draft ELSE @,
                  !.blocked = IF verdict = "block" THEN after.draft ELSE @]

\* The verifier answers with a verdict or with nothing; where it is mandatory,
\* nothing is taken for "escalate".
VerifierAnswers(route) == IF route.mandatory THEN Verdicts \ {"none"} ELSE Verdicts

\* One verification.  A draft to revise is revised as long as there are attempts.
Verified(q) == \E verdict \in VerifierAnswers(p[q].route) :
    LET after == Judged(p[q], verdict)
    IN  /\ At(q, "verify")
        /\ IF verdict = "none" THEN AfterVerifier(q, p[q])
           ELSE IF verdict = "revise" /\ after.tries < after.route.revisions THEN Wait(q, after, "revise")
           ELSE AfterVerifier(q, after)
        /\ UNCHANGED Outer

\* Faulty: the attempt is not counted.
RevisedUncounted(q) == At(q, "revise") /\ Wait(q, p[q], "verify") /\ UNCHANGED Outer

Revised(q) ==
    /\ At(q, "revise")
    /\ Wait(q, [p[q] EXCEPT !.draft = @ + 1, !.tries = @ + 1], "verify")
    /\ UNCHANGED Outer

\* Faulty: the approval of the Boss outweighs the block of the verifier.
DecidedFreely(q) == \E verdict \in BossVerdicts \ {"none"} :
    LET after == [p[q] EXCEPT !.boss = verdict,
                              !.approved = IF verdict = "approve" THEN p[q].draft ELSE @,
                              !.blocked = IF verdict = "block" THEN p[q].draft ELSE @]
        told == Updated(after.sid, BossStatus(verdict))
    IN  /\ At(q, "boss")
        /\ CASE verdict = "block" -> Conclude(q, after, "blocked")
             [] verdict \in {"revise", "delegate"} ->
                  /\ p' = [p EXCEPT ![q] = [after EXCEPT !.at =
                              IF verdict = "delegate" THEN "delegate" ELSE "bossRevise"]]
                  /\ session' = told
                  /\ UNCHANGED <<run, idem, reply, ledger>>
             [] OTHER ->
                  \/ /\ p' = [p EXCEPT ![q] = [after EXCEPT !.at = "persist"]]
                     /\ session' = told
                     /\ UNCHANGED <<run, idem, reply, ledger>>
                  \/ /\ Conclude(q, after, Outcome(after))
        /\ UNCHANGED Outer

\* The Boss decides: the session follows the decision, then the run does.
Decided(q) == \E verdict \in BossVerdicts \ {"none"} :
    LET after == [p[q] EXCEPT !.boss = verdict,
                              !.approved = IF verdict = "approve" THEN p[q].draft ELSE @,
                              !.blocked = IF verdict = "block" THEN p[q].draft ELSE @]
        told == Updated(after.sid, BossStatus(verdict))
    IN  /\ At(q, "boss")
        /\ CASE verdict = "block" -> Conclude(q, after, "blocked")
             [] verdict \in {"revise", "delegate"} ->
                  /\ p' = [p EXCEPT ![q] = [after EXCEPT !.at =
                              IF verdict = "delegate" THEN "delegate" ELSE "bossRevise"]]
                  /\ session' = told
                  /\ UNCHANGED <<run, idem, reply, ledger>>
             [] OTHER ->
                  \/ /\ after.judged # "block"
                     /\ p' = [p EXCEPT ![q] = [after EXCEPT !.at = "persist"]]
                     /\ session' = told
                     /\ UNCHANGED <<run, idem, reply, ledger>>
                  \/ /\ Conclude(q, after, IF after.judged = "block" THEN "blocked" ELSE Outcome(after))
        /\ UNCHANGED Outer

Delegated(q) == At(q, "delegate") /\ Wait(q, p[q], "bossRevise") /\ UNCHANGED Outer

BossRevised(q) ==
    LET after == [p[q] EXCEPT !.draft = @ + 1]
    IN  /\ At(q, "bossRevise")
        /\ IF after.route.verifier THEN Wait(q, after, "finalVerify") ELSE Finish(q, after)
        /\ UNCHANGED Outer

\* Only a pass is accepted here; the message of a block makes the run blocked.
FinallyVerified(q) == \E verdict \in Verdicts \ {"none"} :
    LET after == Judged(p[q], verdict)
    IN  /\ At(q, "finalVerify")
        /\ IF verdict = "pass" THEN Finish(q, after)
           ELSE \/ Catch(q, after, "blocked")
                \/ verdict # "block" /\ Catch(q, after, "failed")
        /\ UNCHANGED Outer

\* The route event has been sent to the memory, or has failed to be.
Persisted(q) == At(q, "persist") /\ Conclude(q, p[q], Outcome(p[q])) /\ UNCHANGED Outer

Pipeline(q) ==
    \/ Prepared(q) \/ Compressed(q) \/ Drafted(q) \/ Verified(q) \/ Revised(q) \/ Decided(q)
    \/ Delegated(q) \/ BossRevised(q) \/ FinallyVerified(q) \/ Persisted(q)
    \/ PrepareFails(q) \/ HostFails(q) \/ RevisionFails(q) \/ BossFails(q) \/ FinalVerifierFails(q)

-----------------------------------------------------------------------------
(* The routes of the session and of its workers *)

Inner == <<run, idem, p, reply, ledger, alive, exits, term>>

Outside == alive /\ outside < MaxOutside /\ outside' = outside + 1

\* POST /session: the row is written as new, whatever it was.
Create(s) ==
    /\ Outside
    /\ session' = SaveSession(s, "routing")
    /\ UNCHANGED <<lease, Inner>>

\* PATCH /session/[id], escalate (boss_review) and boss-review.
Move(s, status) ==
    /\ Outside /\ session[s] # "none"
    /\ session' = SaveSession(s, status)
    /\ UNCHANGED <<lease, Inner>>

Patch(s) == \E status \in Patches : Move(s, status)
Escalate(s) == Move(s, "boss_review")
BossReview(s) == \E verdict \in BossVerdicts \ {"none"} : Move(s, BossStatus(verdict))

LeasesOf(s) == {w \in Leases : lease[w].status # "none" /\ lease[w].sid = s}

Cancelled(s) ==
    /\ session' = SaveSession(s, "cancelled")
    /\ lease' = [w \in Leases |->
                    IF w \in LeasesOf(s) /\ lease[w].status \in {"queued", "running", "paused"}
                    THEN [lease[w] EXCEPT !.status = "cancelled"] ELSE lease[w]]

\* DELETE /session/[id].
Cancel(s) ==
    /\ Outside /\ session[s] # "none"
    /\ Cancelled(s)
    /\ UNCHANGED Inner

\* reconcileStaleRuntimeSessions, in a preflight of another session: nothing
\* has written the session for hours, so nothing of it is under way.
Stale(s) ==
    /\ alive /\ session[s] \in Unfinished
    /\ \A q \in Requests : ~(p[q].at \in Waiting /\ p[q].sid = s)
    /\ \A w \in LeasesOf(s) : ~lease[w].call
    /\ Cancelled(s)
    /\ UNCHANGED <<Inner, outside>>

\* dispatchWorker; a managed worker is called at once.
Dispatch(w, s) == \E managed \in BOOLEAN :
    /\ Outside /\ lease[w].status = "none"
    /\ session[s] \in Unfinished
    /\ lease' = [lease EXCEPT ![w] = [sid |-> s, call |-> managed,
                                      status |-> IF managed THEN "running" ELSE "queued"]]
    /\ session' = SaveSession(s, "working")
    /\ UNCHANGED Inner

\* recordWorkerEvent of a lease: what the event ends, and whether it calls for
\* the Boss.  An error of the only worker fails the session.
Evented(w, status, ends, pauses) ==
    LET s == lease[w].sid
    IN  session' =
            IF ends = "failed" /\ LeasesOf(s) = {w} THEN SaveSession(s, "failed")
            ELSE IF pauses THEN SaveSession(s, "paused")
            ELSE Noted(s)

WorkerEvent(w) == \E ends \in {"no", "done", "failed"}, pauses \in BOOLEAN :
    LET status == IF ends # "no" THEN ends
                  ELSE IF pauses THEN "paused"
                  ELSE IF lease[w].status = "queued" THEN "running" ELSE lease[w].status
    IN  /\ Outside /\ lease[w].status # "none"
        /\ lease' = SaveWorker(w, status, lease[w].call)
        /\ Evented(w, status, ends, pauses)
        /\ UNCHANGED Inner

\* The rest of executeManagedWorker: the lease is written whatever it has become,
\* then the events of the findings and the last one.
ManagedAnswer(w) == \E status \in {"done", "failed"}, pauses \in BOOLEAN :
    /\ alive /\ lease[w].call
    /\ status = "failed" => ~pauses
    /\ lease' = SaveWorker(w, status, FALSE)
    /\ Evented(w, status, status, pauses)
    /\ UNCHANGED <<Inner, outside>>

\* POST /outcomes: the user's word on the latest passport of a run, as a revision.
AppendOutcomeFeedback(q) == \E accepted \in {"yes", "no"} :
    /\ Outside /\ ledger[q] # <<>>
    /\ AppendOutcome(q, [ledger[q][Len(ledger[q])] EXCEPT !.accepted = accepted])
    /\ UNCHANGED <<run, session, lease, idem, p, reply, alive, exits, term>>

-----------------------------------------------------------------------------
(* Time and the process *)

\* Faulty: the status of the run is not looked at.
ExpireAnyRun(q) ==
    /\ alive /\ run[q] # "none"
    /\ run' = SaveRun(q, "abandoned")
    /\ UNCHANGED <<session, lease, idem, p, reply, ledger, alive, outside, exits, term>>

\* reconcileExpiredRuns: no run of the pipeline sends a heartbeat.
ExpireRun(q) ==
    /\ alive /\ run[q] \in Live
    /\ run' = SaveRun(q, "abandoned")
    /\ UNCHANGED <<session, lease, idem, p, reply, ledger, alive, outside, exits, term>>

\* A day after its claim a record is deleted; no run takes a day.
ForgetKey(k) ==
    /\ alive /\ idem[k].status # "none"
    /\ p[idem[k].by].at \notin Waiting
    /\ idem' = [idem EXCEPT ![k] = NoRecord]
    /\ term' = [term EXCEPT ![k] = @ + 1]
    /\ UNCHANGED <<run, session, lease, p, reply, ledger, alive, outside, exits>>

Exit ==
    /\ alive /\ exits < MaxExits
    /\ alive' = FALSE /\ exits' = exits + 1
    /\ p' = [q \in Requests |-> IF p[q].at \notin Waiting THEN p[q]
                            ELSE [Idle EXCEPT !.at = "lost", !.key = p[q].key, !.term = p[q].term]]
    /\ lease' = [w \in Leases |-> [lease[w] EXCEPT !.call = FALSE]]
    /\ UNCHANGED <<run, session, idem, reply, ledger, outside, term>>

\* Faulty: the constructor of the store leaves the runs as they are.
RestartOnly == ~alive /\ alive' = TRUE /\ UNCHANGED <<run, session, lease, idem, p, reply, ledger, outside, exits, term>>

\* reconcileAbandonedRuns.
Restart ==
    /\ ~alive /\ alive' = TRUE
    /\ run' = [q \in Requests |-> IF run[q] = "running" THEN "abandoned" ELSE run[q]]
    /\ UNCHANGED <<session, lease, idem, p, reply, ledger, outside, exits, term>>

-----------------------------------------------------------------------------
Init ==
    /\ run = [q \in Requests |-> "none"]
    /\ session = [s \in Sessions |-> "none"]
    /\ lease = [w \in Leases |-> [sid |-> NoSession, status |-> "none", call |-> FALSE]]
    /\ idem = [k \in Keys |-> NoRecord]
    /\ p = [q \in Requests |-> Idle]
    /\ reply = [q \in Requests |-> 0]
    /\ ledger = [q \in Requests |-> <<>>]
    /\ alive = TRUE /\ outside = 0 /\ exits = 0
    /\ term = [k \in Keys |-> 0]

Next ==
    \/ \E q \in Requests : Run(q) \/ Replay(q) \/ Pipeline(q) \/ ExpireRun(q)
                           \/ AppendOutcomeFeedback(q)
    \/ \E s \in Sessions : Create(s) \/ Patch(s) \/ Escalate(s) \/ BossReview(s) \/ Cancel(s) \/ Stale(s)
    \/ \E w \in Leases : WorkerEvent(w) \/ ManagedAnswer(w) \/ \E s \in Sessions : Dispatch(w, s)
    \/ \E k \in Keys : ForgetKey(k)
    \/ Exit \/ Restart

Spec == Init /\ [][Next]_vars

\* Every await of the pipeline and of a managed worker has a timeout, the process
\* is restarted by its supervisor, a record is deleted by the first claim after
\* its day, and turns of the gateway keep coming, with the reconciliation each
\* begins with.
FairSpec ==
    /\ Spec
    /\ \A q \in Requests : WF_vars(Pipeline(q))
    /\ \A k \in Keys : WF_vars(ForgetKey(k))
    /\ \A w \in Leases : WF_vars(ManagedAnswer(w))
    /\ \A s \in Sessions : WF_vars(Stale(s))
    /\ WF_vars(Restart)

-----------------------------------------------------------------------------
(* Properties *)

\* What is answered as done on a route with a verifier is the very version that
\* passed it or that the Boss approved; only where the verification is optional
\* may an unreadable verdict let a draft through (runZenosPipeline).
ReleasedIsReviewed == \A q \in Requests :
    p[q].result = "done" /\ p[q].route.verifier =>
        \/ p[q].draft \in {p[q].passed, p[q].approved}
        \/ p[q].judged = "none" /\ ~p[q].route.mandatory

\* No version that the verifier or the Boss blocked is ever answered, as done or
\* as a question, whatever the other of the two said of it.
BlockedNotReleased == \A q \in Requests :
    p[q].result \in {"done", "needs_input"} => p[q].draft # p[q].blocked

\* What the reviewers saw and what they ruled decide what is released.
ReleaseSafe == ReleasedIsReviewed /\ BlockedNotReleased

\* Of the requests with one Idempotency-Key at most one runs the pipeline while
\* the record of the key lasts, crashes and failed answers included.
OneExecution == \A q, r \in Requests :
    q # r /\ p[q].key = p[r].key /\ p[q].key # NoKey => p[q].term # p[r].term

\* The stored record of a key tells what became of the request that claimed it:
\* complete only with a finished run, failed only without one, and running only
\* while its pipeline is under way or was lost with the process.
RecordFollowsRun == \A k \in Keys :
    LET q == idem[k].by
    IN  CASE idem[k].status = "complete" -> p[q].at = "over" /\ run[q] = "done"
                                            /\ p[q].result \in {"none", "done"}
          [] idem[k].status = "failed" -> p[q].at = "over" /\ p[q].result # "done"
          [] idem[k].status = "running" -> p[q].at \in Waiting \cup {"lost"}
          [] OTHER -> TRUE

\* An Idempotency-Key stands for one execution, and its record for what came of it.
KeyKept == OneExecution /\ RecordFollowsRun

\* While the process is up, a run row says running only for a pipeline that is
\* under way: what a crash left is reconciled before anything else is done.
RunRowTruth == \A q \in Requests : alive /\ run[q] = "running" => p[q].at \in Waiting

\* With no call of the session routes and no crash, a session whose runs are all
\* over has been left done or failed by them, two runs of one session included.
SessionSettled == \A s \in Sessions :
    /\ outside = 0 /\ exits = 0
    /\ \A q \in Requests : p[q].at \in Waiting => p[q].sid # s
    => session[s] \in {"none", "done", "failed"}

\* The ledger, which routing learns from, tells what came of a run: a success or a
\* revision for each run that was answered as done, with what became of its draft,
\* and for no other, whatever feedback, lease or restart came in between.
LedgerTruth == \A q \in Requests :
    /\ p[q].result = "done" => ledger[q] # <<>>
    /\ \A i \in 1..Len(ledger[q]) : ledger[q][i].verdict =
          IF p[q].result = "done" THEN IF p[q].draft > 1 THEN "revised" ELSE "success"
          ELSE run[q]

\* The rows are typed and tell what became of the runs.
RowsTruthful == TypeOK /\ RunRowTruth /\ SessionSettled /\ LedgerTruth

\* The outcome a run was saved with is never changed again, neither by its lease
\* running out nor by a restart.
OutcomeKept ==
    [][\A q \in Requests : run[q] \in {"done", "blocked", "failed"} => run'[q] = run[q]]_vars

\* Every pipeline ends: no sequence of verdicts and revisions goes round for ever.
Answered == \A q \in Requests : p[q].at \in Waiting ~> p[q].at \notin Waiting

\* A run does not stay running for ever, even when the process exits under it.
RunSettled == \A q \in Requests : run[q] = "running" ~> run[q] # "running"

\* A key whose claimant was lost becomes usable again.
KeySettled == \A k \in Keys : idem[k].status = "running" ~> idem[k].status # "running"

\* A session is not left unfinished for ever: a run, a caller or the reconciliation
\* of stale sessions ends it.
SessionsEnd == \A s \in Sessions : session[s] \in Unfinished ~> session[s] \notin Unfinished

\* What a lost pipeline leaves behind is settled: its run, its key and its session.
RowsSettle == RunSettled /\ KeySettled /\ SessionsEnd

=============================================================================
