---------------------------- MODULE Continuation ----------------------------
(***************************************************************************)
(* The gateway turns of one session and its durable continuation queue:    *)
(* the rows of runtime_runs, cognitive_tasks, continuation_queue and the   *)
(* status of the session row, shared by                                    *)
(*   - the preflight and the postflight of a turn (gateway-orchestration), *)
(*     which interleave at their awaits,                                   *)
(*   - the abort endpoint, the continuation endpoint (claim, heartbeat,    *)
(*     complete, cancel) and the janitor it runs first,                    *)
(*   - the start-up recovery of the Runtime store.                         *)
(*                                                                         *)
(* The code between two awaits is one step, except the last stretch of a   *)
(* postflight: it commits one row at a time (handler.at names the next     *)
(* write), and the process may exit between two of them.                   *)
(***************************************************************************)
EXTENDS Naturals

CONSTANTS
    Runs,       \* gateway run ids
    Tasks,      \* cognitive task ids
    Handlers,   \* postflight requests under way at the same time
    Tokens,     \* lease tokens in use at a time
    MaxRows,    \* bound: continuation rows ever created
    MaxCycles,  \* maxCycles of the cognitive tasks
    LeaseTime   \* clock ticks a continuation lease lasts

ASSUME RunsAssumption == Runs # {} /\ "none" \notin Runs
ASSUME TasksAssumption == "none" \notin Tasks
ASSUME TokensAssumption == "none" \notin Tokens
ASSUME BoundsAssumption ==
    MaxRows \in Nat \ {0} /\ MaxCycles \in Nat \ {0} /\ LeaseTime \in Nat \ {0}

Null == "none"
Rows == 1..MaxRows    \* in order of creation

VARIABLES
    run,      \* [phase, status, task] of each run
    task,     \* [status, cycle, active, root] of each cognitive task
    row,      \* [status, task, run, attempt, token, ttl, old] of each continuation
    session,  \* status of the session row
    handler,  \* the postflight requests under way
    endedBy,  \* history: who closed each row
    up        \* the Runtime process: "up", "down" or "booting"

vars == <<run, task, row, session, handler, endedBy, up>>

-----------------------------------------------------------------------------
(* Types *)

\* opened: preflight before it has a task; attached: preflight with a task;
\* ready: the stored preflight accepts a postflight; lost: the preflight died.
\* over: the statuses abandoned, failed and blocked, which nothing tells apart.
Run == [phase : {"none", "opened", "attached", "ready", "closed"},
        status : {Null, "running", "done", "over"},
        task : Tasks \cup {Null}]

Task == [status : {"absent", "active", "waiting_for_user", "completed", "failed", "cancelled"},
         cycle : 0..MaxCycles, active : Runs \cup {Null}, root : Runs \cup {Null}]

\* ttl: ticks until lease_expires_at, 0 when passed; old: updated_at is at or
\* before the start of the present gateway process.
Row == [status : {"absent", "queued", "leased", "completed", "cancelled"},
        task : Tasks \cup {Null}, run : Runs \cup {Null}, attempt : 0..MaxCycles,
        token : Tokens \cup {Null}, ttl : 0..LeaseTime, old : BOOLEAN]

\* over: the statuses done, failed and cancelled, which nothing tells apart.
SessionStatus == {Null, "working", "paused", "over"}

\* What the last stretch of a postflight decides on: the Host asks the user,
\* the verifier or the boss blocks, and why the turn is not over: a mutation
\* without validation ("coding", or "unseen" when no workspace state came with
\* it), criteria that are pending or an interrupted Host ("pending"), or a Host
\* that failed.
Outcome == [asks : BOOLEAN, blocked : BOOLEAN,
            reason : {Null, "coding", "unseen", "pending", "host"}]

AwaitPoints == {"received", "judging"}
WritePoints == {"enqueue", "count", "lease", "task", "run", "session"}

Seen == [status : {"absent", "active", "waiting_for_user", "completed", "failed", "cancelled"},
         cycle : 0..MaxCycles]

\* seen: the task status and cycle a postflight decides its continuation on;
\* leased: the response carries a continuation.
Postflight == [at : AwaitPoints \cup WritePoints, run : Runs, seen : Seen,
               outcome : Outcome, leased : BOOLEAN]

Idle == [at |-> "idle"]

TypeOK ==
    /\ run \in [Runs -> Run]
    /\ task \in [Tasks -> Task]
    /\ row \in [Rows -> Row]
    /\ session \in SessionStatus
    /\ handler \in [Handlers -> Postflight \cup {Idle}]
    /\ endedBy \in [Rows -> {Null, "holder", "intruder", "abort", "janitor"}]
    /\ up \in {"up", "down", "booting"}

-----------------------------------------------------------------------------
(* Helpers *)

Absent == [status |-> "absent", task |-> Null, run |-> Null, attempt |-> 0,
           token |-> Null, ttl |-> 0, old |-> FALSE]

Live(i) == row[i].status \in {"queued", "leased"}

\* The next requests are served when no handler is between two writes.
Ready == up = "up" /\ \A h \in Handlers : handler[h].at \notin WritePoints

\* The row with its lease columns cleared.
Released(x, status) == [x EXCEPT !.status = status, !.token = Null, !.ttl = 0, !.old = FALSE]

Expired(x) == x.status = "leased" /\ x.ttl = 0

\* The parents a row needs to be claimed.
Wanted(x, ts, s) == x.task # Null /\ ts[x.task].status = "active" /\ s = "working"

\* A row of a new continuation, in the first free place.
Insert(rows, t, r, attempt) ==
    LET i == CHOOSE j \in Rows : rows[j].status = "absent"
                          /\ \A k \in Rows : rows[k].status = "absent" => j <= k
    IN  [rows EXCEPT ![i] = [Absent EXCEPT !.status = "queued", !.task = t, !.run = r,
                                           !.attempt = attempt]]

\* Bound: a continuation is made only while there is room for its row.
Room == \E i \in Rows : row[i].status = "absent"

-----------------------------------------------------------------------------
(* Preflight *)

\* ensureGatewaySession and saveRun, before the Host planning is awaited.
OpenRun(r) ==
    /\ Ready /\ run[r].phase = "none"
    /\ run' = [run EXCEPT ![r].phase = "opened", ![r].status = "running"]
    /\ session' = "working"
    /\ UNCHANGED <<task, row, handler, endedBy, up>>

\* prepareCognitiveTask: reuse the live task of the session, or cancel it and
\* create another; then ensureGatewaySession and saveRun again.
Attach(r, ts, t) ==
    /\ task' = ts
    /\ run' = [run EXCEPT ![r] = [phase |-> "attached", status |-> "running", task |-> t]]
    /\ session' = "working"
    /\ UNCHANGED <<row, handler, endedBy, up>>

LiveTasks == {t \in Tasks : task[t].status \in {"active", "waiting_for_user"}}

ReuseTask(r, blocking, continues) ==
    /\ Ready /\ run[r].phase = "opened"
    /\ \E t \in LiveTasks :
          /\ continues \/ task[t].status = "waiting_for_user"
          /\ Attach(r, [task EXCEPT ![t].active = r,
                                    ![t].status = IF blocking THEN @ ELSE "active"], t)

CreateTask(r, blocking) ==
    /\ Ready /\ run[r].phase = "opened"
    /\ \E t \in Tasks, old \in LiveTasks \cup {Null} :
          /\ task[t].status = "absent"
          /\ IF old = Null THEN LiveTasks = {} ELSE task[old].status = "active"
          /\ Attach(r, [u \in Tasks |->
                 CASE u = t -> [status |-> IF blocking THEN "waiting_for_user" ELSE "active",
                                cycle |-> 0, active |-> r, root |-> r]
                   [] u = old -> [task[u] EXCEPT !.status = "cancelled"]
                   [] OTHER -> task[u]], t)

\* The last write of the preflight: the run accepts a postflight, and runs
\* again when it had been abandoned meanwhile.
StorePreflight(r) ==
    /\ Ready /\ run[r].phase = "attached"
    /\ run' = [run EXCEPT ![r].phase = "ready", ![r].status = "running"]
    /\ UNCHANGED <<task, row, session, handler, endedBy, up>>

\* reconcileExpiredRuns: the run lease ran out.
ExpireRun(r) ==
    /\ Ready /\ run[r].status = "running"
    /\ run' = [run EXCEPT ![r].status = "over"]
    /\ UNCHANGED <<task, row, session, handler, endedBy, up>>

-----------------------------------------------------------------------------
(* Postflight *)

Move(h, p) == handler' = [handler EXCEPT ![h].at = p]

Look(t) == [status |-> task[t].status, cycle |-> task[t].cycle]

\* A postflight of a run whose preflight is stored; the Host may send it again.
ReceivePostflight(h, r) ==
    /\ Ready /\ handler[h] = Idle /\ run[r].phase = "ready"
    /\ handler' = [handler EXCEPT ![h] =
          [at |-> "received", run |-> r, seen |-> [status |-> "absent", cycle |-> 0], leased |-> FALSE,
           outcome |-> [asks |-> FALSE, blocked |-> FALSE, reason |-> Null]]]
    /\ UNCHANGED <<run, task, row, session, endedBy, up>>

\* updateCognitiveTask reads the task again and takes it over.
Adopted(h) == [task EXCEPT ![run[handler[h].run].task].active = handler[h].run]

AdoptTask(h) ==
    /\ Ready /\ handler[h].at = "received"
    /\ task' = Adopted(h)
    /\ handler' = [handler EXCEPT ![h].at = "judging",
                                  ![h].seen = Look(run[handler[h].run].task)]
    /\ UNCHANGED <<run, row, session, endedBy, up>>

\* A Host that reports a failed cycle: no model is awaited.
FailTurn(h) ==
    /\ Ready /\ handler[h].at = "received"
    /\ task' = Adopted(h)
    /\ handler' = [handler EXCEPT ![h].at = "task", ![h].outcome.reason = "host"]
    /\ UNCHANGED <<run, row, session, endedBy, up>>

\* continuationEligible, decided on the task as it was before the awaits.
Eligible(h, o) ==
    /\ o.reason \in {"coding", "pending"}
    /\ handler[h].seen.status = "active" /\ handler[h].seen.cycle < MaxCycles

\* The models answered: the postflight decides, and parks the task of a
\* question to the user before anything else.
JudgeTurn(h, o) ==
    /\ Ready /\ handler[h].at = "judging"
    /\ o.reason # "host"
    /\ o.reason = "pending" => handler[h].seen.status = "active" /\ ~o.asks
    /\ Eligible(h, o) => Room
    /\ task' = IF o.asks THEN [task EXCEPT ![run[handler[h].run].task] =
                                  [@ EXCEPT !.status = "waiting_for_user",
                                            !.active = handler[h].run]]
               ELSE task
    /\ handler' = [handler EXCEPT ![h].outcome = o,
                                  ![h].at = IF Eligible(h, o) THEN "enqueue" ELSE "task"]
    /\ UNCHANGED <<run, row, session, endedBy, up>>

\* Faulty: the budget is the one the postflight saw before its awaits.
Unbudgeted(t) == FALSE

\* scheduleCognitiveContinuation throws when the budget is spent.
BudgetSpent(t) == task[t].cycle + 1 > MaxCycles

Queued(t, n) == {i \in Rows : Live(i) /\ row[i].task = t /\ row[i].attempt = n}

\* Faulty: a continuation is inserted without looking for a live one.
InsertContinuation(t, r, n) == row' = Insert(row, t, r, n)

\* enqueueContinuation keeps a live row of the same attempt.
EnqueueContinuation(t, r, n) ==
    \/ Queued(t, n) # {} /\ UNCHANGED row
    \/ Queued(t, n) = {} /\ row' = Insert(row, t, r, n)

ScheduleContinuation(h) ==
    LET r == handler[h].run
        t == run[r].task
    IN  /\ up = "up" /\ handler[h].at = "enqueue"
        /\ task' = [task EXCEPT ![t].active = r]
        /\ \/ /\ BudgetSpent(t)
              /\ handler' = [handler EXCEPT ![h] = Idle]
              /\ UNCHANGED row
           \/ /\ ~BudgetSpent(t)
              /\ EnqueueContinuation(t, r, task[t].cycle + 1)
              /\ Move(h, "count")
        /\ UNCHANGED <<run, session, endedBy, up>>

\* updateCognitiveTask with incrementCycle, a write of its own.
CountCycle(h) ==
    /\ up = "up" /\ handler[h].at = "count"
    /\ task' = [task EXCEPT ![run[handler[h].run].task].cycle = @ + 1]
    /\ Move(h, "lease")
    /\ UNCHANGED <<run, row, session, endedBy, up>>

-----------------------------------------------------------------------------
(* Claiming a row: claimContinuationForSession, one transaction *)

\* Leases of the session that ran out, or that a gateway that has restarted
\* declares its own, go back to the queue, whatever their parents are.
Requeued(rows, cutoff) ==
    [i \in Rows |-> IF Expired(rows[i]) \/ (cutoff /\ rows[i].status = "leased" /\ rows[i].old)
                    THEN Released(rows[i], "queued") ELSE rows[i]]

Claimable(rows, ts, s) == {i \in Rows : rows[i].status = "queued" /\ Wanted(rows[i], ts, s)}

\* Lease the oldest claimable row to a fresh token.
Claim(rows, ts, s) ==
    \E i \in Claimable(rows, ts, s), w \in Tokens :
        /\ \A j \in Claimable(rows, ts, s) : i <= j
        /\ \A j \in Rows : w \notin {row[j].token, rows[j].token}
        /\ row' = [rows EXCEPT ![i] = [@ EXCEPT !.status = "leased", !.token = w,
                                                !.ttl = LeaseTime, !.old = FALSE]]

\* The postflight claims a row for the Host in its own response, or throws.
LeaseContinuation(h) ==
    /\ up = "up" /\ handler[h].at = "lease"
    /\ LET rows == Requeued(row, FALSE)
       IN  \/ /\ Claim(rows, task, session)
              /\ handler' = [handler EXCEPT ![h].at = "task", ![h].leased = TRUE]
           \/ /\ Claimable(rows, task, session) = {}
              /\ row' = rows
              /\ handler' = [handler EXCEPT ![h] = Idle]
    /\ UNCHANGED <<run, task, session, endedBy, up>>

\* The turn is not over and no continuation carries it on.
TurnFails(h) == handler[h].outcome.reason # Null /\ ~handler[h].leased

\* The task: failed, completed, or left active or waiting.
SettleTask(h) ==
    LET t == run[handler[h].run].task
        o == handler[h].outcome
    IN  /\ up = "up" /\ handler[h].at = "task"
        /\ task' = CASE TurnFails(h) \/ o.blocked ->
                          [task EXCEPT ![t].status = "failed", ![t].active = handler[h].run]
                     [] ~(TurnFails(h) \/ o.blocked) /\ ~handler[h].leased /\ ~o.asks ->
                          [task EXCEPT ![t].status = "completed", ![t].active = handler[h].run]
                     [] OTHER -> task
        /\ Move(h, "run")
        /\ UNCHANGED <<run, row, session, endedBy, up>>

\* A failed Host leaves the run acceptable to another postflight.
SettleRun(h) ==
    /\ up = "up" /\ handler[h].at = "run"
    /\ run' = [run EXCEPT ![handler[h].run] =
                  [@ EXCEPT !.phase = IF handler[h].outcome.reason = "host" THEN "ready" ELSE "closed",
                            !.status = IF TurnFails(h) \/ handler[h].outcome.blocked
                                       THEN "over" ELSE "done"]]
    /\ Move(h, "session")
    /\ UNCHANGED <<task, row, session, endedBy, up>>

SettleSession(h) ==
    /\ up = "up" /\ handler[h].at = "session"
    /\ session' = CASE handler[h].leased -> "working"
                    [] ~TurnFails(h) /\ ~handler[h].leased /\ handler[h].outcome.asks -> "paused"
                    [] OTHER -> "over"
    /\ handler' = [handler EXCEPT ![h] = Idle]
    /\ UNCHANGED <<run, task, row, endedBy, up>>

-----------------------------------------------------------------------------
(* The janitor: reconcileContinuationState, one transaction *)

\* Faulty: a lease is cancelled with its task, expired or not.
CancelsLease(x) == x.status \in {"queued", "leased"}

\* Faulty: closed rows are cancelled again.
CancelsClosed(x) == x.status # "leased" \/ x.ttl = 0

\* Faulty: the janitor leaves every lease to its holder.
CancelsQueued(x) == x.status = "queued"

\* Only queued rows and expired leases are the janitor's to cancel.
Cancellable(x) == x.status = "queued" \/ Expired(x)

Swept(rows, ts, s) ==
    [i \in Rows |->
        CASE Expired(rows[i]) /\ Wanted(rows[i], ts, s) -> Released(rows[i], "queued")
          [] Cancellable(rows[i]) /\ ~Wanted(rows[i], ts, s) -> Released(rows[i], "cancelled")
          [] OTHER -> rows[i]]

HasLive(rows, t) == \E i \in Rows : rows[i].status \in {"queued", "leased"} /\ rows[i].task = t

\* Active tasks whose session is over and that no row will continue.
Orphaned(rows, ts, s) ==
    [t \in Tasks |-> IF /\ ts[t].status = "active" /\ s \notin {"working", "paused"}
                        /\ ~HasLive(rows, t)
                     THEN [ts[t] EXCEPT !.status = "cancelled"] ELSE ts[t]]

\* Faulty: a task that waits for the user counts as work.
Unfinished(rows, ts, s) ==
    /\ s = "working"
    /\ \A r \in Runs : run[r].status # "running"
    /\ \A t \in Tasks : ts[t].status \notin {"active", "waiting_for_user"} /\ ~HasLive(rows, t)
    /\ \E t \in Tasks : ts[t].status # "absent"

\* A working session with nothing left that could move it.
Stranded(rows, ts, s) ==
    /\ s = "working"
    /\ \A r \in Runs : run[r].status # "running"
    /\ \A t \in Tasks : ts[t].status # "active" /\ ~HasLive(rows, t)
    /\ \E t \in Tasks : ts[t].status # "absent"

\* The parents after the sweep, and what it closed.
SweepParents(rows) ==
    /\ task' = Orphaned(rows, task, session)
    /\ session' = IF Stranded(rows, task', session) THEN "over" ELSE session
    /\ endedBy' = [i \in Rows |-> IF rows[i].status = "cancelled" /\ row[i].status # "cancelled"
                                   THEN "janitor" ELSE endedBy[i]]

\* A claim of another session runs the janitor as well.
RunJanitor ==
    /\ Ready
    /\ row' = Swept(row, task, session)
    /\ SweepParents(row')
    /\ UNCHANGED <<run, handler, up>>

\* GET of the continuation endpoint: the janitor, then the claim.  A gateway
\* that has restarted asks for the leases of its predecessor (cutoff).
PollContinuation(cutoff) ==
    LET swept == Swept(row, task, session)
        rows  == Requeued(swept, cutoff)
    IN  /\ Ready
        /\ SweepParents(swept)
        /\ \/ Claim(rows, task', session')
           \/ /\ Claimable(rows, task', session') = {}
              /\ row' = rows
        /\ UNCHANGED <<run, handler, up>>

-----------------------------------------------------------------------------
(* Lease holders.  A request names a row and a token; it may be late, or    *)
(* repeated, or come from a holder that lost its lease.  A request that is  *)
(* refused changes nothing and is not a step.                               *)

\* Faulty: the status of the row alone is checked.
AnyToken(x, w) == TRUE

TokenMatches(x, w) == x.token = w

HeartbeatContinuation(i, w) ==
    /\ Ready /\ row[i].status = "leased" /\ TokenMatches(row[i], w)
    /\ row' = [row EXCEPT ![i].ttl = LeaseTime, ![i].old = FALSE]
    /\ UNCHANGED <<run, task, session, handler, endedBy, up>>

CompleteContinuation(i, w, status) ==
    /\ Ready /\ row[i].status = "leased" /\ TokenMatches(row[i], w)
    /\ row' = [row EXCEPT ![i] = Released(@, status)]
    /\ endedBy' = [endedBy EXCEPT ![i] = IF row[i].token = w THEN "holder" ELSE "intruder"]
    /\ UNCHANGED <<run, task, session, handler, up>>

\* The Hermes gateway restarts: its predecessor's leases precede its cutoff.
GatewayRestart ==
    /\ \E i \in Rows : row[i].status = "leased" /\ ~row[i].old
    /\ row' = [i \in Rows |-> IF row[i].status = "leased" THEN [row[i] EXCEPT !.old = TRUE]
                               ELSE row[i]]
    /\ UNCHANGED <<run, task, session, handler, endedBy, up>>

\* The session is cancelled: by the request that deletes it, or by the preflight
\* of another session that finds it stale.  Its runs, tasks and rows stay.
CancelSession ==
    /\ Ready /\ session \in {"working", "paused"}
    /\ session' = "over"
    /\ UNCHANGED <<run, task, row, handler, endedBy, up>>

Tick ==
    /\ \E i \in Rows : row[i].ttl > 0
    /\ row' = [i \in Rows |-> IF row[i].ttl > 0 THEN [row[i] EXCEPT !.ttl = @ - 1] ELSE row[i]]
    /\ UNCHANGED <<run, task, session, handler, endedBy, up>>

-----------------------------------------------------------------------------
(* Abort *)

AbortedRows(r) == {i \in Rows : Live(i) /\ row[i].run = r}

AbortedTasks(r) == {t \in Tasks : task[t].status # "absent" /\ r \in {task[t].root, task[t].active}}

\* The tasks of ts are cancelled, whatever their status is.
CancelTasks(ts, r) ==
    task' = [t \in Tasks |-> IF t \in ts THEN [task[t] EXCEPT !.status = "cancelled", !.active = r]
                             ELSE task[t]]

CancelRows(is) ==
    /\ row' = [i \in Rows |-> IF i \in is THEN Released(row[i], "cancelled") ELSE row[i]]
    /\ endedBy' = [i \in Rows |-> IF i \in is THEN "abort" ELSE endedBy[i]]

AbandonRun(r) ==
    run' = IF run[r].status = "running" THEN [run EXCEPT ![r].status = "over"] ELSE run

\* The handlers, and the preflights that were not stored, die with the process.
Exit(rs) ==
    /\ up' = "down"
    /\ handler' = [h \in Handlers |-> Idle]
    /\ run' = [r \in Runs |-> IF rs[r].phase \in {"opened", "attached"}
                               THEN [rs[r] EXCEPT !.phase = "closed"] ELSE rs[r]]

\* The abort endpoint: abandonRun, cancelContinuationsForRun, then each task.
AbortRun(r) ==
    /\ Ready /\ run[r].phase # "none"
    /\ AbandonRun(r)
    /\ CancelRows(AbortedRows(r))
    /\ CancelTasks(AbortedTasks(r), r)
    /\ UNCHANGED <<session, handler, up>>

\* The process exits before the abort has written everything.
AbortCut(r) ==
    /\ Ready /\ run[r].phase # "none"
    /\ Exit(IF run[r].status = "running" THEN [run EXCEPT ![r].status = "over"] ELSE run)
    /\ \/ UNCHANGED <<row, endedBy, task>>
       \/ CancelRows(AbortedRows(r)) /\ \E ts \in SUBSET AbortedTasks(r) : CancelTasks(ts, r)
    /\ UNCHANGED session

-----------------------------------------------------------------------------
(* Process exit and start-up *)

ProcessExit ==
    /\ up # "down" /\ Exit(run)
    /\ UNCHANGED <<task, row, session, endedBy>>

\* reconcileAbandonedRuns.
StartBoot ==
    /\ up = "down" /\ up' = "booting"
    /\ run' = [r \in Runs |-> IF run[r].status = "running"
                               THEN [run[r] EXCEPT !.status = "over"] ELSE run[r]]
    /\ UNCHANGED <<task, row, session, handler, endedBy>>

Smaller(a, b) == IF a < b THEN a ELSE b

RunUnavailable(t) ==
    task[t].active = Null \/ run[task[t].active].status = "over"

\* Faulty: a task that a row will continue gets another one.
Abandoned(t) == task[t].status = "active" /\ RunUnavailable(t)

\* An active task that no row continues and whose run is over.
NeedsRecovery(t) == task[t].status = "active" /\ ~HasLive(row, t) /\ RunUnavailable(t)

\* reconcileCommandJobsAfterRestart of a task whose CommandJob is open.  (Which
\* jobs are open is CommandJob's; here any active task may have one.)
RecoverTask(t) ==
    LET n == Smaller(MaxCycles, task[t].cycle + 1)
    IN  /\ up = "booting" /\ NeedsRecovery(t) /\ Room
        /\ row' = Insert(row, t, task[t].active, n)
        /\ task' = [task EXCEPT ![t].cycle = n]
        /\ UNCHANGED <<run, session, handler, endedBy, up>>

\* The constructor ends with the janitor.
FinishBoot ==
    /\ up = "booting" /\ up' = "up"
    /\ row' = Swept(row, task, session)
    /\ SweepParents(row')
    /\ UNCHANGED <<run, handler>>

-----------------------------------------------------------------------------
Init ==
    /\ run = [r \in Runs |-> [phase |-> "none", status |-> Null, task |-> Null]]
    /\ task = [t \in Tasks |-> [status |-> "absent", cycle |-> 0, active |-> Null, root |-> Null]]
    /\ row = [i \in Rows |-> Absent]
    /\ session = Null
    /\ handler = [h \in Handlers |-> Idle]
    /\ endedBy = [i \in Rows |-> Null]
    /\ up = "up"

Preflight(r) ==
    \/ OpenRun(r)
    \/ \E blocking \in BOOLEAN :
          CreateTask(r, blocking) \/ \E continues \in BOOLEAN : ReuseTask(r, blocking, continues)
    \/ StorePreflight(r)

PostflightStep(h) ==
    \/ \E r \in Runs : ReceivePostflight(h, r)
    \/ AdoptTask(h) \/ FailTurn(h)
    \/ \E o \in Outcome : JudgeTurn(h, o)
    \/ ScheduleContinuation(h) \/ CountCycle(h) \/ LeaseContinuation(h)
    \/ SettleTask(h) \/ SettleRun(h) \/ SettleSession(h)

Holder(i, w) ==
    \/ HeartbeatContinuation(i, w)
    \/ \E status \in {"completed", "cancelled"} : CompleteContinuation(i, w, status)

Next ==
    \/ \E r \in Runs : Preflight(r) \/ ExpireRun(r) \/ AbortRun(r) \/ AbortCut(r)
    \/ \E h \in Handlers : PostflightStep(h)
    \/ RunJanitor
    \/ \E cutoff \in BOOLEAN : PollContinuation(cutoff)
    \/ \E i \in Rows, w \in Tokens : Holder(i, w)
    \/ CancelSession \/ GatewayRestart \/ Tick
    \/ ProcessExit \/ StartBoot \/ (\E t \in Tasks : RecoverTask(t)) \/ FinishBoot

Spec == Init /\ [][Next]_vars

\* Time passes, the process is started again and is not killed at every start,
\* a synchronous stretch runs to its end, and gateways keep polling: a poll is
\* served as soon as the event loop is free.
FairSpec ==
    /\ Spec
    /\ WF_vars(Tick) /\ WF_vars(StartBoot) /\ SF_vars(FinishBoot) /\ SF_vars(RunJanitor)
    /\ \A h \in Handlers :
          WF_vars(\/ ScheduleContinuation(h) \/ CountCycle(h) \/ LeaseContinuation(h)
                  \/ SettleTask(h) \/ SettleRun(h) \/ SettleSession(h))

-----------------------------------------------------------------------------
(* Properties *)

\* An attempt of a task is in the queue once: postflights that race, a crash
\* before the cycle is counted, and a restart never queue it again.
UniqueAttempt ==
    \A i, j \in Rows :
        i # j /\ Live(i) /\ Live(j) /\ row[i].task = row[j].task => row[i].attempt # row[j].attempt

\* A postflight of one of the runs of t writes its task: before its continuation,
\* or at the end.
Settles(h, t) ==
    /\ handler[h].at \in {"judging", "task"} /\ handler'[h].at # handler[h].at
    /\ run[handler[h].run].task = t

\* A continuation that was completed or cancelled stays so, and a task that is over
\* is started again by no preflight, recovery or janitor: besides the abort, which
\* cancels it, only a postflight that was let in for one of its runs settles it anew.
ClosedForever ==
    [][/\ \A i \in Rows : row[i].status \in {"completed", "cancelled"} => row'[i] = row[i]
       /\ \A t \in Tasks : task[t].status \in {"completed", "failed", "cancelled"} =>
             \/ task'[t].status \in {task[t].status, "cancelled"}
             \/ \E h \in Handlers : Settles(h, t)]_vars

\* A lease ends in its holder's hands: it is queued again, given away, or
\* cancelled by the janitor only after it ran out or after the gateway declared
\* it its predecessor's, and no holder of an earlier lease can end it.
LeaseKept ==
    [][\A i \in Rows : row[i].status = "leased" =>
          IF row'[i].status \in {"completed", "cancelled"}
          THEN endedBy'[i] \in IF row[i].ttl = 0 THEN {"holder", "abort", "janitor"}
                               ELSE {"holder", "abort"}
          ELSE row'[i].token = row[i].token \/ row[i].ttl = 0 \/ row[i].old]_vars

\* A lease whose holder is gone does not last: unless its holder keeps it alive
\* with heartbeats, every row gets out of the leased status again and again,
\* whatever became of its task and of its session.
LeaseReturned ==
    \A i \in Rows :
        \/ []<>(row[i].status # "leased")
        \/ []<><<\E w \in Tokens : HeartbeatContinuation(i, w)>>_vars

\* A session is not left working when no run, task or continuation is left that
\* could end it, whichever crash or cancellation took them away.
SessionReleased ==
    []<>~(/\ session = "working"
          /\ \A r \in Runs : run[r].status # "running"
          /\ \A t \in Tasks : task[t].status # "active"
          /\ \E t \in Tasks : task[t].status # "absent"
          /\ \A i \in Rows : ~Live(i))

-----------------------------------------------------------------------------
(* What the documents say, and the code does not do *)

\* "Gateway abort terminalizes the Runtime run, cognitive task, continuation
\* lease [...] together": a task that is cancelled stays so.  A postflight that
\* was awaiting a model when the abort came completes, fails or parks the task,
\* for it looks at neither the status of its run nor that of the task again.
CancelledForever ==
    [][\A t \in Tasks : task[t].status = "cancelled" => task'[t].status = "cancelled"]_vars
=============================================================================
