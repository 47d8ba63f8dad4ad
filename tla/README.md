# Zenos Runtime: TLA+ models, model checking and proofs

This directory holds a formal model of the durable core of the Zenos Runtime
(`src/`): TLA+ modules translated from the TypeScript source, the TLC
configurations that check them on small instances, and theorems that TLAPS
checks for every value of the constants. `PROJECT.json` is the index: it maps
each definition to the lines it models, lists the runs, the hazards, the
findings and the theorems.

Paths below are relative to `src/`; `lib/` is `app/lib/`, `api/` is `app/api/`.

## 1. The system

The Runtime is one Node process (Next.js) over one SQLite file. A *Host*
(Hermes, Codex) executes: it edits files, runs tools, talks to the user. The
Runtime thinks and remembers: it routes a request, plans it, verifies what the
Host reports, and decides whether the turn is over or has to be continued. A
*gateway* is the process that runs the Host and calls the Runtime's endpoints.

All store calls are synchronous (`node:sqlite`), so that two of them never
interleave inside the process. What does interleave is everything between two
`await`s: the model calls, the memory calls and the commands that a request
waits for. And since most operations issue several independent SQLite writes
without a transaction, a process exit can fall between any two of them.

### Inventory

| component | state | operations | hard behaviour | correct when |
|---|---|---|---|---|
| **CommandJob** `lib/command-job.ts` | one row of `command_jobs` and its `command_steps` per turn | ensure, preflight sync, postflight sync, pause, resume, fail, cancel, complete; start-up recovery in `lib/zenos-runtime-store.ts` | two writes per transition; crash between them; repeated turns over closed jobs; gates that throw after the task was completed | steps are committed in order, only once, on evidence; a closed job has no open step; a restart resumes at the first uncommitted step |
| **Cognitive tasks and continuation queue** `lib/cognitive-task.ts`, store, `api/runtime/gateway/continuation` | `cognitive_tasks`, `continuation_queue` with leases (token, expiry, attempt) | prepare, update, schedule, claim, heartbeat, complete, cancel, janitor, recovery | decisions on a task read before an await; late and repeated lease holders; gateway restarts; a crash between enqueue and count | an attempt is queued once, a lease belongs to one holder, closed rows stay closed, a lost lease returns, the continuation budget bounds the turns |
| **Gateway turns** `lib/gateway-orchestration.ts`, `api/runtime/gateway/*` | `runtime_runs`, a stored preflight per run | preflight, postflight, heartbeat, abort | preflight and postflight await models and memory between their writes; aborts in between; a postflight sent twice | a turn settles task, job, run and session consistently |
| **Runtime sessions** `lib/zenos-runtime-three-agent.ts` | `sessions`, `workers`, events, boss decisions | create, dispatch, lease, worker event, boss decision, complete, fail, cancel | executor awaits a model between lease updates; late events | a session that is over stays over; a worker has one outcome |
| **Pipeline runs and idempotency** `api/runtime/run`, `lib/zenos-runtime-executor.ts` | `idempotency` | claim, complete, conflict, expiry; pipeline stages | crash while the run is under way; retries that race the first call; expiry under a running call | one execution per key; a retry gets the stored answer |
| **Coding tasks** `lib/codex-execution-core.ts`, `lib/autonomous-coding-loop.ts` | `coding_tasks`, git checkpoint | prepare, checkpoint, patch, validate, revise, rollback, remote validation, cancel, reconcile | models, patches and commands awaited between phases; a task that outlives its turns; abort and postflight in between | what a failed loop leaves is on record or rolled back; no task completes on evidence that is not its own |
| **Token governor** `lib/token-governor.ts` | a budget per root run: a state in the process map, a row of `token_governors` | authorize, settle, snapshot, complete, clean-up | parallel role calls; a settle after completion; exit or expiry between authorize and settle | every grant counts the calls under way; nothing granted or spent is lost while the budget is in use |
| **Model calls** `lib/zenos-runtime-executor.ts` (`callRuntimeModel`) | circuit entries in the process map; tokens held in the governor | authorize, check circuit, attempts over HTTP or the command line, settle | overlapping calls of one role; retries; early returns after the grant; exits | every way out of a call settles it; the circuit opens on failures in a row; every call ends |
| **Routing** `lib/zenos-runtime.ts`, `host-led-policy.ts`, `gateway-planning.ts`, `low-tier-routing.ts` | the decision stored in the session | choose, resume unfinished coding, apply the Host-led policy or a Host's plan, decide anew after a code change | up to five rewritings of one decision, each of some of its fields; what a later turn inherits | roles, tiers, modes and call limits agree; the user's wishes and an approval survive every rewriting |
| **Token and latency plans** `lib/token-economy.ts`, `latency-budget.ts` | none | plans made from a decision | floors, caps and multipliers; a plan older than the decision it is used with | the roles of the decision fit the plan |
| **Outcome ledger, audit, learning** `lib/outcome-ledger.ts`, `runtime-audit.ts`, `learning-cards.ts` | append-only records | append a passport, append feedback as a revision, statistics for low-tier routing | written after run and session | a passport tells what came of its run |
| **Resource governor, caches, rate limits** `lib/resource-governor.ts`, `runtime-cache.ts`, `rate-limit.ts` | slots, queues and in-flight maps in memory | acquire, release, remember, invalidate | wake-up order of promises | at most the limit runs |
| **Continuity** `lib/continuity-service.ts`, `continuity-coordinator.ts`, `continuity-packet.ts` | a pause of the CommandJob, `continuity_checkpoints`, a packet in the memory service | checkpoint or reuse, resume packet | the handoff to the memory service is awaited between the decision and the save | the job resumes where it paused; the latest checkpoint is that of the latest cursor |
| **Authentication** `lib/auth.ts`, store `claimNonce` | `auth_nonces` | token checks, nonce claim | duplicate nonces | a nonce is accepted once |
| **Tool broker and execution boundary** `lib/tool-broker.ts`, `execution-boundary.ts` | none durable | file, process and network I/O behind path checks | I/O | - |
| **Memory client, repository intelligence** `lib/zenos-memory-client.ts`, `repository-intelligence.ts` | caches | network and text processing | I/O | - |
| **Monitoring, operations** `lib/runtime-tracker.ts`, `metrics.ts`, `readiness.ts`, `scripts/`, `*.service` | none of their own | reads, backups, gates | I/O | - |

### How they interact

```
 Host/gateway --preflight--> route, plan --> run, session, task --> CommandJob --> [coding loop, Boss]
      |                                                                      stored preflight
      |--postflight--> weigh evidence --> [Verifier, Boss] --> schedule/lease a continuation
      |                    --> task --> CommandJob --> run, passport, session
      |--continuation GET--> janitor, claim        heartbeat/complete/cancel
      |--abort--> run, continuations, tasks, CommandJobs
 client --POST /run--> idempotency key --> [Host, Worker, Verifier, Boss] --> run, session, passport, key
      |--session, dispatch, worker-event, boss-review, escalate, outcomes routes
 every [model call] --> token governor, circuit breaker
 start-up: runs -> CommandJobs (+ a continuation per active task) -> janitor
```

The session, the tasks, the runs and the queue are shared by all of these; there
is no lock, the atomicity is that of the event loop.

## 2. Plan

Modules, in the order of what matters most. All of them are modelled and checked.

| | module | what | proved, in the module of that name with `Proofs` |
|---|---|---|---|
| 1 | `CommandJob` | the durable job of a turn, write by write | all seven properties |
| 2 | `Continuation` | turns, tasks, queue and leases of a session, with aborts, restarts and a janitor | all but liveness |
| 3 | `CodingTask` | the coding task over the turns of a session, with its loop | all but liveness |
| 4 | `TokenLedger` (abstract), `TokenGovernor` | a token budget, and the account it implements | all, the refinement included |
| 5 | `PipelineRun` | `POST /run`: keys, pipeline stages, sessions, worker leases, outcome ledger | all but liveness |
| 6 | `ModelCall` (over `TokenGovernor`) | concurrent model calls on one budget and one circuit | all but liveness |
| 7 | `Routing` | a decision, its rewritings and the plans made from it | all |
| 8 | `GatewayTurn` (with decisions of `Routing`) | a gateway turn from decision to settled rows, and the task that goes from turn to turn | all but liveness |

Composition: `ModelCall` extends `TokenGovernor`, whose actions are conjuncts of
its own; `MCGatewayTurn` takes the decisions of its turns, and those a code
change leads to, from `Routing`; `GatewayTurn` is one postflight whose writes
`Continuation` and `CommandJob` interleave with those of others.

Left: a model of the command slots with the order of promise continuations
explicit, and one of the continuity checkpoints. Liveness stays with TLC.

## 3. The modules

### CommandJob

One row of `command_jobs`, its steps, and every call that touches them. The
functions are synchronous but issue one SQLite write after the other; a call is
a walk through program points (`call.at`), and `ProcessExit` may come at every
point and between the two writes of `transitionCommandStep` (`WriteStep` writes
the step, then the job). `Restart` is the one transaction of start-up recovery.
The steps are a function from the seven kinds to a status and the evidence they
were committed on; wording, timestamps and the metadata nothing reads are left
out. `plan` is history: what the decision asked for at creation.

| code | action |
|---|---|
| `ensureCommandJob` | `CreateCommandJob`, `ResumeCommandJob`, `ReuseCommandJob`, `AttachCognitiveTask` |
| `synchronizeCommandJobPreflight` | `PreflightRoute` ... `PreflightApproval`, `PreflightAutonomous*` |
| `synchronizeCommandJobPostflight` | `PostflightCommit*`, `PostflightPark`, `PostflightAccept*`, `PostflightVerify` |
| `pauseCommandJob`, `cancelCommandJob`, `failCommandJob`, `completeCommandJob` | the actions of these names |
| `reconcileCommandJobsAfterRestart` | `ReconcileCommandJob` in `Restart` |

### Continuation

The turns of one session: `run`, `task`, `row` (the continuation queue), the
session's status, and the postflights under way. The code between two awaits is
one step, except the last stretch of a postflight, which writes one table after
the other (`WritePoints`); an exit may fall between. Actions: the preflight
(`OpenRun`, `Attach`, `StorePreflight`), the postflight (`ReceivePostflight`,
`AdoptTask`, `JudgeTurn`, then `ScheduleContinuation`, `CountCycle`,
`LeaseContinuation`, `SettleTask`, `SettleRun`, `SettleSession`), the
continuation endpoint (`PollContinuation`, `HeartbeatContinuation`,
`CompleteContinuation`), the janitor, the abort, and the boot. A lease's time is
a countdown (`ttl`), so that nothing grows; `old` says whether a row was last
touched before the gateway's present start, all that `gatewayStartedAt` is
compared with. `endedBy` is history.

### CodingTask

One coding task and the turns that work on it. `disk` gives each file a content
that no write repeats; `proved` is history: a validation passed on the content
the disk has now. The turn walks through the awaits of the preflight and of the
autonomous loop (`LoopPoints`); between any two of them come aborts, the
reconciliation of runs, a restart, the postflight of the same or of an earlier
turn and the answer of a remote validation. `recordCodexPatch` is two steps,
with the values it read before its await in `seen`. A patch candidate is applied
file by file. Models, the impact analysis and the commands are choices: which
files are in the snapshot, in the candidate, and whether a stage passes, fails,
is deferred or throws (`WorkerFails`, also in the midst of a validation). A
rollback (`RollBack`) restores and takes the files off the record
(`EndRestored`), or throws at one of the files (`EndStuck`): what it restored by
then stays restored and the record stays as it was. Besides I/O errors an empty
file of the snapshot has this effect, whose content `''` counts as missing
(`lib/codex-execution-core.ts:472`). The catch of the loop tries the rollback
once more and swallows what it throws. The phases `understand` and `plan`, passed inside the step that
creates a task, are not seen. Two preflights of one session at the same time
are left out: the gateway sends the turns of a session one after the other.

### TokenGovernor and TokenLedger

One budget id. `cached`, `cache`, `age` are its entry of the process map and the
time since `updatedAt`; `status`, `row`, `left` its row and the time until
`expires_at`. `StateFor` is `stateFor`: the entry, else the row, else a new
state, raised to the plan it is asked with; `PersistState` writes both,
`KeepState` only the map (a consultation of a live entry does not renew the
row). Calls go new, open, over; a model's answer is lost with the process, a
Host's postflight is not, and may come twice. The action `Cleanup` is the call
of any other budget.

`TokenLedger` is what this promises: an account `spent`, `held`, changed by
`Grant` (only within the allowance, all held tokens counted), `Settle`, `Close`,
and `Forget`, which needs `Ttl` ticks without a grant or settlement. The
refinement maps the account to the state `stateFor` would find; `quiet` and
`closed` are history variables of `TokenGovernor` that say how long the budget
was idle and how often it was completed, without which a lost row could pass
for a closed one.

### PipelineRun

`POST /api/runtime/run`. A request claims its key (`Run`, `Replay`:
`claimIdempotency` before the pipeline, with the conflict and the replay of what
is stored), then walks through the awaits of `runZenosPipeline` (`Stages`). Each
action is what runs between two awaits, so that a crash, an expiry or a call of
another route comes in between. A draft is the number of its version;
`passed`, `approved` and `blocked` are the versions the reviewers spoke of.
`Conclude` is the end of every path: run, session, passport, key. A session id
that is not in the store ends in `Unsettled`: the update of the session throws
after the run was saved, so that the answer is a 500 and no passport is written.
The run is saved as failed then, or as blocked when the error that led to the
catch names a block (`Catch`). What makes a
route is a record of what the pipeline reads of a decision.

| code | action |
|---|---|
| `runZenosPipeline` | `Prepared`, `Compressed`, `Drafted`, `Verified`, `Revised`, `Decided`, `Delegated`, `BossRevised`, `FinallyVerified`, `Persisted`; `Caught` for its catch |
| session, escalate, boss-review routes | `Create`, `Patch`, `Escalate`, `BossReview`, `Cancel` |
| `dispatchWorker`, `recordWorkerEvent`, `executeManagedWorker` | `Dispatch`, `WorkerEvent`, `ManagedAnswer` |
| `recordOutcomePassport`, `appendOutcomeFeedback` | `RecordOutcomePassport`, `AppendOutcomeFeedback` |
| `reconcileExpiredRuns`, `reconcileAbandonedRuns`, `reconcileStaleRuntimeSessions` | `ExpireRun`, `Restart`, `Stale` |

### ModelCall

`callRuntimeModel` over `TokenGovernor`. The stretch from the grant to the first
attempt is synchronous, which `Free` says of the other calls; an exit may cut it.
`failures` and `open` are the entry of the circuit, which `Send` deletes as
`checkCircuit` does. `streak` is history: the failures since the last success.

### Routing

The text of a request is the set of patterns it matches; the regular expressions
are not modelled, their order in `classifyTask` and `choosePipeline` is. A turn
goes from `Receive` (choose, and resume or recover unfinished coding work) over
`LedByHost`, `LedByPolicy` or `LedByPlan` to `AnswerUnchanged` or
`AnswerChanged`, and leaves in the session what the next turn reads. The token
plan is arithmetic in the source's units, rounding included, for every priority
and number of prior failures, though no caller passes the latter. `MCRouting` checks
the repository's own regression suite of routes (`baseRuntimeEvalCases`) against
the operators as an assumption.

### GatewayTurn

The turns of a session one after the other, each with its decision. `stage` walks
through `preflightGatewayTurn` and `postflightGatewayTurn`; a report of the Host
is its receipts, what its summary and draft match, and the state of the
workspace. The task keeps its acceptance checks from turn to turn, as
`mergeAcceptanceChecks` does. A revision the Host makes for the Boss is a new
answer or, when it equals the Host's draft, that draft again (`ReviseDraft`:
`transformed` is computed anew), also after a block had replaced it. `unvalidated` is history: the last code change of
the task was not validated. Concurrency is left to `Continuation`: here the
question is whether the cascades of conditions that write six rows agree.

## 4. The runs

| run | what it asks | bounds, and why they are enough |
|---|---|---|
| `command_job` | types, order of the steps, completion covers every open step, the active step never skips, a cancelled or parked job runs nothing, committed steps stay | two decisions that between them need every step kind, an approval and no verification; one pending run: a job has one row, more runs repeat the same calls on it |
| `continuation_leases` | types with the budget, an attempt is queued once, a closed row stays closed and only a postflight of its runs settles a task that is over, a lease is only taken from its holder when it ran out or the gateway disowned it | two runs, tasks, postflights, tokens and rows with a budget of one, under the constraint `OneAxis`: either one run with two postflights and two rows that race for the budget, or two runs and two tasks over one row with one postflight at a time. What is cut off is both at once |
| `continuation_progress` | a lease returns, a session does not stay working for nothing | one run, one task: what has to happen concerns one row; two tokens for a holder and its successor |
| `coding_task` | an abort reaches the active task and is undone only by a record that looked before it, the rollback point is taken once, only an active task is completed | two turns, one file, one postflight, two writes: one by the loop and one by the Host |
| `coding_loop` | what a loop leaves is on record; the loop ends | two turns, one file, one revision, two writes, rollbacks that stop half way; for more files the theorem stands in |
| `token_governor` | types with the limit, map and row agree, no overdraft, the budget is the ledger's account | two model calls and a Host turn, two plans, estimates of 1 and 2, `Ttl` of one tick; the two constants of `plausibleCap` become 1 and 2, so that a report can be below the reservation, within the cap and above it |
| `pipeline_run` | what is released was reviewed and not blocked; a key is executed once and its record tells of its run; rows, session and ledger tell what came of the runs; a saved outcome stays | two requests on one key and one session, five kinds of arrival (a critical request, a coding task, an optional verification, another body under the key, a dry run), one call of an outside route, one exit |
| `pipeline_progress` | the pipeline ends; run, key and session of a lost one are settled | one request, a worker lease, two outside calls, one exit |
| `model_calls` | every grant is given back and every announced call ends announced; the circuit opens only on failures in a row; every call ends | two calls on a budget of two, so that one can be denied, and one without a budget on the command line; two attempts for the call that asks for JSON; the circuit opens on two failures instead of five |
| `routing` | the parts of a decision agree, wishes and approval survive, plans have room for the reviewers | every pair of text patterns with every intent; hints with wishes; sizes by task class at the thresholds of the policy; continuations; outcomes at the limits of low-tier routing. Both orchestration modes |
| `gateway_turn` | the rows agree, a task is completed on evidence, the reviewers bind, turns and tasks end | four sessions of up to three kinds of turn (autonomous and verified coding with continuations, destructive with and without approval, question, summary, chat), fourteen reports; two continuations with tools, one without, instead of 8 and 6 |
| `gateway_block` | "Verifier/Boss block: fail closed" | as `gateway_turn`; ends with a counterexample |

`CHECK_DEADLOCK` is off where a system may really stop: every request, run or row
of the small instance used up.

`HandRecorded` is checked without postflights: when a late postflight of an
earlier turn is under way its write-back of the changed files it had read drops
a file that the loop recorded meanwhile. It speaks of every outcome; an error
(`failed`) excuses one thing, a file of the candidate under way that was not on
record yet, for the reason given below. A file that was on record is still
there, or back at the rollback point, however the rollback ended.

Three properties say exactly as much as the code keeps, and no more.
`AbortReaches` is about the abort and about who undoes it: the write-back of
`recordCodexPatch` may, when it looked before. `CompletesActive` likewise allows
a postflight that saw the task active before its await. `ClosedForever` allows a
postflight that was let in to settle a task that was aborted. What these three
let through is listed below as a disagreement with the documents. `ReviewsBind`
excuses a final Verifier's escalation (its disjunct `answer # "draft"`).

`SessionSettled`, a part of `RowsTruthful`,
speaks of sessions no outside route touched, since each of these routes writes
the status it likes.

### Fairness

- `Continuation!FairSpec`: time passes; the process is started again
  (`StartBoot`) and not killed at each start (`SF(FinishBoot)`); the synchronous
  stretch of a postflight runs to its end; and gateways keep polling, so that
  the janitor, which the continuation endpoint runs first, runs again and again
  (`SF(RunJanitor)`: it waits for a free event loop). No fairness of Hosts,
  models, aborts or heartbeats is assumed.
- `CodingTask!FairSpec`: `WF(Loop)`, the models and commands the loop awaits
  answer or time out (`timeoutMs` of every model call and command).
- `PipelineRun!FairSpec`: every await of the pipeline and of a managed worker has
  a timeout; the process is restarted by its supervisor; records expire after a
  day; gateway turns keep coming, each of which begins with the reconciliation
  of stale sessions.
- `ModelCall!FairCallSpec`: `WF(Call)`, every attempt has a timeout.
- `GatewayTurn!Spec`: `WF(Advance)`, every await has a timeout and a Host that
  does not report is abandoned when its run expires; `WF(Resume)`, the Host takes
  up the continuation it was leased.

The other specifications state safety only.

### Where code and documents disagree

Kept as a run (`gateway_block`): an unresolved code change asks for its
continuation before the verdicts are looked at, and the draft that the Verifier
or the Boss blocked is delivered with the continuation
(`lib/gateway-orchestration.ts:1822` against
`docs/zenos-runtime-production.md:76`).

Reproduced by a configuration that is not among the runs; TLC ends each with a
counterexample:

- `CommandJob_CompletedCoversPlan.cfg` (with `MCCommandJob`): a job is written
  before its steps, one by one. A crash in between leaves a prefix, which is then
  completed and delivered (`lib/command-job.ts:185` against
  `docs/zenos-continuity-v2-rollout.md:10`).
- `CommandJob_VerifiedOnEvidence.cfg`: the task is completed before the gates of
  the job; when the gate throws, recovery commits the verify step because the
  task is completed (`lib/zenos-runtime-store.ts:869`).
- `CommandJob_NoInternalError.cfg`: a delivered coding turn without mutation
  whose validation passed commits `validate` before it accepts the untouched
  `patch`, and the predecessor rule throws (`lib/command-job.ts:437` against
  `tests/command-job-continuity.test.ts:353`).
- `Continuation_CancelledForever.cfg` (with `MCContinuation`): a postflight that
  awaited its models during an abort completes, fails or parks the cancelled
  task (`lib/gateway-orchestration.ts:2018` against
  `docs/zenos-continuity-v2-rollout.md:85`).
- `CodingTask_SuccessIsValidated.cfg` (with `MCCodingTask`): the empty candidate
  of the loop counts as a validated mutation, and a postflight with the workspace
  state completes the task on it (`lib/gateway-orchestration.ts:1114` against
  `docs/etla-runtime-v1-roadmap.md:1276`).

Met while modelling; the steps are in the modules:

Durable state
- Recovery requeues the stored active step. After an exit between the two writes
  of a transition that step is committed already and none is requeued
  (store `:852`; rollout document `:84` says the first uncommitted step is).
- An abort cancels the continuations its run scheduled; the lease a continuation
  turn runs on was scheduled by the run before (store `:1909`; rollout document
  `:85`). It ends when it runs out.
- Recovery queues a continuation at every restart that finds the task active
  without one, its budget spent or not (store `:897`; `README.md:39`).

Coding tasks
- The catch of the autonomous loop ("failed closed",
  `lib/autonomous-coding-loop.ts:603`) rolls back only files on record: when the
  second file of a candidate is refused the first stays patched (`:580`). A
  rollback that throws half way is swallowed, and the files are left partly
  restored (`:590`); the comment there says the failure "is visible in unresolved
  state" (`:591`), yet nothing is written to the task.
- The rollback restores the files of the snapshot; a file the plan allows and the
  snapshot lacks keeps the failed patch (`lib/codex-execution-core.ts:463`;
  roadmap `:1277`). And it restores to the checkpoint of the task's first turn,
  with what the Host wrote since (`:664`).
- `recordCodexPatch` writes back the status it read before `git diff`: an abort in
  between is lost (`lib/codex-execution-core.ts:711`).
- After a completed loop the task is in `summarize`, where `recordCodexPatch`
  throws: the postflight that reports the workspace state fails (`:692`).
- A new coding task names its run before the run is saved; a reconciliation in
  that await cancels it (`lib/gateway-orchestration.ts:608`).

Pipeline runs and sessions
- A run that asks its user is answered with 200 and its record stored as failed:
  the replay of the request gets 502, and so does a blocked one that was answered
  with 422 (`api/runtime/run/route.ts:38`, `:45`; `README.md:28`).
- With `persistSession: false` and a session id that is not in the store the
  completion throws after the run's answer was made: 500, no passport, and a run
  saved as failed, or as blocked when the error names a block.
- A cancelled session is revived by the pipeline under way, a boss decision or a
  late worker event; `POST /session` with an id in use writes the row as new; of
  two runs on one session the first to finish marks it done; a run abandoned
  while under way is overwritten when it ends.
- A managed worker's lease stays running after a crash when its session is done.

Model calls
- `checkCircuit` deletes an entry that is not open before each call, so that only
  overlapping failures can add up to five (`lib/zenos-runtime-executor.ts:539`;
  `SECURITY.md:98`).
- A response format the provider refuses is never tried again without it at the
  default of no retries, and the circuit hears nothing of it (`:897`).

Routing and plans
- An active coding continuation sets risk high and no approval, even when the
  request is destructive (`SECURITY.md:102`); outside the Host-led mode it
  overrules a declined verification.
- The stored `useVerifier` of a session may be the policy's own and becomes the
  user's request of the next turn (`lib/gateway-orchestration.ts:561`).
- The gateway's latency plan is made from the baseline decision (`:590`); a
  critical turn's second Boss call may not fit the total of its token plan.

Gateway turns
- A Boss the user asked for that blocks in the preflight is not asked again in
  the postflight: the draft is delivered and the session done, with the run
  blocked. A Boss that revises after the Verifier's block replaces the block.
- A final Verifier that answers `escalate` or `revise` lets the revision through
  (`lib/zenos-runtime-executor.ts:1252` speaks of drafts that are not to be
  released unverified).
- Whether delivery is held is decided in the preflight
  (`docs/zenos-runtime-hermes-native-middleware.md:58`).
- An autonomous outcome that validated counts as the validation of what the Host
  changed afterwards in the same turn (`lib/gateway-orchestration.ts:1232`).
- Criteria that no evidence of the turn can pass (a summary's is of kind
  artifact, a requested verification's of kind implementation), and checks that
  go back to pending in a later turn, lead to continuations until the budget
  ends, then to failure.
- A task that waits for its user is completed when the Host answers without
  asking, its criteria pending.
- An unresolved change whose Host asks the user parks the task, schedules a
  continuation and then finds none to lease: the postflight throws and leaves
  the run running (`:1907`).

Command slots: with two slots or more a call that acquires between a release and
the resumption of the waiter is admitted as well (`lib/resource-governor.ts:114`).

## 5. What is proved

Every safety invariant and every action property of the runs that pass, and the
refinement of `TokenLedger`: for any number of requests, runs, tasks, rows,
files, calls and keys, and for every value of the other constants that satisfies
the assumptions below. The runs show the same on small instances, and were used
to check each inductive invariant before it was proved.

None of the properties is inductive as it stands. A property speaks of rows that
are settled; what has to be added is what is true *meanwhile*: between two
writes, during an await, or while a row is out of date. Each module names that
addition, shows that every action keeps it (one lemma per action), and derives
the properties from it.

| module | properties | what makes them inductive |
|---|---|---|
| `CommandJobProofs` | `TypeOK`, `StepOrder`, `CompletedAllCommitted`, `ActiveNeverSkips`, `CancelledQuiesced`, `DoneIsForever`, `ParkedQuiesced` | `CallInv`: the kinds a call at each program point is about; `CancelledInactive`; `AtRest` and `DownIdle` for the parked job |
| `ContinuationProofs` | `TypeOK`, `UniqueAttempt`, `ClosedForever`, `LeaseKept`, and `OneHolder` | `OneWriter` and `Founded`: one postflight at a time is between its writes, so that the room and the budget it found are there when it writes; `Columns`: a row has lease columns only while leased. `TasksSettled` says who writes a task that is over |
| `CodingTaskProofs` | `TypeOK`, `RollbackPointKept`, `CompletesActive`, `AbortReaches`, `HandRecorded` | `Held`: the turn under way has a run and, once prepared, its task; `Hands`: what the loop wrote is on record or among the patches it is about to record; `StatusStep`: who changes the status of a task that is not active |
| `TokenGovernorProofs` | `TypeOK`, `WriteThrough`, `Implements`, `NoOverdraft` | `Waits`: where time stands; `Funded`: map and row each pay for what they hold |
| `PipelineRunProofs` | `ReleaseSafe`, `KeyKept`, `RowsTruthful`, `OutcomeKept` | `Reviewed`: of which version each reviewer has spoken, stage by stage; `Claimed`, `Recorded`: the record of a key is its latest claimant's and runs with it; `Rowed`, `Settled`, `NoLeases` |
| `ModelCallProofs` | `CallsAccounted`, `OpenedByFailures` | the governor's invariant, which a call's steps keep; `Counted`: the entry of the circuit holds no failure from before the last success |
| `GatewayTurnProofs` | `RowsAgree`, `CompletedOnEvidence`, `ReviewsBind` | `OpenRows`: the rows of a turn that is not settled; `EvidenceWeighed`: what the weighed evidence says of the checks; `VerifierHeard`, `BossHeard`, `Unheard`: what the reviewers that were passed have answered, and that no verdict is an earlier turn's |
| `RoutingProofs` | `RolesAgree`, `WishesKept`, `PlansFit`, `AuthorityKept` | `Wished`: where a baseline comes from and for whom the session's record of verification speaks; `Authorised`: what needs approval is still asked for by a critical request; `BaselineTimed` |

The arguments that are not a walk through the actions:

- **CommandJob.** Outside the creation of a job every write is an *Advance*: it
  changes open steps only, and starts or commits a step only when its
  predecessors are committed. An advance keeps the order, what is committed, and
  "all committed". `ProgressStep` shows that each action is one; `CreationStep`
  treats the one that is not. That a parked job is at rest does not follow from
  this: it needs that the step it is parked on does not run in the midst of a
  postflight either, since an exit may come there, and that no preflight works on
  a job that is still parked.
- **TokenGovernor.** An account is lost by an exit or a tick only when the ledger
  may forget it: the map's entry is not older than the last grant or settlement,
  the row's remaining life and the idle time make up `Ttl`, and an entry whose
  row was deleted has been idle for `Ttl`. For the refinement the sum of the held
  tokens need not be opened, the guards of `authorizeTokenSpend` and of `Grant`
  speak of the same sum. `NoOverdraft` needs it: the sum is written as the number
  of the reserved tokens (`Tokens(h)`), so that the theorems on finite sets say
  what a grant adds to it and a settlement takes away. It is said of the map and
  of the row apart, as their limits differ and an exit leaves one for the other.
- **CodingTask.** A rollback is one of three ways the loop ends (`EndRestoredStep`,
  `EndStuckStep`, `EndKeptStep`); each carries the record it started with
  (`Carried`), so that no outcome needs an argument of its own. `HandRecorded` is proved of the behaviours in which no
  postflight of an earlier turn goes on from its await while the loop runs
  (`[][Alone]_vars`). Without this it is false: that postflight writes back the
  list of files it read before its await (section 4). Aborts, reconciliations,
  remote results, and postflights that begin or stop meanwhile are all allowed.
- **PipelineRun.** A key is claimed anew when its record has expired, so that
  several requests with one key may have run the pipeline over time. The history
  variable `term` numbers the lives of a record: a request is the claimant of one
  of them, and one that is still waiting is the claimant of the present one.
  `ReleaseSafe` follows from the versions alone: a revision makes a version
  nobody has approved or blocked yet.
- **Routing.** A list of rules is handled by one lemma, `FirstMatchIs`: a rule
  applies because the last one always does. Each function that makes or remakes a
  decision has a lemma that says what the others need of it, for every request:
  the policy's table, the Host-led policy, a Host's plan and its fallback, the
  continuation, the decision after a change. `TokenPlanFits` is arithmetic over
  the factors, floors and caps of the token plan, roundings included.

Assumptions, each an `ASSUME` that TLC evaluates on the runs:

- `CommandJob`: `Decisions` are routing decisions; at least one run may be pending.
- `Continuation`, `CodingTask`, `PipelineRun`: the names `none` stands beside are
  not in use as runs, tasks, tokens, keys or sessions; bounds are naturals
  (positive ones for rows, cycles and the length of a lease). Arrivals of
  `PipelineRun` name keys, sessions and routes that exist, and its session
  patches are the statuses the route accepts.
- `TokenGovernor`, `ModelCall`: estimates are positive (`Math.max(1, ...)`),
  totals, reserves and reports naturals; `Least`, the 2500 of `plausibleCap`, and
  the threshold of the circuit positive; one to three attempts.
- `GatewayTurn`: turns without tools have no more continuations than those with.
- `Routing`: requests satisfy `RuntimeContextSchema`.

**Only model-checked** is liveness (`LeaseReturned`, `SessionReleased`,
`LoopEnds`, `Answered`, `RowsSettle`, `CallEnds`, `WorkEnds`): fairness and
`ENABLED` are out of reach of the provers. `MCRouting` checks the suite of routes
by evaluation.

## 6. What is not modelled

- Components whose status in `PROJECT.json` is `not_modelled`: the memory client,
  repository intelligence, tool I/O, authentication and monitoring. They are
  network, file, text and cryptography; where the core awaits them the models
  take any outcome. A nonce is claimed in one synchronous transaction
  (`claimNonce`), a single atomic step. The
  slots and caches in memory are left out because what could go wrong in them
  depends on the order of promise continuations within one tick, which the
  modules treat as one step.
- Regular expressions: which pattern a text matches is an input. So are the
  estimates of tokens, the contents of prompts and packets, and the wording of
  what the Host is sent.
- The table `continuity_checkpoints`. A call reads the latest checkpoint, decides
  whether to reuse it, awaits the handoff to the memory service and saves the new
  one (`lib/continuity-service.ts:62`), and the latest is the one saved last: of
  two handoffs that overlap, the one from the older cursor can end up the latest.
  It is the next component to model; nothing of the other modules reads it.
- Audit records and learning cards, which nothing of the core reads back.
- Failures of SQLite itself, and several Runtime processes on one file.
- In `Continuation`: leases from before tokens existed (empty `lease_token_hash`);
  statuses nothing tells apart are one value (`over`).
- In `CodingTask`: two preflights of one session at the same time. Of a policy
  check one violation at a time is looked at, since the worst decides.
- In `PipelineRun`: gateway runs on the same session (they are in
  `Continuation`), and the text of worker events beyond what they do to the
  session and the lease.
- In `TokenGovernor`: the counters of calls and anomalies, which nothing decides
  on; a request id used for two calls. In `ModelCall`: different roles or models,
  which share nothing but the budget.
- In `GatewayTurn`: crashes and concurrent postflights (in `Continuation`), fresh
  data and long contexts as reasons for more continuations.

## 7. Running it

```
tlc -config MCCommandJob.cfg MCCommandJob.tla
tlapm CommandJobProofs.tla     # and so for Continuation, CodingTask, TokenGovernor,
                               # ModelCall, PipelineRun, GatewayTurn, Routing
```

The configurations named after a property (`GatewayTurn_BlockFailsClosed.cfg`,
`CommandJob_NoInternalError.cfg`) end with a counterexample; `PROJECT.json` names
module, configuration and properties of every run, and for each property a
mutation of the model it is able to tell from the code.
