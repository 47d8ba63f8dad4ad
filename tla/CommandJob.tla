----------------------------- MODULE CommandJob -----------------------------
(***************************************************************************)
(* The durable CommandJob of app/lib/command-job.ts: one row of            *)
(* command_jobs, its rows of command_steps, and every operation the        *)
(* gateway, the compaction endpoint, the abort endpoint and the start-up   *)
(* recovery of zenos-runtime-store.ts performs on them.                    *)
(*                                                                         *)
(* The functions are synchronous, so two of them never interleave, but     *)
(* each one issues several independent SQLite writes.  A call is therefore *)
(* a walk through program points (call.at); at every point, and between    *)
(* the two writes of a point, the process may exit and lose the rest of    *)
(* the call.  Start-up recovery runs in one transaction (Restart).         *)
(***************************************************************************)
EXTENDS Naturals

CONSTANTS
    Decisions,   \* the routing decisions explored: a subset of Decision
    MaxPending   \* bound: preflighted runs that still await their postflight

-----------------------------------------------------------------------------
(* Types *)

Kinds == {"route", "inspect", "plan", "patch", "validate", "verify", "deliver"}

\* The ordinal order of the steps.  Stored ordinals are positions in the list
\* of required kinds, which keeps this order.
Rank == [k \in Kinds |-> CASE k = "route" -> 0 [] k = "inspect" -> 1
                           [] k = "plan" -> 2 [] k = "patch" -> 3
                           [] k = "validate" -> 4 [] k = "verify" -> 5
                           [] OTHER -> 6]

StepStatus == {"queued", "running", "done", "retry_pending", "blocked", "failed"}
JobStatus  == {"queued", "running", "paused_for_compaction",
               "waiting_for_approval", "retry_pending",
               "completed", "failed", "cancelled"}
OpenJob    == {"queued", "running", "paused_for_compaction",
               "waiting_for_approval", "retry_pending"}
Resumable  == {"queued", "paused_for_compaction", "retry_pending"}
TaskStatus == {"active", "waiting_for_user", "completed", "failed", "cancelled"}

\* What the metadata of a committed step says it was committed on.
Evidence == {"none", "preflight", "autonomous", "mutation", "noop", "validated",
             "skipped", "model", "substitute", "delivered", "recovered"}

TaskTypes == {"simple_chat", "repo_question", "coding_change", "debugging",
              "security_or_secret", "deploy_or_destructive_action",
              "eval_or_benchmark", "planning_or_architecture", "summarization",
              "memory_question"}

\* verify stands for useVerifier \/ useBoss \/ risk \in {high, critical}.
Decision == [taskType : TaskTypes, verify : BOOLEAN, requiresApproval : BOOLEAN]

ASSUME DecisionsAssumption == Decisions \subseteq Decision
ASSUME MaxPendingAssumption == MaxPending \in Nat \ {0}

Null == "none"

VARIABLES
    job,      \* [status, active] of the command_jobs row; status Null: no row
    steps,    \* [Kinds -> [status, evidence]]; status "absent": no row
    plan,     \* history: the kinds requiredStepKinds asked for at creation
    task,     \* status of the cognitive task the job points to, or Null
    prepared, \* a preflight holds the task and has not reached the job yet
    pending,  \* preflighted runs whose postflight has not been stored
    call,     \* the call in progress: its program point and its inputs
    error,    \* the exception that ended the last call, or Null
    up        \* the Runtime process is running

vars == <<job, steps, plan, task, prepared, pending, call, error, up>>

PreflightPoints  == {"route", "inspect", "plan", "patch", "approval",
                     "autoPatch", "autoValidate", "saveRun"}
PostflightPoints == {"fail", "commitPatch", "commitValidate", "settle",
                     "acceptPatch", "acceptValidate", "verify", "complete",
                     "saveResult"}

\* Inputs of a preflight: planRef is present, mutationExpected,
\* approvalRequired, and what the autonomous coding loop reported.
Preflight == [planRef : BOOLEAN, mutates : BOOLEAN, approvalRequired : BOOLEAN,
              auto : {Null, "patched", "validated"}]

\* Inputs of a postflight; validated: deterministicValidation is "passed".
\* outcome folds continuationReason, waitingForUser,
\* terminalFailure and a failed host request; verdict folds the verifier's and
\* the boss's: "passed" is pass or approve, "open" is anything but pass,
\* approve and block.
Postflight == [mutated : BOOLEAN, validated : BOOLEAN,
               verdict : {"passed", "blocked", "open"},
               outcome : {"continue", "waiting", "deliver", "fail", "hostFailed"}]

Idle == [at |-> "idle"]

PreflightCalls  == [at : PreflightPoints, in : Preflight]
PostflightCalls == [at : PostflightPoints, in : Postflight]
Calls == {Idle} \cup PreflightCalls \cup PostflightCalls

TypeOK ==
    /\ job \in [status : JobStatus \cup {Null}, active : Kinds \cup {Null}]
    /\ steps \in [Kinds -> [status : StepStatus \cup {"absent"}, evidence : Evidence]]
    /\ plan \in SUBSET Kinds
    /\ task \in TaskStatus \cup {Null}
    /\ prepared \in BOOLEAN
    /\ pending \in 0..MaxPending
    /\ call \in Calls
    /\ error \in {Null, "predecessors", "validation", "verification", "deliver", "lease"}
    /\ up \in BOOLEAN

-----------------------------------------------------------------------------
(* Helpers *)

RequiredStepKinds(d) ==
    {"route", "deliver"}
    \cup (IF d.taskType \in {"repo_question", "coding_change", "debugging",
                             "security_or_secret", "deploy_or_destructive_action"}
          THEN {"inspect"} ELSE {})
    \cup (IF d.taskType # "simple_chat" THEN {"plan"} ELSE {})
    \cup (IF d.taskType \in {"coding_change", "deploy_or_destructive_action"}
          THEN {"patch"} ELSE {})
    \cup (IF d.taskType \in {"repo_question", "coding_change", "debugging",
                             "deploy_or_destructive_action", "eval_or_benchmark"}
          THEN {"validate"} ELSE {})
    \cup (IF d.verify THEN {"verify"} ELSE {})

\* A saved step that is not committed yet.
IsOpen(st, k) == st[k].status \notin {"done", "absent"}

\* Every saved predecessor of k is committed.
Ready(st, k) == \A j \in Kinds : Rank[j] < Rank[k] => ~IsOpen(st, j)

\* Faulty: the steps are read without ORDER BY ordinal.
LastOpen(st) ==
    IF \E k \in Kinds : IsOpen(st, k)
    THEN CHOOSE k \in Kinds : IsOpen(st, k) /\ \A j \in Kinds : IsOpen(st, j) => Rank[j] <= Rank[k]
    ELSE Null

\* nextIncompleteStep: the open step with no open predecessor.
FirstOpen(st) ==
    IF \E k \in Kinds : IsOpen(st, k) /\ Ready(st, k)
    THEN CHOOSE k \in Kinds : IsOpen(st, k) /\ Ready(st, k)
    ELSE Null

AllDone(st) == \A k \in Kinds : ~IsOpen(st, k)

SetStep(st, k, s, ev) == [st EXCEPT ![k] = [status |-> s, evidence |-> ev]]

\* Faulty: the job takes the status of its step.
StepStatusAfter(s, st) == s

\* The job status transitionCommandStep derives from a step's new status.
StatusAfter(s, st) ==
    CASE s = "failed"        -> "failed"
      [] s = "blocked"       -> "waiting_for_approval"
      [] s = "retry_pending" -> "retry_pending"
      [] s \notin {"failed", "blocked", "retry_pending"} /\ AllDone(st) -> "completed"
      [] OTHER -> IF job.status \in {"waiting_for_approval", "paused_for_compaction"}
                  THEN job.status ELSE "running"

\* The process exits: whatever the call had not written is lost.
Exit == up' = FALSE /\ call' = Idle /\ prepared' = FALSE

Goto(p) == call' = [call EXCEPT !.at = p] /\ UNCHANGED <<up, prepared>>

\* An exception leaves the call; what it wrote before stays.
Throw(e) == /\ error' = e
            /\ call' = Idle
            /\ UNCHANGED <<job, steps, plan, task, prepared, pending, up>>

\* A point whose step needs no transition.
Skip(p) == Goto(p) /\ UNCHANGED <<job, steps, plan, task, pending, error>>

\* Write the step, then the job.
WriteStep(k, s, ev, p) ==
    /\ steps' = SetStep(steps, k, s, ev)
    /\ \/ /\ job' = [status |-> StatusAfter(s, steps'), active |-> FirstOpen(steps')]
          /\ Goto(p)
       \/ Exit /\ UNCHANGED job
    /\ UNCHANGED <<plan, task, pending, error>>

\* transitionCommandStep; without its predecessor rule it would be WriteStep.
TransitionCommandStep(k, s, ev, p) ==
    IF s \in {"running", "done"} /\ ~Ready(steps, k)
    THEN Throw("predecessors")
    ELSE WriteStep(k, s, ev, p)

-----------------------------------------------------------------------------
(* The cognitive task the job is attached to *)

\* prepareCognitiveTask of a continuation, or of an answer to a blocked task,
\* reuses the task; the job is reached only after further awaits.
PrepareCognitiveTask ==
    /\ up /\ call = Idle /\ task \in {"active", "waiting_for_user"}
    /\ task' \in {task, "active"}
    /\ prepared' = TRUE
    /\ UNCHANGED <<job, steps, plan, pending, call, error, up>>

\* prepareCognitiveTask in another turn of the session, or the continuation
\* janitor, cancels the active task; the job is not touched.
SupersedeCognitiveTask ==
    /\ up /\ call = Idle /\ task = "active"
    /\ task' = "cancelled"
    /\ UNCHANGED <<job, steps, plan, prepared, pending, call, error, up>>

-----------------------------------------------------------------------------
(* Preflight: ensureCommandJob, synchronizeCommandJobPreflight, and the     *)
(* transitions of the autonomous coding loop, one synchronous block         *)

\* Begin the walk of a call that holds the job.
Enter(p, in) == call' = [at |-> p, in |-> in] /\ prepared' = FALSE /\ up' = up

\* The steps a creation has written when the first n kinds are saved.
Created(kinds, n) ==
    [k \in Kinds |->
        IF k \in kinds /\ Rank[k] < n
        THEN [status |-> IF k = "route" THEN "running" ELSE "queued", evidence |-> "none"]
        ELSE [status |-> "absent", evidence |-> "none"]]

CreateCommandJob(d, in) ==
    /\ job.status = Null
    /\ job' = [status |-> IF d.requiresApproval THEN "waiting_for_approval" ELSE "running",
               active |-> "route"]
    /\ plan' = RequiredStepKinds(d)
    /\ \/ /\ steps' = Created(plan', 7)
          /\ Enter("route", in)
       \/ \E n \in 0..6 : steps' = Created(plan', n) /\ Exit

\* resumeCommandJob of an existing job: write the step, then the job.
ResumeCommandJob(in) ==
    LET k == FirstOpen(steps)
    IN  /\ job.status \in Resumable
        /\ steps' = IF k # Null /\ steps[k].status = "retry_pending"
                    THEN [steps EXCEPT ![k].status = "running"] ELSE steps
        /\ \/ job' = [status |-> "running", active |-> k] /\ Enter("route", in)
           \/ Exit /\ UNCHANGED job
        /\ UNCHANGED plan

ReuseCommandJob(in) ==
    /\ job.status \in JobStatus \ Resumable
    /\ Enter("route", in)
    /\ UNCHANGED <<job, steps, plan>>

\* The task of the job after ensureCommandJob: the prepared one, when the job
\* was found by its task, or the fresh one of a new or a repeated turn, which
\* another turn or an abort may have cancelled since it was prepared.
AttachCognitiveTask ==
    \/ job.status # Null /\ prepared /\ UNCHANGED task
    \/ task' \in {"active", "waiting_for_user", "cancelled"}

\* A new job comes from decision d; an existing one keeps its steps whatever
\* the new decision is.
EnsureCommandJob(d, in) ==
    /\ up /\ call = Idle /\ pending < MaxPending
    /\ in.approvalRequired => d.requiresApproval
    /\ in.planRef \/ d.taskType = "simple_chat"
    /\ in.auto # Null => ~in.approvalRequired /\ d.taskType \in {"coding_change", "debugging"}
    /\ in.mutates => d.taskType \in {"coding_change", "deploy_or_destructive_action"}
    /\ AttachCognitiveTask
    /\ CreateCommandJob(d, in) \/ ResumeCommandJob(in) \/ ReuseCommandJob(in)
    /\ error' = Null
    /\ UNCHANGED pending

\* complete() of the preflight: commit the step unless a predecessor is open.
PreflightCommit(k, next) ==
    /\ call.at = k /\ up
    /\ IF IsOpen(steps, k) /\ Ready(steps, k) /\ (k = "plan" => call.in.planRef)
       THEN TransitionCommandStep(k, "done", "preflight", next)
       ELSE Skip(next)

PreflightRoute   == PreflightCommit("route", "inspect")
PreflightInspect == PreflightCommit("inspect", "plan")
PreflightPlan    == PreflightCommit("plan", "patch")

\* The patch step starts when its predecessors are committed and no approval
\* is outstanding.
PreflightPatch ==
    /\ call.at = "patch" /\ up
    /\ IF /\ steps["patch"].status = "queued"
          /\ call.in.mutates /\ ~call.in.approvalRequired
          /\ Ready(steps, "patch")
       THEN TransitionCommandStep("patch", "running", "none", "approval")
       ELSE Skip("approval")

PreflightApproval ==
    /\ call.at = "approval" /\ up
    /\ job' = IF call.in.approvalRequired
              THEN [job EXCEPT !.status = "waiting_for_approval"] ELSE job
    /\ Goto("autoPatch")
    /\ UNCHANGED <<steps, plan, task, pending, error>>

\* An autonomous coding loop that patched, or validated, commits its steps.
PreflightAutonomousPatch ==
    /\ call.at = "autoPatch" /\ up
    /\ IF call.in.auto # Null /\ IsOpen(steps, "patch")
       THEN TransitionCommandStep("patch", "done", "autonomous", "autoValidate")
       ELSE Skip("autoValidate")

PreflightAutonomousValidate ==
    /\ call.at = "autoValidate" /\ up
    /\ IF call.in.auto = "validated" /\ IsOpen(steps, "validate")
       THEN TransitionCommandStep("validate", "done", "autonomous", "saveRun")
       ELSE Skip("saveRun")

\* The preflight's last write makes the run acceptable to a postflight.
PreflightSaveRun ==
    /\ call.at = "saveRun" /\ up
    /\ pending' = pending + 1
    /\ call' = Idle
    /\ UNCHANGED <<job, steps, plan, task, prepared, error, up>>

-----------------------------------------------------------------------------
(* Postflight: the gateway settles the cognitive task, then                 *)
(* synchronizeCommandJobPostflight settles the job                          *)

Fails(in) == in.outcome \in {"fail", "hostFailed"} \/ in.verdict = "blocked"

\* A delivered or user-blocked turn has no unvalidated mutation, and a
\* continuation is leased only while the task is active.  A failing turn reads
\* none of its other inputs: one representative stands for them.
BeginPostflight(in) ==
    /\ up /\ call = Idle /\ pending > 0
    /\ in.outcome \in {"waiting", "deliver"} => (in.mutated => in.validated)
    /\ in.outcome = "continue" => task = "active"
    /\ Fails(in) => ~in.mutated /\ ~in.validated /\ in.verdict = "blocked"
    /\ task' = CASE Fails(in) -> "failed"
                 [] ~Fails(in) /\ in.outcome = "deliver" -> "completed"
                 [] ~Fails(in) /\ in.outcome = "waiting" -> "waiting_for_user"
                 [] OTHER -> task
    /\ call' = [at |-> IF Fails(in) THEN "fail" ELSE "commitPatch", in |-> in]
    /\ error' = Null
    /\ UNCHANGED <<job, steps, plan, prepared, pending, up>>

\* A blocked turn with an unvalidated mutation parks the task before it fails
\* to lease the continuation it schedules for it.
PostflightUnleased ==
    /\ up /\ call = Idle /\ pending > 0 /\ task = "active"
    /\ task' = "waiting_for_user"
    /\ error' = "lease"
    /\ UNCHANGED <<job, steps, plan, prepared, pending, call, up>>

\* failCommandJob: write the active step, then the job.  A failed host request
\* leaves the run acceptable to another postflight.
FailCommandJob ==
    /\ call.at = "fail" /\ up
    /\ steps' = IF job.active # Null /\ IsOpen(steps, job.active)
                THEN [steps EXCEPT ![job.active].status = "failed"] ELSE steps
    /\ \/ /\ job' = [job EXCEPT !.status = "failed"]
          /\ IF call.in.outcome = "hostFailed"
             THEN call' = Idle /\ UNCHANGED <<prepared, up>> ELSE Goto("saveResult")
       \/ Exit /\ UNCHANGED job
    /\ UNCHANGED <<plan, task, pending, error>>

PostflightCommitPatch ==
    /\ call.at = "commitPatch" /\ up
    /\ IF IsOpen(steps, "patch") /\ call.in.mutated
       THEN TransitionCommandStep("patch", "done", "mutation", "commitValidate")
       ELSE Skip("commitValidate")

PostflightCommitValidate ==
    /\ call.at = "commitValidate" /\ up
    /\ IF IsOpen(steps, "validate") /\ call.in.validated
       THEN TransitionCommandStep("validate", "done", "validated", "settle")
       ELSE Skip("settle")

\* Faulty: the job is parked without its active step.
ParkJobOnly(s, status) ==
    /\ job' = [job EXCEPT !.status = status] /\ Goto("saveResult")
    /\ UNCHANGED <<steps, plan, task, pending, error>>

\* The active step is put back (continuation) or blocked (user), then the job.
PostflightPark(s, status) ==
    /\ steps' = IF job.active # Null /\ IsOpen(steps, job.active)
                THEN [steps EXCEPT ![job.active].status = s] ELSE steps
    /\ \/ job' = [job EXCEPT !.status = status] /\ Goto("saveResult")
       \/ Exit /\ UNCHANGED job
    /\ UNCHANGED <<plan, task, pending, error>>

PostflightContinue ==
    /\ call.at = "settle" /\ up /\ call.in.outcome = "continue"
    /\ PostflightPark("retry_pending", "retry_pending")

PostflightWait ==
    /\ call.at = "settle" /\ up /\ call.in.outcome = "waiting"
    /\ PostflightPark("blocked", "waiting_for_approval")

PostflightDeliver ==
    /\ call.at = "settle" /\ up /\ call.in.outcome = "deliver"
    /\ Skip("acceptPatch")

PostflightAcceptPatch ==
    /\ call.at = "acceptPatch" /\ up
    /\ IF IsOpen(steps, "patch")
       THEN TransitionCommandStep("patch", "done",
                IF call.in.mutated THEN "mutation" ELSE "noop", "acceptValidate")
       ELSE Skip("acceptValidate")

PostflightAcceptValidate ==
    /\ call.at = "acceptValidate" /\ up
    /\ IF IsOpen(steps, "validate")
       THEN IF call.in.mutated
            THEN Throw("validation")
            ELSE TransitionCommandStep("validate", "done", "skipped", "verify")
       ELSE Skip("verify")

\* What a verification commit stands on.
VerifyEvidence(in) == CASE in.verdict = "passed" -> "model"
                        [] in.verdict = "open" /\ in.validated -> "substitute"
                        [] OTHER -> "none"

PostflightVerify ==
    /\ call.at = "verify" /\ up
    /\ IF IsOpen(steps, "verify")
       THEN IF VerifyEvidence(call.in) = "none"
            THEN Throw("verification")
            ELSE TransitionCommandStep("verify", "done", VerifyEvidence(call.in), "complete")
       ELSE Skip("complete")

\* completeCommandJob: commit the deliver step and close the job.
CompleteCommandJob ==
    /\ call.at = "complete" /\ up
    /\ IF \/ steps["deliver"].status = "absent"
          \/ \E k \in Kinds \ {"deliver"} : IsOpen(steps, k)
       THEN Throw("deliver")
       ELSE /\ steps' = IF IsOpen(steps, "deliver")
                        THEN SetStep(steps, "deliver", "done", "delivered") ELSE steps
            /\ \/ job' = [status |-> "completed", active |-> Null] /\ Goto("saveResult")
               \/ Exit /\ UNCHANGED job
            /\ UNCHANGED <<plan, task, pending, error>>

\* The postflight's last write: the run no longer accepts a postflight.
PostflightSaveResult ==
    /\ call.at = "saveResult" /\ up
    /\ pending' = pending - 1
    /\ call' = Idle
    /\ UNCHANGED <<job, steps, plan, task, prepared, error, up>>

-----------------------------------------------------------------------------
(* Calls from the other endpoints *)

\* pauseCommandJob at a compression boundary (continuity-service.ts): only an
\* open job that is not waiting for approval.
PauseCommandJob ==
    /\ up /\ call = Idle
    /\ job.status \in OpenJob \ {"waiting_for_approval"}
    /\ steps' = IF job.active # Null /\ steps[job.active].status = "running"
                THEN [steps EXCEPT ![job.active].status = "retry_pending"] ELSE steps
    /\ \/ job' = [job EXCEPT !.status = "paused_for_compaction"] /\ UNCHANGED <<call, prepared, up>>
       \/ Exit /\ UNCHANGED job
    /\ UNCHANGED <<plan, task, pending, error>>

\* Faulty: only running steps are cancelled.
BlockedRunning(st, n) ==
    [k \in Kinds |-> IF st[k].status = "running" /\ Rank[k] < n
                     THEN [st[k] EXCEPT !.status = "blocked"] ELSE st[k]]

\* Faulty: committed steps are cancelled too.
BlockedAll(st, n) ==
    [k \in Kinds |-> IF st[k].status # "absent" /\ Rank[k] < n
                     THEN [st[k] EXCEPT !.status = "blocked"] ELSE st[k]]

\* The steps cancelCommandJob has written when those before rank n are saved.
Blocked(st, n) ==
    [k \in Kinds |-> IF IsOpen(st, k) /\ Rank[k] < n
                     THEN [st[k] EXCEPT !.status = "blocked"] ELSE st[k]]

\* Gateway abort: the task is cancelled, then cancelCommandJob blocks every
\* open step and closes the job, whatever the job's status is.
CancelCommandJob ==
    /\ up /\ call = Idle /\ job.status # Null
    /\ task' = "cancelled"
    /\ \/ /\ steps' = Blocked(steps, 7)
          /\ job' = [status |-> "cancelled", active |-> Null]
          /\ UNCHANGED <<call, prepared, up>>
       \/ \E n \in 0..7 : steps' = Blocked(steps, n) /\ Exit /\ UNCHANGED job
    /\ UNCHANGED <<plan, pending, error>>

-----------------------------------------------------------------------------
(* Process exit and start-up recovery *)

ProcessExit ==
    /\ up /\ Exit
    /\ UNCHANGED <<job, steps, plan, task, pending, error>>

\* The step recovery takes for the active one: the stored one when its row
\* exists, committed or not.
RecoveredActive ==
    IF job.active # Null /\ steps[job.active].status # "absent"
    THEN job.active ELSE FirstOpen(steps)

\* Faulty: recovery settles the running step alone.
SettleRunning(s, ev) ==
    [k \in Kinds |-> IF steps[k].status = "running"
                     THEN [status |-> s, evidence |-> ev] ELSE steps[k]]

\* Recovery settles every step that is not committed.
SettleSteps(s, ev) ==
    [k \in Kinds |-> IF IsOpen(steps, k) THEN [status |-> s, evidence |-> ev] ELSE steps[k]]

ParkRecovered(s, status) ==
    LET k == RecoveredActive
    IN  /\ steps' = IF k # Null /\ IsOpen(steps, k)
                    THEN [steps EXCEPT ![k].status = s] ELSE steps
        /\ job' = [status |-> status, active |-> k]

SettleRecovered(s, ev, status) ==
    /\ steps' = SettleSteps(s, ev)
    /\ job' = [status |-> status, active |-> Null]

\* reconcileCommandJobsAfterRestart: an open job follows its task.
ReconcileCommandJob ==
    \/ job.status \notin OpenJob /\ UNCHANGED <<job, steps>>
    \/ /\ job.status \in OpenJob
       /\ \/ task \in {Null, "failed"} /\ SettleRecovered("failed", "none", "failed")
          \/ task = "cancelled" /\ SettleRecovered("failed", "none", "cancelled")
          \/ task = "completed" /\ SettleRecovered("done", "recovered", "completed")
          \/ task = "waiting_for_user" /\ ParkRecovered("blocked", "waiting_for_approval")
          \/ task = "active" /\ ParkRecovered("retry_pending", "retry_pending")

Restart ==
    /\ ~up /\ up' = TRUE
    /\ ReconcileCommandJob
    /\ error' = Null
    /\ UNCHANGED <<plan, task, prepared, pending, call>>

-----------------------------------------------------------------------------
Init ==
    /\ job = [status |-> Null, active |-> Null]
    /\ steps = [k \in Kinds |-> [status |-> "absent", evidence |-> "none"]]
    /\ plan = {}
    /\ task = Null
    /\ prepared = FALSE
    /\ pending = 0
    /\ call = Idle
    /\ error = Null
    /\ up = TRUE

PreflightStep ==
    \/ PreflightRoute \/ PreflightInspect \/ PreflightPlan \/ PreflightPatch
    \/ PreflightApproval
    \/ PreflightAutonomousPatch \/ PreflightAutonomousValidate
    \/ PreflightSaveRun

PostflightStep ==
    \/ FailCommandJob
    \/ PostflightCommitPatch \/ PostflightCommitValidate
    \/ PostflightContinue \/ PostflightWait \/ PostflightDeliver
    \/ PostflightAcceptPatch \/ PostflightAcceptValidate \/ PostflightVerify
    \/ CompleteCommandJob
    \/ PostflightSaveResult

Next ==
    \/ PrepareCognitiveTask
    \/ SupersedeCognitiveTask
    \/ \E d \in Decisions, in \in Preflight : EnsureCommandJob(d, in)
    \/ PreflightStep
    \/ \E in \in Postflight : BeginPostflight(in)
    \/ PostflightUnleased
    \/ PostflightStep
    \/ PauseCommandJob
    \/ CancelCommandJob
    \/ ProcessExit
    \/ Restart

Spec == Init /\ [][Next]_vars

-----------------------------------------------------------------------------
(* Properties *)

\* transitionCommandStep's predecessor rule survives every path that writes a
\* step without it (resume, pause, cancel, failure, recovery): a step that runs
\* or is committed has no open predecessor, so at most one step runs.
Ordered(st) == \A k \in Kinds : st[k].status \in {"running", "done"} => Ready(st, k)
StepOrder == Ordered(steps)

\* A job is completed only on committed steps, whichever path completed it: the
\* last commit, completeCommandJob, or the recovery of a completed task.
CompletedAllCommitted == job.status = "completed" => AllDone(steps)

\* activeStepId never points past an open step: what resumes or fails the
\* active step cannot jump over work that was not committed.
ActiveNeverSkips == job.active # Null => Ready(steps, job.active)

\* No step of a cancelled job waits to run, although a late postflight, a
\* repeated turn and a half-finished cancellation can all touch its rows.
CancelledQuiesced ==
    job.status = "cancelled" =>
        \A k \in Kinds : steps[k].status \notin {"queued", "running", "retry_pending"}

\* A parked job whose active step is still open runs no step: the preflight
\* that resumes it restarts that step and no other one is under way.  (A crash
\* between the two writes of transitionCommandStep leaves a committed step as the
\* active one; recovery then parks the job on it and requeues no step.)
ParkedQuiesced ==
    (/\ up /\ call = Idle /\ job.status \in {"paused_for_compaction", "retry_pending"}
     /\ job.active # Null /\ IsOpen(steps, job.active))
        => \A k \in Kinds : steps[k].status # "running"

\* A committed step is never reopened, by no retry, cancellation or recovery.
DoneIsForever ==
    [][\A k \in Kinds : steps[k].status = "done" => steps'[k].status = "done"]_vars

-----------------------------------------------------------------------------
(* What the rollout document and the tests say, and the code does not do *)

\* "Every root cognitive task receives one durable CommandJob with ordered
\* backend steps": a completed job committed every step it was planned with.
\* ensureCommandJob writes the job and its steps one by one, so that a crash
\* leaves a job with a prefix of them, which the next preflight completes.
CompletedCoversPlan ==
    job.status = "completed" => \A k \in plan : steps[k].status = "done"

\* "evidence-gated completion": a verification step is committed on a verdict
\* or on deterministic validation.  The gateway completes the task before it
\* settles the job: when the verification gate then throws, recovery finds a
\* completed task and commits the step without any verdict.
VerifiedOnEvidence ==
    steps["verify"].status = "done" =>
        steps["verify"].evidence \in {"model", "substitute"}

\* "misclassified coding job with no workspace mutation does not throw an
\* internal validation error": a delivered turn without mutation settles its
\* job.  When validation passed, validate is committed before the untouched
\* patch step is accepted, and the predecessor rule throws.
NoInternalError == error \notin {"predecessors", "validation"}
=============================================================================
