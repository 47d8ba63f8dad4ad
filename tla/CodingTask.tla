----------------------------- MODULE CodingTask -----------------------------
(***************************************************************************)
(* The durable coding task of a session (codex-execution-core), worked on  *)
(* by the turns of the session: the preflight prepares it and takes a      *)
(* checkpoint of the files, the autonomous loop patches and validates them *)
(* or the Host edits them, and the postflight records what changed.  The   *)
(* abort endpoint, the reconciliation of runs, the start of the Runtime    *)
(* and the result of a remote validation come at any await of these.       *)
(*                                                                         *)
(* The code between two awaits is one step.  The patches of a candidate    *)
(* are steps of their own, for the process may exit between two of them.   *)
(***************************************************************************)
EXTENDS Naturals

CONSTANTS
    Files,         \* files of the workspace
    Runs,          \* gateway run ids, one for each turn
    Posts,         \* postflight requests under way at the same time
    MaxRevisions,  \* revisions the autonomous loop may ask for
    MaxEdits       \* bound: writes ever made to the workspace

ASSUME RunsAssumption == "none" \notin Runs
ASSUME BoundsAssumption == MaxRevisions \in Nat /\ MaxEdits \in Nat

Null == "none"
Content == 0..MaxEdits    \* each write leaves a content of its own

VARIABLES
    task,    \* the row of coding_tasks
    disk,    \* content of each file
    edits,   \* writes so far
    proved,  \* history: a validation passed on the content the disk has now
    run,     \* [status, stored, outcome] of each run
    turn,    \* the preflight under way and its autonomous loop
    post,    \* the postflights under way
    remote   \* the content of the remote validation under way, if any

vars == <<task, disk, edits, proved, run, turn, post, remote>>

-----------------------------------------------------------------------------
(* Types *)

Phases == {"inspect", "patch", "targeted_validation", "analyze_failure", "revise",
           "full_validation", "summarize"}

PhaseTransitions == [
    inspect |-> {"patch", "targeted_validation", "summarize"},
    patch |-> {"targeted_validation"},
    targeted_validation |-> {"analyze_failure", "full_validation", "summarize"},
    analyze_failure |-> {"revise"},
    revise |-> {"targeted_validation"},
    full_validation |-> {"analyze_failure", "summarize"},
    summarize |-> {}]

Statuses == {"absent", "active", "blocked", "completed", "cancelled"}

\* base: content of the files in the snapshot; saved: the task names its
\* checkpoint.  (The phases understand and plan are passed in
\* the step that creates the task.)
Task == [status : Statuses, phase : Phases, run : Runs \cup {Null}, changed : SUBSET Files,
         saved : BOOLEAN, base : UNION {[S -> Content] : S \in SUBSET Files}]

\* Outcomes of the autonomous loop; Null when there was none.
Outcomes == {Null, "completed", "remote_required", "no_change", "blocked",
             "validation_failed", "failed"}

\* unsaved: the preflight has not saved the run; over: abandoned, failed or
\* blocked; stored: a stored preflight accepts a postflight; outcome: its loop's.
Run == [status : {"none", "unsaved", "running", "done", "over"}, stored : BOOLEAN,
        outcome : Outcomes]

\* Where a preflight awaits: the repository index, the git diff of the
\* checkpoint, its other calls, the models, patches and commands of the loop;
\* then the Host has the turn.
LoopPoints == {"plan", "candidate", "apply", "record", "targeted", "full"}
Points == {"none", "index", "checkpoint", "planned", "host"} \cup LoopPoints

\* What recordCodexPatch read before its await.
Seen == [status : Statuses, changed : SUBSET Files]

\* todo, patched: files of the candidate still to patch, and patched; hand: the
\* files the loop has written since its start;
\* known: the loop's own copy of the task has a changed file on record.
Turn == [at : Points, run : Runs \cup {Null}, attempt : 0..MaxRevisions,
         todo : SUBSET Files, patched : SUBSET Files, seen : Seen, known : BOOLEAN,
         hand : SUBSET Files]

Post == [at : {"idle", "record", "settle"}, run : Runs \cup {Null}, files : SUBSET Files,
         seen : Seen, validated : BOOLEAN]

Unseen == [status |-> "absent", changed |-> {}]

NoTurn == [at |-> "none", run |-> Null, attempt |-> 0, todo |-> {}, patched |-> {},
           seen |-> Unseen, known |-> FALSE, hand |-> {}]

Idle == [at |-> "idle", run |-> Null, files |-> {}, seen |-> Unseen, validated |-> FALSE]

TypeOK ==
    /\ task \in Task
    /\ disk \in [Files -> Content]
    /\ edits \in 0..MaxEdits
    /\ proved \in BOOLEAN
    /\ run \in [Runs -> Run]
    /\ turn \in Turn
    /\ post \in [Posts -> Post]
    /\ remote \subseteq [Files -> Content]

-----------------------------------------------------------------------------
(* Helpers *)

\* Faulty: only a cancelled task is left alone.
CanEnterBlocked(t, phase) ==
    t.status # "cancelled" /\ (phase = t.phase \/ phase \in PhaseTransitions[t.phase])

\* transitionCodingTask, without a status of its own.
CanEnter(t, phase) ==
    t.status = "active" /\ (phase = t.phase \/ phase \in PhaseTransitions[t.phase])

OnRecord(t) == t.changed # {}

InSnapshot == DOMAIN task.base

Write(d) == disk' = d /\ proved' = (proved /\ d = disk)

\* A write to f, which leaves a content the disk never had.
Edit(f) ==
    /\ edits < MaxEdits
    /\ edits' = edits + 1
    /\ Write([disk EXCEPT ![f] = edits + 1])

\* cancelCodingTasksForRun.
CancelOf(t, r) ==
    IF t.status = "active" /\ t.run = r THEN [t EXCEPT !.status = "cancelled"] ELSE t

\* reconcileInactiveCodingTasks.  Its exceptions for a task with an open
\* CommandJob or a live continuation compare ids that are never equal.
Inactive(t, rs) == t.status = "active" /\ rs[t.run].status \in {"none", "unsaved", "over"}

Reconciled(t, rs) == IF Inactive(t, rs) THEN [t EXCEPT !.status = "cancelled"] ELSE t

\* The runs after those in rs were abandoned.
Abandoned(rs) == [r \in Runs |-> IF r \in rs /\ run[r].status = "running"
                                  THEN [run[r] EXCEPT !.status = "over"] ELSE run[r]]

Running(r) == [run EXCEPT ![r].status = "running"]

-----------------------------------------------------------------------------
(* Preflight *)

\* The task of the session is looked up; then expired runs, of any session, are
\* reconciled, which may cancel the task that was found.
BeginTurn(r, expired, sweep) ==
    /\ turn.at \in {"none", "host"} /\ run[r].status = "none"
    /\ task.status \in {"absent", "active"}
    /\ expired # {} => sweep
    /\ run' = [Abandoned(expired) EXCEPT ![r].status = "unsaved"]
    /\ task' = IF sweep THEN Reconciled(task, run') ELSE task
    /\ turn' = [NoTurn EXCEPT !.at = "index", !.run = r]
    /\ UNCHANGED <<disk, edits, proved, post, remote>>

\* Faulty: the task stays with the run of the turn that created it.
BoundOnce == IF task.status = "absent" THEN [task EXCEPT !.status = "active", !.run = turn.run]
             ELSE task

\* prepareCodexExecution creates the task, or binds it to the run.
Bound == [task EXCEPT !.status = IF @ = "absent" THEN "active" ELSE @, !.run = turn.run]

\* A task with a checkpoint keeps it, and the preflight saves its run.
ReuseCheckpoint ==
    /\ turn.at = "index" /\ task.saved
    /\ task' = Bound
    /\ run' = Running(turn.run)
    /\ turn' = [turn EXCEPT !.at = "planned", !.known = OnRecord(task)]
    /\ UNCHANGED <<disk, edits, proved, post, remote>>

\* Faulty: a checkpoint in every turn.
TakeSnapshotAgain(snap) ==
    /\ turn.at = "index"
    /\ task' = [Bound EXCEPT !.base = [f \in snap |-> disk[f]]]
    /\ turn' = [turn EXCEPT !.at = "checkpoint"]
    /\ UNCHANGED <<disk, edits, proved, run, post, remote>>

\* createCodingCheckpoint reads the files and awaits git diff.
TakeSnapshot(snap) ==
    /\ turn.at = "index" /\ ~task.saved
    /\ task' = [Bound EXCEPT !.base = [f \in snap |-> disk[f]]]
    /\ turn' = [turn EXCEPT !.at = "checkpoint"]
    /\ UNCHANGED <<disk, edits, proved, run, post, remote>>

SaveCheckpoint ==
    /\ turn.at = "checkpoint"
    /\ task' = [task EXCEPT !.saved = TRUE]
    /\ run' = Running(turn.run)
    /\ turn' = [turn EXCEPT !.at = "planned", !.known = OnRecord(task)]
    /\ UNCHANGED <<disk, edits, proved, post, remote>>

\* The index or the checkpoint fails, or a later part of the preflight.
PreflightFails ==
    /\ turn.at \in {"index", "checkpoint", "planned"}
    /\ turn' = NoTurn
    /\ UNCHANGED <<task, disk, edits, proved, run, post, remote>>

\* The preflight ends: its run is saved once more, as running.
HandOver(outcome) ==
    /\ turn' = [NoTurn EXCEPT !.at = "host", !.run = turn.run]
    /\ run' = [run EXCEPT ![turn.run] = [status |-> "running", stored |-> TRUE,
                                         outcome |-> outcome]]

SkipLoop ==
    /\ turn.at = "planned"
    /\ HandOver(Null)
    /\ UNCHANGED <<task, disk, edits, proved, post, remote>>

-----------------------------------------------------------------------------
(* recordCodexPatch *)

\* Before its await: a status is looked at only in inspect.
Recordable ==
    /\ task.phase \in {"inspect", "patch", "revise"}
    /\ task.phase = "inspect" => task.status = "active"

Recording == [task EXCEPT !.phase = IF @ = "inspect" THEN "patch" ELSE @]

Look == [status |-> task.status, changed |-> task.changed]

Violations == {"unrelated_file", "deleted_test", "disabled_check",
               "unjustified_dependency_change", "public_api_change", "oversized_patch"}

\* What the diff of the whole workspace and the recorded files are found to be.
EvaluateMinimalPatchPolicy(violations) ==
    CASE violations \cap {"unrelated_file", "deleted_test", "disabled_check"} # {} -> "block"
      [] violations = {} -> "pass"
      [] OTHER -> "review"

Blocks(violations) == EvaluateMinimalPatchPolicy(violations) = "block"

\* The worst violation decides: one at a time is enough.
Found(codes) == {{}} \cup {{v} : v \in codes}

\* After it: the status and the files are those seen before, and the new ones.
Recorded(seen, files, violations) ==
    [task EXCEPT !.changed = seen.changed \cup files,
                 !.status = IF Blocks(violations) THEN "blocked" ELSE seen.status]

-----------------------------------------------------------------------------
(* The autonomous loop, with the mutation approved *)

StartLoop ==
    /\ turn.at = "planned"
    /\ turn' = [turn EXCEPT !.at = "plan"]
    /\ UNCHANGED <<task, disk, edits, proved, run, post, remote>>

\* rollbackCodingCheckpoint: the files of the snapshot, whoever wrote them.
RolledBack(t) == [t EXCEPT !.changed = @ \ InSnapshot]

RestoredOf(done) == [f \in Files |-> IF f \in done THEN task.base[f] ELSE disk[f]]

Restored == RestoredOf(InSnapshot)

EndRestored(t, outcome) ==
    /\ task' = RolledBack(t)
    /\ Write(Restored)
    /\ HandOver(outcome)
    /\ UNCHANGED <<edits, post, remote>>

EndKept(t, outcome) ==
    /\ task' = t
    /\ HandOver(outcome)
    /\ UNCHANGED <<disk, edits, post, remote>>

\* Faulty: the record is updated before the files are restored.
EndStuckRecordFirst(t) ==
    /\ \E done \in SUBSET InSnapshot : Write(RestoredOf(done))
    /\ task' = RolledBack(t)
    /\ HandOver("failed")
    /\ UNCHANGED <<edits, post, remote>>

\* The rollback throws at one of the files, the snapshot or the record (an empty
\* file of the snapshot counts as missing): what was restored stays restored, and
\* the record stays as it was.
EndStuck(t) ==
    /\ \E done \in SUBSET InSnapshot : Write(RestoredOf(done))
    /\ task' = t
    /\ HandOver("failed")
    /\ UNCHANGED <<edits, post, remote>>

\* The catch of the loop: roll back only if its copy has a changed file.
LoopFails(t, known) ==
    \/ known /\ (EndRestored(t, "failed") \/ EndStuck(t))
    \/ ~known /\ EndKept(t, "failed") /\ UNCHANGED proved

\* A rollback inside the loop; when it throws, the catch may try once more.
RollBack(t, outcome, known) ==
    \/ EndRestored(t, outcome)
    \/ known /\ EndRestored(t, "failed")
    \/ EndStuck(t)

\* The call the loop awaits throws: a model, the inspection, the git diff, the
\* repository index or a command of a validation.
WorkerFails == turn.at \in LoopPoints \ {"apply"} /\ LoopFails(task, turn.known)

PlanPatch ==
    /\ turn.at = "plan"
    /\ turn' = [turn EXCEPT !.at = "candidate", !.known = OnRecord(task)]
    /\ UNCHANGED <<task, disk, edits, proved, run, post, remote>>

\* The Worker's candidate: the files to patch, or none.
ReceiveCandidate(files) ==
    /\ turn.at = "candidate" /\ files # {}
    /\ turn' = [turn EXCEPT !.at = "apply", !.todo = files, !.patched = {},
                             !.known = OnRecord(task)]
    /\ UNCHANGED <<task, disk, edits, proved, run, post, remote>>

ReceiveNothing ==
    /\ turn.at = "candidate"
    /\ \/ task.changed # {} /\ RollBack(task, "no_change", TRUE)
       \/ task.changed = {} /\ EndKept(task, "no_change") /\ UNCHANGED proved

\* repo.patch of one file, which may leave it as it was.
ApplyPatch(f) ==
    /\ turn.at = "apply" /\ f \in turn.todo
    /\ \/ /\ Edit(f)
          /\ turn' = [turn EXCEPT !.todo = @ \ {f}, !.patched = @ \cup {f}, !.hand = @ \cup {f}]
       \/ /\ turn' = [turn EXCEPT !.todo = @ \ {f}]
          /\ UNCHANGED <<disk, edits, proved>>
    /\ UNCHANGED <<task, run, post, remote>>

\* repo.patch refuses a file: another hash, a text that is not there or is not
\* unique, a file that is not allowed.
RefusePatch == turn.at = "apply" /\ turn.todo # {} /\ LoopFails(task, turn.known)

RecordCandidate ==
    /\ turn.at = "apply" /\ turn.todo = {} /\ turn.patched # {}
    /\ \/ /\ Recordable
          /\ task' = Recording
          /\ turn' = [turn EXCEPT !.at = "record", !.seen = Look]
          /\ UNCHANGED <<disk, edits, proved, run, post, remote>>
       \/ ~Recordable /\ LoopFails(task, turn.known)

\* runCodexValidationStage up to its first await, or what it throws.
Validatable(t) ==
    t.status = "active" /\ t.phase \in {"inspect", "patch", "revise", "targeted_validation"}

StartTargeted(t) ==
    \/ /\ Validatable(t)
       /\ task' = [t EXCEPT !.phase = "targeted_validation"]
       /\ turn' = [turn EXCEPT !.at = "targeted", !.patched = {}, !.seen = Unseen,
                               !.known = OnRecord(t)]
       /\ UNCHANGED <<disk, edits, proved, run, post, remote>>
    \/ ~Validatable(t) /\ LoopFails(t, OnRecord(t))

\* A candidate that changed nothing is validated like one that did.
ValidateUnchanged ==
    /\ turn.at = "apply" /\ turn.todo = {} /\ turn.patched = {}
    /\ StartTargeted(task)

EvaluatePolicy(violations) ==
    LET t == Recorded(turn.seen, turn.patched, violations)
    IN  /\ turn.at = "record"
        /\ \/ Blocks(violations) /\ RollBack(t, "blocked", turn.known)
           \/ ~Blocks(violations) /\ StartTargeted(t)

Revise(attempt) ==
    /\ CanEnter(task, "analyze_failure")
    /\ task' = [task EXCEPT !.phase = "revise"]
    /\ turn' = [turn EXCEPT !.at = "candidate", !.attempt = attempt, !.known = OnRecord(task)]
    /\ UNCHANGED <<disk, edits, proved, run, post, remote>>

GiveUp ==
    \/ ~CanEnter(task, "analyze_failure") /\ LoopFails(task, turn.known)
    \/ /\ CanEnter(task, "analyze_failure") /\ turn.attempt = MaxRevisions
       /\ RollBack([task EXCEPT !.phase = "analyze_failure"], "validation_failed", OnRecord(task))

\* Faulty: a revision is not counted.
FailStageUncounted == GiveUp \/ (turn.attempt < MaxRevisions /\ Revise(turn.attempt))

\* Faulty: one revision too many.
FailStageLate == GiveUp \/ (turn.attempt <= MaxRevisions /\ Revise(turn.attempt + 1))

\* A stage failed: another revision, or the rollback when all are spent.
FailStage == GiveUp \/ (turn.attempt < MaxRevisions /\ Revise(turn.attempt + 1))

FailTargeted == turn.at = "targeted" /\ FailStage

FailFull == turn.at = "full" /\ FailStage

PassTargeted ==
    /\ turn.at = "targeted"
    /\ \/ /\ CanEnter(task, "full_validation")
          /\ task' = [task EXCEPT !.phase = "full_validation"]
          /\ turn' = [turn EXCEPT !.at = "full", !.known = OnRecord(task)]
          /\ UNCHANGED <<disk, edits, proved, run, post, remote>>
       \/ ~CanEnter(task, "full_validation") /\ LoopFails(task, turn.known)

PassFull ==
    /\ turn.at = "full"
    /\ \/ /\ CanEnter(task, "summarize")
          /\ EndKept([task EXCEPT !.phase = "summarize", !.status = "completed"], "completed")
          /\ proved' = TRUE
       \/ ~CanEnter(task, "summarize") /\ LoopFails(task, turn.known)

\* The Resource Governor defers the stage.
DeferStage ==
    /\ turn.at \in {"targeted", "full"}
    /\ EndKept(task, "remote_required")
    /\ UNCHANGED proved

-----------------------------------------------------------------------------
(* The Host *)

HostEdits(f) ==
    /\ turn.at = "host" /\ Edit(f)
    /\ UNCHANGED <<task, run, turn, post, remote>>

HostValidates ==
    /\ turn.at = "host" /\ ~proved
    /\ proved' = TRUE
    /\ UNCHANGED <<task, disk, edits, run, turn, post, remote>>

-----------------------------------------------------------------------------
(* Postflight *)

\* What the loop's outcome is taken for.
LoopValidated(r) == run[r].outcome \in {"completed", "no_change"}

Receive(h, r) == post[h] = Idle /\ run[r].stored

\* No mutation is seen, or a loop's without the workspace state.
PostflightUnrecorded(h, r) ==
    /\ Receive(h, r)
    /\ post' = [post EXCEPT ![h] = [Idle EXCEPT !.at = "settle", !.run = r]]
    /\ UNCHANGED <<task, disk, edits, proved, run, turn, remote>>

\* A mutation of the Host's that came without the workspace state.
PostflightUnseen(h, r) ==
    /\ Receive(h, r) /\ run[r].outcome = Null
    /\ task' = [task EXCEPT !.status = "blocked"]
    /\ post' = [post EXCEPT ![h] = [Idle EXCEPT !.at = "settle", !.run = r]]
    /\ UNCHANGED <<disk, edits, proved, run, turn, remote>>

\* A mutation with the workspace state: the files that differ are recorded.
\* When they are not recordable the postflight throws, and changes nothing.
PostflightRecord(h, r, files, hostValidated) ==
    /\ Receive(h, r) /\ Recordable
    /\ hostValidated => proved
    /\ task' = Recording
    /\ post' = [post EXCEPT ![h] = [at |-> "record", run |-> r, files |-> files, seen |-> Look,
                                    validated |-> hostValidated \/ LoopValidated(r)]]
    /\ UNCHANGED <<disk, edits, proved, run, turn, remote>>

\* After the await: the patch, then the validation that came with it.  Only the
\* phases of a patch lead to completion.
PostflightReconcile(h, violations) ==
    LET p == post[h]
        t == Recorded(p.seen, p.files, violations)
    IN  /\ p.at = "record"
        /\ task' = IF /\ t.status = "active" /\ p.validated
                      /\ t.phase \in {"patch", "revise", "targeted_validation"}
                   THEN [t EXCEPT !.phase = "summarize", !.status = "completed"] ELSE t
        /\ post' = [post EXCEPT ![h] = [Idle EXCEPT !.at = "settle", !.run = p.run]]
        /\ UNCHANGED <<disk, edits, proved, run, turn, remote>>

\* The rest of the postflight settles the run.  A failed Host leaves the stored
\* preflight for another postflight.
PostflightSettle(h, status, stored) ==
    /\ post[h].at = "settle"
    /\ stored => status = "over"
    /\ run' = [run EXCEPT ![post[h].run].status = status, ![post[h].run].stored = stored]
    /\ post' = [post EXCEPT ![h] = Idle]
    /\ UNCHANGED <<task, disk, edits, proved, turn, remote>>

-----------------------------------------------------------------------------
(* Abort, reconciliation, restart, remote validation *)

AbortRun(r) ==
    /\ run[r].status \notin {"none", "unsaved"} \/ (task.status = "active" /\ task.run = r)
    /\ run' = Abandoned({r})
    /\ task' = CancelOf(task, r)
    /\ UNCHANGED <<disk, edits, proved, turn, post, remote>>

\* The preflight of another session reconciles expired runs, its own or ours.
ReconcileRuns(expired) ==
    /\ run' = Abandoned(expired)
    /\ task' = Reconciled(task, run')
    /\ UNCHANGED <<disk, edits, proved, turn, post, remote>>

\* The process exits and starts: reconcileAbandonedRuns, then the coding tasks.
\* The Host and its turn survive.
Restart ==
    /\ run' = Abandoned(Runs)
    /\ task' = Reconciled(task, run')
    /\ turn' = IF turn.at = "host" THEN turn ELSE NoTurn
    /\ post' = [h \in Posts |-> Idle]
    /\ remote' = {}
    /\ UNCHANGED <<disk, edits, proved>>

\* dispatchRemoteValidation pushes the workspace's head, whatever the phase is.
SendRemote ==
    /\ remote = {} /\ task.status # "absent"
    /\ remote' = {disk}
    /\ UNCHANGED <<task, disk, edits, proved, run, turn, post>>

\* Its result is recorded if the phase is full_validation by then; the
\* transition that follows throws if the task is not active.
ReceiveRemote(passed) ==
    /\ remote # {} /\ remote' = {}
    /\ IF task.phase = "full_validation" /\ task.status = "active"
       THEN task' = IF passed THEN [task EXCEPT !.phase = "summarize", !.status = "completed"]
                    ELSE [task EXCEPT !.phase = "analyze_failure"]
       ELSE UNCHANGED task
    /\ proved' = (proved \/ (passed /\ disk \in remote))
    /\ UNCHANGED <<disk, edits, run, turn, post>>

-----------------------------------------------------------------------------
Init ==
    /\ task = [status |-> "absent", phase |-> "inspect", run |-> Null, changed |-> {},
               saved |-> FALSE, base |-> [f \in {} |-> 0]]
    /\ disk = [f \in Files |-> 0]
    /\ edits = 0
    /\ proved = FALSE
    /\ run = [r \in Runs |-> [status |-> "none", stored |-> FALSE, outcome |-> Null]]
    /\ turn = NoTurn
    /\ post = [h \in Posts |-> Idle]
    /\ remote = {}

Prepare ==
    \/ \E r \in Runs, expired \in SUBSET Runs, sweep \in BOOLEAN : BeginTurn(r, expired, sweep)
    \/ ReuseCheckpoint \/ SaveCheckpoint \/ PreflightFails \/ SkipLoop
    \/ \E snap \in SUBSET Files : TakeSnapshot(snap)

Loop ==
    \/ WorkerFails \/ PlanPatch \/ ReceiveNothing
    \/ \E files \in SUBSET Files : ReceiveCandidate(files)
    \/ \E f \in Files : ApplyPatch(f)
    \/ RefusePatch \/ RecordCandidate \/ ValidateUnchanged
    \/ \E violations \in Found(Violations \ {"unrelated_file"}) : EvaluatePolicy(violations)
    \/ FailTargeted \/ FailFull \/ PassTargeted \/ PassFull \/ DeferStage

Host == HostValidates \/ \E f \in Files : HostEdits(f)

Postflight(h) ==
    \/ \E r \in Runs : PostflightUnrecorded(h, r) \/ PostflightUnseen(h, r)
    \/ \E r \in Runs, files \in SUBSET Files, ok \in BOOLEAN : PostflightRecord(h, r, files, ok)
    \/ \E violations \in Found(Violations) : PostflightReconcile(h, violations)
    \/ \E status \in {"done", "over"}, stored \in BOOLEAN : PostflightSettle(h, status, stored)

Next ==
    \/ Prepare \/ StartLoop \/ Loop \/ Host
    \/ \E h \in Posts : Postflight(h)
    \/ \E r \in Runs : AbortRun(r)
    \/ \E expired \in SUBSET Runs : ReconcileRuns(expired)
    \/ Restart \/ SendRemote \/ \E passed \in BOOLEAN : ReceiveRemote(passed)

Spec == Init /\ [][Next]_vars

\* The models and the commands the loop awaits answer or time out.
FairSpec == Spec /\ WF_vars(Loop)

-----------------------------------------------------------------------------
(* Properties *)

LoopOver == turn.at \in LoopPoints /\ turn'.at = "host"

Outcome == run'[turn.run].outcome

\* A record is written now that saw the task in another status before its await.
LateRecord ==
    \/ turn.at = "record" /\ turn'.at # "record" /\ turn.seen.status # task.status
    \/ \E h \in Posts :
          post[h].at = "record" /\ post'[h].at # "record" /\ post[h].seen.status # task.status

\* The abort of the turn under way leaves no active task behind, whichever turn
\* of the session created the task (the rebinding in prepareCodexExecution); and no
\* validation, preflight, restart or later turn revives what was cancelled: only
\* the write-back of recordCodexPatch does, when it looked before the abort.
AbortReaches ==
    [][/\ (\E r \in Runs : r = turn.run /\ AbortRun(r)) /\ turn.at \in Points \ {"none", "index"}
            => task'.status # "active"
       /\ task.status = "cancelled" /\ task'.status \notin {"cancelled", "blocked"} => LateRecord]_vars

\* The rollback point is taken once: no later turn, failed preflight or restart
\* replaces what the files were before the task was first worked on.
RollbackPointKept == [][task.saved => task'.saved /\ task'.base = task.base]_vars

\* On the record of the task, or back at the rollback point; an error excuses the
\* file of a candidate that was not on record yet.
Accounted(f, outcome) ==
    \/ f \in task'.changed
    \/ f \in InSnapshot /\ disk'[f] = task.base[f]
    \/ outcome = "failed" /\ f \notin task.changed

\* However the loop ends, every file it wrote is accounted for: a rollback that
\* stops half way takes no file off the record that it did not restore.
HandRecorded == [][LoopOver => \A f \in turn.hand : Accounted(f, Outcome)]_vars

\* A task that was aborted or blocked while a validation ran is completed neither
\* by the loop, though it awaited between start and result, nor by a remote
\* validation that answers late: only by a postflight that saw it before.
CompletesActive ==
    [][/\ LoopOver /\ Outcome = "completed" => task.status = "active" /\ task'.status = "completed"
       /\ task.status # "completed" /\ task'.status = "completed"
            => task.status = "active" \/ LateRecord]_vars

\* The loop comes to an end, whatever the models and the commands answer.
LoopEnds == turn.at \in LoopPoints ~> turn.at \notin LoopPoints

-----------------------------------------------------------------------------
(* What the documents say and the code does not do *)

\* A task is completed only on a content that a validation passed on
\* (transitionCodingTask to completed, from the loop, the postflight or the
\* result of a remote validation).
SuccessIsValidated ==
    [][task.status # "completed" /\ task'.status = "completed" => proved']_vars
=============================================================================
