--------------------------- MODULE CodingTaskProofs ---------------------------
(***************************************************************************)
(* Theorems about CodingTask, for any number of files, turns, revisions,   *)
(* edits and postflights at once: the types, the rollback point that is    *)
(* taken once, the completion of active tasks only, the abort that reaches *)
(* the task of its turn, and the record of what the loop wrote.  Who       *)
(* changes the status of a task that is not active is said by StatusStep.  *)
(*                                                                         *)
(* Two things are added to the types: the turn under way has a run and,    *)
(* once it has prepared the task, the task is bound to that run (Held);    *)
(* and what the loop wrote is on the record of the task, or among the      *)
(* patches of the candidate that is not recorded yet (Hands).              *)
(***************************************************************************)
EXTENDS CodingTask, TLAPS

Held ==
    /\ turn.at # "none" => turn.run \in Runs
    /\ turn.at \notin {"none", "index"} => task.run = turn.run

Inv == TypeOK /\ Held

\* What the loop wrote is recorded, or will be with the candidate it applies.
Hands ==
    /\ turn.at \in LoopPoints => turn.hand \subseteq task.changed \cup turn.patched
    /\ turn.at \notin LoopPoints => turn.hand = {}
    /\ turn.at \notin {"apply", "record"} => turn.patched = {}
    /\ turn.at = "record" => turn.seen.changed = task.changed

\* No postflight of an earlier turn goes on from its await while the loop runs:
\* it would put back the record of files that it read before the await.
Alone ==
    turn.at \in LoopPoints
        => ~\E h \in Posts, violations \in Found(Violations) : PostflightReconcile(h, violations)

RollbackStep == task.saved => task'.saved /\ task'.base = task.base

CompleteStep ==
    LoopOver /\ Outcome = "completed" => task.status = "active" /\ task'.status = "completed"

HandStep == LoopOver => \A f \in turn.hand : Accounted(f, Outcome)

\* The row t, with which the loop ends, has on record what the loop wrote.
Carried(t, outcome) ==
    Hands => \A f \in turn.hand : f \in t.changed \/ (outcome = "failed" /\ f \notin task.changed)

\* What every step keeps.
Kept ==
    /\ Inv' /\ RollbackStep /\ CompleteStep
    /\ Alone /\ Hands => Hands' /\ HandStep

-----------------------------------------------------------------------------
(* Rows of the task *)

\* A row with another status, another phase or other files, but of the same turn
\* and with the same rollback point.
SameRow(t, u) == u \in Task /\ u.run = t.run /\ u.saved = t.saved /\ u.base = t.base

LEMMA WithPhase ==
    ASSUME NEW t \in Task, NEW phase \in Phases
    PROVE  LET u == [t EXCEPT !.phase = phase] IN
           SameRow(t, u) /\ u.changed = t.changed /\ u.status = t.status
  BY DEF SameRow, Task

LEMMA WithStatus ==
    ASSUME NEW t \in Task, NEW status \in Statuses
    PROVE  LET u == [t EXCEPT !.status = status] IN
           SameRow(t, u) /\ u.changed = t.changed /\ u.status = status
  BY DEF SameRow, Task

LEMMA WithBoth ==
    ASSUME NEW t \in Task, NEW phase \in Phases, NEW status \in Statuses
    PROVE  LET u == [t EXCEPT !.phase = phase, !.status = status] IN
           SameRow(t, u) /\ u.changed = t.changed /\ u.status = status
  BY DEF SameRow, Task

LEMMA CancelOfRow ==
    ASSUME NEW t \in Task, NEW r
    PROVE  SameRow(t, CancelOf(t, r)) /\ CancelOf(t, r).changed = t.changed
  BY DEF SameRow, CancelOf, Task, Statuses

LEMMA ReconciledRow ==
    ASSUME NEW t \in Task, NEW rs
    PROVE  SameRow(t, Reconciled(t, rs)) /\ Reconciled(t, rs).changed = t.changed
  BY DEF SameRow, Reconciled, Task, Statuses

LEMMA RecordingRow ==
    ASSUME task \in Task
    PROVE  SameRow(task, Recording) /\ Recording.changed = task.changed
  BY DEF SameRow, Recording, Task, Phases

LEMMA RecordedRow ==
    ASSUME task \in Task, NEW seen \in Seen, NEW files \in SUBSET Files, NEW violations
    PROVE  LET u == Recorded(seen, files, violations) IN
           SameRow(task, u) /\ u.changed = seen.changed \cup files
  <1> DEFINE status == IF Blocks(violations) THEN "blocked" ELSE seen.status
             changed == seen.changed \cup files
  <1>1. status \in Statuses /\ changed \in SUBSET Files  BY DEF Seen, Statuses
  <1>2. Recorded(seen, files, violations) = [task EXCEPT !.changed = changed, !.status = status]
    BY DEF Recorded
  <1> HIDE DEF status, changed
  <1>3. SameRow(task, Recorded(seen, files, violations))
        /\ Recorded(seen, files, violations).changed = changed
    BY <1>1, <1>2 DEF SameRow, Task
  <1> QED  BY <1>3 DEF changed

LEMMA RolledBackRow ==
    ASSUME NEW t \in Task
    PROVE  SameRow(t, RolledBack(t)) /\ RolledBack(t).changed = t.changed \ InSnapshot
  <1>1. t.changed \ InSnapshot \in SUBSET Files  BY DEF Task
  <1> QED  BY <1>1 DEF SameRow, RolledBack, Task

LEMMA BoundRow ==
    ASSUME task \in Task, turn \in Turn
    PROVE  /\ Bound \in Task /\ Bound.run = turn.run /\ Bound.saved = task.saved
           /\ Bound.base = task.base
  BY DEF Bound, Task, Turn, Statuses

LEMMA SameRowChain ==
    ASSUME NEW t, NEW u, NEW v, SameRow(t, u), SameRow(u, v)
    PROVE  SameRow(t, v)
  BY DEF SameRow

LEMMA LookSeen == ASSUME task \in Task PROVE Look \in Seen /\ Look.changed = task.changed
  BY DEF Look, Seen, Task

-----------------------------------------------------------------------------
(* The workspace and the runs *)

LEMMA Edited ==
    ASSUME TypeOK, NEW f \in Files, Edit(f)
    PROVE  disk' \in [Files -> Content] /\ edits' \in 0..MaxEdits /\ proved' \in BOOLEAN
  <1>1. edits < MaxEdits /\ edits' = edits + 1 /\ disk' = [disk EXCEPT ![f] = edits + 1]
        /\ proved' = (proved /\ disk' = disk)
    BY DEF Edit, Write
  <1>2. edits \in 0..MaxEdits /\ disk \in [Files -> Content]  BY DEF TypeOK
  <1>3. edits + 1 \in 0..MaxEdits  BY <1>1, <1>2, BoundsAssumption
  <1>4. disk' \in [Files -> Content]  BY <1>1, <1>2, <1>3 DEF Content
  <1> QED  BY <1>1, <1>3, <1>4

LEMMA RestoredDisk ==
    ASSUME TypeOK, NEW done \in SUBSET InSnapshot, Write(RestoredOf(done))
    PROVE  /\ disk' \in [Files -> Content] /\ proved' \in BOOLEAN
           /\ \A f \in Files \cap done : disk'[f] = task.base[f]
  <1>1. task.base \in UNION {[S -> Content] : S \in SUBSET Files}  BY DEF TypeOK, Task
  <1>2. \A f \in InSnapshot : task.base[f] \in Content  BY <1>1 DEF InSnapshot
  <1>3. disk \in [Files -> Content]  BY DEF TypeOK
  <1>4. disk' = RestoredOf(done) /\ proved' \in BOOLEAN  BY DEF Write
  <1>5. RestoredOf(done) \in [Files -> Content]  BY <1>2, <1>3 DEF RestoredOf
  <1>6. \A f \in Files \cap done : RestoredOf(done)[f] = task.base[f]  BY DEF RestoredOf
  <1> QED  BY <1>4, <1>5, <1>6

LEMMA AbandonedRuns == ASSUME TypeOK, NEW rs PROVE Abandoned(rs) \in [Runs -> Run]
  <1>1. \A r \in Runs : run[r] \in Run /\ [run[r] EXCEPT !.status = "over"] \in Run
    BY DEF TypeOK, Run
  <1> QED  BY <1>1 DEF Abandoned

LEMMA RunningRuns == ASSUME TypeOK, NEW r PROVE Running(r) \in [Runs -> Run]
  <1>1. run \in [Runs -> Run]  BY DEF TypeOK
  <1>2. CASE r \in Runs
    <2>1. [run[r] EXCEPT !.status = "running"] \in Run  BY <1>1, <1>2 DEF Run
    <2> QED  BY <1>1, <1>2, <2>1 DEF Running
  <1>3. CASE r \notin Runs  BY <1>1, <1>3 DEF Running
  <1> QED  BY <1>2, <1>3

LEMMA NoTurnType == NoTurn \in Turn
  <1>1. Unseen \in Seen  BY DEF Unseen, Seen, Statuses
  <1> QED  BY <1>1, BoundsAssumption DEF NoTurn, Turn, Points

-----------------------------------------------------------------------------
(* Three kinds of steps *)

\* A step that leaves the turn alone, and the files on record while the loop runs.
LEMMA OutsideStep ==
    ASSUME Inv, SameRow(task, task'), UNCHANGED turn,
           disk' \in [Files -> Content], edits' \in 0..MaxEdits, proved' \in BOOLEAN,
           run' \in [Runs -> Run], post' \in [Posts -> Post], remote' \subseteq [Files -> Content],
           Alone /\ turn.at \in LoopPoints => task'.changed = task.changed
    PROVE  Kept
  <1>1. TypeOK'  BY DEF TypeOK, Inv, SameRow
  <1>2. Held'  BY DEF Held, Inv, SameRow
  <1>3. RollbackStep  BY DEF RollbackStep, SameRow
  <1>4. ~LoopOver  BY DEF LoopOver, LoopPoints
  <1>5. Alone /\ Hands => Hands'  BY DEF Hands, LoopPoints
  <1> QED  BY <1>1, <1>2, <1>3, <1>4, <1>5 DEF Kept, Inv, CompleteStep, HandStep

\* A step of the loop that does not end it, and no other's.
LEMMA InsideStep ==
    ASSUME Inv, turn.at \in {"planned"} \cup LoopPoints, SameRow(task, task'),
           turn' \in Turn, turn'.run = turn.run, turn'.at \in LoopPoints,
           disk' \in [Files -> Content], edits' \in 0..MaxEdits, proved' \in BOOLEAN,
           UNCHANGED <<run, post, remote>>,
           Hands => Hands'
    PROVE  Kept
  <1>1. TypeOK'  BY DEF TypeOK, Inv, SameRow
  <1>2. Held'  BY DEF Held, Inv, SameRow, LoopPoints
  <1>3. RollbackStep  BY DEF RollbackStep, SameRow
  <1>4. ~LoopOver  BY DEF LoopOver, LoopPoints
  <1> QED  BY <1>1, <1>2, <1>3, <1>4 DEF Kept, Inv, CompleteStep, HandStep

\* The preflight gives the turn to the Host.
LEMMA HandOverStep ==
    ASSUME Inv, turn.at \in {"planned"} \cup LoopPoints, NEW outcome \in Outcomes,
           HandOver(outcome), SameRow(task, task'),
           disk' \in [Files -> Content], edits' \in 0..MaxEdits, proved' \in BOOLEAN,
           UNCHANGED <<post, remote>>,
           outcome = "completed" => task.status = "active" /\ task'.status = "completed",
           Hands => \A f \in turn.hand : Accounted(f, outcome)
    PROVE  Kept
  <1>1. turn.run \in Runs  BY DEF Inv, Held, LoopPoints
  <1>2. /\ turn' = [NoTurn EXCEPT !.at = "host", !.run = turn.run]
        /\ run' = [run EXCEPT ![turn.run] = [status |-> "running", stored |-> TRUE,
                                             outcome |-> outcome]]
    BY DEF HandOver
  <1>3. run \in [Runs -> Run]  BY DEF Inv, TypeOK
  <1>4. [status |-> "running", stored |-> TRUE, outcome |-> outcome] \in Run  BY DEF Run
  <1>5. run' \in [Runs -> Run] /\ Outcome = outcome  BY <1>1, <1>2, <1>3, <1>4 DEF Outcome
  <1>6. turn'.at = "host" /\ turn'.run = turn.run /\ turn'.hand = {} /\ turn'.patched = {}
    BY <1>2 DEF NoTurn
  <1>7. turn' \in Turn
    BY <1>1, <1>2, NoTurnType DEF Turn, Points
  <1>8. TypeOK'  BY <1>5, <1>7 DEF TypeOK, Inv, SameRow
  <1>9. Held'  BY <1>1, <1>6 DEF Held, Inv, SameRow, LoopPoints
  <1>10. Hands'  BY <1>6 DEF Hands, LoopPoints
  <1>11. RollbackStep  BY DEF RollbackStep, SameRow
  <1>12. CompleteStep  BY <1>5 DEF CompleteStep
  <1>13. Hands => HandStep  BY <1>5 DEF HandStep
  <1> QED  BY <1>8, <1>9, <1>10, <1>11, <1>12, <1>13 DEF Kept, Inv

-----------------------------------------------------------------------------
(* Preflight *)

\* A step of the preflight before the loop: the types and the rollback point.
LEMMA PrepareStep ==
    ASSUME Inv, turn.at \notin LoopPoints, task' \in Task,
           task.saved => task'.saved /\ task'.base = task.base,
           turn' \in Turn, turn'.at \notin LoopPoints,
           Hands => turn'.hand = {} /\ turn'.patched = {},
           turn'.at # "none" => turn'.run \in Runs,
           turn'.at \notin {"none", "index"} => task'.run = turn'.run,
           run' \in [Runs -> Run], UNCHANGED <<disk, edits, proved, post, remote>>
    PROVE  Kept
  <1>1. TypeOK'  BY DEF TypeOK, Inv
  <1>2. Held'  BY DEF Held
  <1>3. ~LoopOver  BY DEF LoopOver
  <1>4. Hands => Hands'  BY DEF Hands, LoopPoints
  <1> QED  BY <1>1, <1>2, <1>3, <1>4 DEF Kept, Inv, RollbackStep, CompleteStep, HandStep

LEMMA BeginTurnStep ==
    ASSUME Inv, NEW r \in Runs, NEW expired \in SUBSET Runs, NEW sweep \in BOOLEAN,
           BeginTurn(r, expired, sweep)
    PROVE  Kept
  <1>1. /\ turn.at \in {"none", "host"}
        /\ run' = [Abandoned(expired) EXCEPT ![r].status = "unsaved"]
        /\ task' = task \/ task' = Reconciled(task, run')
        /\ turn' = [NoTurn EXCEPT !.at = "index", !.run = r]
        /\ UNCHANGED <<disk, edits, proved, post, remote>>
    BY DEF BeginTurn
  <1>2. run' \in [Runs -> Run]
    <2> DEFINE rs == Abandoned(expired)
    <2>1. rs \in [Runs -> Run]  BY AbandonedRuns DEF Inv
    <2>2. run' = [rs EXCEPT ![r].status = "unsaved"]  BY <1>1
    <2> HIDE DEF rs
    <2>3. [rs[r] EXCEPT !.status = "unsaved"] \in Run  BY <2>1 DEF Run
    <2> QED  BY <2>1, <2>2, <2>3
  <1>3. SameRow(task, task')
    <2>1. SameRow(task, task) /\ SameRow(task, Reconciled(task, run'))
      BY ReconciledRow DEF Inv, TypeOK, SameRow
    <2> QED  BY <1>1, <2>1
  <1>4. turn' \in Turn  BY <1>1, NoTurnType DEF Turn, Points
  <1>5. turn'.at = "index" /\ turn'.run = r /\ turn'.hand = {} /\ turn'.patched = {}
    <2>1. NoTurn \in Turn /\ NoTurn.hand = {} /\ NoTurn.patched = {}
      BY NoTurnType DEF NoTurn
    <2> QED  BY <1>1, <2>1 DEF Turn
  <1>6. task' \in Task /\ (task.saved => task'.saved /\ task'.base = task.base)
    BY <1>3 DEF SameRow
  <1>7. turn.at \notin LoopPoints /\ turn'.at \notin LoopPoints
    BY <1>1, <1>5 DEF LoopPoints
  <1> QED  BY <1>1, <1>2, <1>4, <1>5, <1>6, <1>7, PrepareStep

\* The preflight goes on, in the turn that it is in.
LEMMA PreflightStep ==
    ASSUME Inv, turn.at \in {"index", "checkpoint", "planned"}, NEW at \in {"checkpoint", "planned"},
           NEW known \in BOOLEAN, turn' = [turn EXCEPT !.at = at, !.known = known],
           task' \in Task, task.saved => task'.saved /\ task'.base = task.base,
           task'.run = turn.run, run' \in [Runs -> Run],
           UNCHANGED <<disk, edits, proved, post, remote>>
    PROVE  Kept
  <1>1. /\ turn' \in Turn /\ turn'.at = at /\ turn'.run = turn.run /\ turn'.hand = turn.hand
        /\ turn'.patched = turn.patched
    BY DEF Inv, TypeOK, Turn, Points
  <1>2. turn.run \in Runs  BY DEF Inv, Held
  <1>3. turn.at \notin LoopPoints /\ turn'.at \notin LoopPoints  BY <1>1 DEF LoopPoints
  <1>4. Hands => turn'.hand = {} /\ turn'.patched = {}  BY <1>1, <1>3 DEF Hands, LoopPoints
  <1> QED  BY <1>1, <1>2, <1>3, <1>4, PrepareStep

LEMMA OnRecordBoolean == ASSUME NEW t PROVE OnRecord(t) \in BOOLEAN
  BY DEF OnRecord

LEMMA ReuseCheckpointStep == ASSUME Inv, ReuseCheckpoint PROVE Kept
  <1> DEFINE known == OnRecord(task)
  <1>1. /\ turn.at = "index" /\ task' = Bound /\ run' = Running(turn.run)
        /\ turn' = [turn EXCEPT !.at = "planned", !.known = known]
        /\ UNCHANGED <<disk, edits, proved, post, remote>>
    BY DEF ReuseCheckpoint
  <1>2. known \in BOOLEAN  BY OnRecordBoolean
  <1> HIDE DEF known
  <1>3. Bound \in Task /\ Bound.run = turn.run /\ Bound.saved = task.saved /\ Bound.base = task.base
    BY BoundRow DEF Inv, TypeOK
  <1>4. run' \in [Runs -> Run]  BY <1>1, RunningRuns DEF Inv
  <1> QED  BY <1>1, <1>2, <1>3, <1>4, PreflightStep

LEMMA SaveCheckpointStep == ASSUME Inv, SaveCheckpoint PROVE Kept
  <1> DEFINE known == OnRecord(task)
  <1>1. /\ turn.at = "checkpoint" /\ task' = [task EXCEPT !.saved = TRUE]
        /\ run' = Running(turn.run)
        /\ turn' = [turn EXCEPT !.at = "planned", !.known = known]
        /\ UNCHANGED <<disk, edits, proved, post, remote>>
    BY DEF SaveCheckpoint
  <1>2. known \in BOOLEAN  BY OnRecordBoolean
  <1> HIDE DEF known
  <1>3. task' \in Task /\ task'.run = task.run /\ task'.saved /\ task'.base = task.base
    BY <1>1 DEF Inv, TypeOK, Task
  <1>4. task'.run = turn.run  BY <1>1, <1>3 DEF Inv, Held
  <1>5. run' \in [Runs -> Run]  BY <1>1, RunningRuns DEF Inv
  <1> QED  BY <1>1, <1>2, <1>3, <1>4, <1>5, PreflightStep

LEMMA TakeSnapshotStep ==
    ASSUME Inv, NEW snap \in SUBSET Files, TakeSnapshot(snap)
    PROVE  Kept
  <1> DEFINE base == [f \in snap |-> disk[f]]
             bound == Bound
             known == turn.known
  <1>1. /\ turn.at = "index" /\ ~task.saved /\ task' = [bound EXCEPT !.base = base]
        /\ turn' = [turn EXCEPT !.at = "checkpoint"]
        /\ UNCHANGED <<disk, edits, proved, run, post, remote>>
    BY DEF TakeSnapshot
  <1>2. base \in UNION {[S -> Content] : S \in SUBSET Files}
    <2>1. base \in [snap -> Content]  BY DEF Inv, TypeOK
    <2> QED  BY <2>1
  <1>3. bound \in Task /\ bound.run = turn.run  BY BoundRow DEF Inv, TypeOK
  <1>4. known \in BOOLEAN /\ turn' = [turn EXCEPT !.at = "checkpoint", !.known = known]
    BY <1>1 DEF Inv, TypeOK, Turn
  <1> HIDE DEF base, bound, known
  <1>5. task' \in Task /\ task'.run = turn.run  BY <1>1, <1>2, <1>3 DEF Task
  <1>6. run' \in [Runs -> Run]  BY <1>1 DEF Inv, TypeOK
  <1> QED  BY <1>1, <1>4, <1>5, <1>6, PreflightStep

LEMMA PreflightFailsStep == ASSUME Inv, PreflightFails PROVE Kept
  <1>1. /\ turn.at \in {"index", "checkpoint", "planned"} /\ turn' = NoTurn
        /\ UNCHANGED <<task, disk, edits, proved, run, post, remote>>
    BY DEF PreflightFails
  <1>2. turn' \in Turn  BY <1>1, NoTurnType
  <1>3. turn'.at = "none" /\ turn'.hand = {} /\ turn'.patched = {}  BY <1>1 DEF NoTurn
  <1>4. turn.at \notin LoopPoints /\ turn'.at \notin LoopPoints  BY <1>1, <1>3 DEF LoopPoints
  <1>5. task' \in Task /\ run' \in [Runs -> Run] /\ (task.saved => task'.saved /\ task'.base = task.base)
    BY <1>1 DEF Inv, TypeOK
  <1> QED  BY <1>1, <1>2, <1>3, <1>4, <1>5, PrepareStep

LEMMA SkipLoopStep == ASSUME Inv, SkipLoop PROVE Kept
  <1>1. /\ turn.at = "planned" /\ HandOver(Null)
        /\ UNCHANGED <<task, disk, edits, proved, post, remote>>
    BY DEF SkipLoop
  <1>2. Null \in Outcomes /\ Null # "completed"  BY DEF Outcomes, Null
  <1>3. SameRow(task, task')  BY <1>1 DEF Inv, TypeOK, SameRow
  <1>4. disk' \in [Files -> Content] /\ edits' \in 0..MaxEdits /\ proved' \in BOOLEAN
    BY <1>1 DEF Inv, TypeOK
  <1>5. Hands => turn.hand = {}  BY <1>1 DEF Hands, LoopPoints
  <1> QED  BY <1>1, <1>2, <1>3, <1>4, <1>5, HandOverStep

LEMMA StartLoopStep == ASSUME Inv, StartLoop PROVE Kept
  <1>1. /\ turn.at = "planned" /\ turn' = [turn EXCEPT !.at = "plan"]
        /\ UNCHANGED <<task, disk, edits, proved, run, post, remote>>
    BY DEF StartLoop
  <1>2. /\ turn' \in Turn /\ turn'.at = "plan" /\ turn'.run = turn.run /\ turn'.hand = turn.hand
        /\ turn'.patched = turn.patched
    BY <1>1 DEF Inv, TypeOK, Turn, Points, LoopPoints
  <1>3. SameRow(task, task')  BY <1>1 DEF Inv, TypeOK, SameRow
  <1>4. disk' \in [Files -> Content] /\ edits' \in 0..MaxEdits /\ proved' \in BOOLEAN
    BY <1>1 DEF Inv, TypeOK
  <1>5. Hands => Hands'  BY <1>1, <1>2 DEF Hands, LoopPoints
  <1>6. turn'.at \in LoopPoints  BY <1>2 DEF LoopPoints
  <1> QED  BY <1>1, <1>2, <1>3, <1>4, <1>5, <1>6, InsideStep

-----------------------------------------------------------------------------
(* How the loop ends *)

LEMMA EndRestoredStep ==
    ASSUME Inv, turn.at \in LoopPoints, NEW t, SameRow(task, t),
           NEW outcome \in Outcomes \ {"completed"}, EndRestored(t, outcome),
           Carried(t, outcome)
    PROVE  Kept
  <1>1. /\ task' = RolledBack(t) /\ Write(RestoredOf(InSnapshot)) /\ HandOver(outcome)
        /\ UNCHANGED <<edits, post, remote>>
    BY DEF EndRestored, Restored
  <1>2. SameRow(t, task') /\ task'.changed = t.changed \ InSnapshot
    BY <1>1, RolledBackRow DEF SameRow
  <1>3. SameRow(task, task')  BY <1>2, SameRowChain
  <1>4. /\ disk' \in [Files -> Content] /\ proved' \in BOOLEAN
        /\ \A f \in Files \cap InSnapshot : disk'[f] = task.base[f]
    BY <1>1, RestoredDisk DEF Inv
  <1>5. edits' \in 0..MaxEdits /\ turn.hand \subseteq Files  BY <1>1 DEF Inv, TypeOK, Turn
  <1>6. ASSUME Hands, NEW f \in turn.hand PROVE Accounted(f, outcome)
    BY <1>2, <1>4, <1>5, <1>6 DEF Carried, Accounted
  <1> QED  BY <1>1, <1>3, <1>4, <1>5, <1>6, HandOverStep

LEMMA EndStuckStep ==
    ASSUME Inv, turn.at \in LoopPoints, NEW t, SameRow(task, t), EndStuck(t), Carried(t, "failed")
    PROVE  Kept
  <1>1. task' = t /\ HandOver("failed") /\ UNCHANGED <<edits, post, remote>>
    BY DEF EndStuck
  <1>2. PICK done \in SUBSET InSnapshot : Write(RestoredOf(done))  BY DEF EndStuck
  <1>3. disk' \in [Files -> Content] /\ proved' \in BOOLEAN  BY <1>2, RestoredDisk DEF Inv
  <1>4. edits' \in 0..MaxEdits /\ "failed" \in Outcomes  BY <1>1 DEF Inv, TypeOK, Outcomes
  <1>5. Hands => \A f \in turn.hand : Accounted(f, "failed")  BY <1>1 DEF Carried, Accounted
  <1> QED  BY <1>1, <1>3, <1>4, <1>5, HandOverStep

LEMMA EndKeptStep ==
    ASSUME Inv, turn.at \in LoopPoints, NEW t, SameRow(task, t), NEW outcome \in Outcomes,
           EndKept(t, outcome), proved' \in BOOLEAN,
           outcome = "completed" => task.status = "active" /\ t.status = "completed",
           Carried(t, outcome)
    PROVE  Kept
  <1>1. task' = t /\ HandOver(outcome) /\ UNCHANGED <<disk, edits, post, remote>>
    BY DEF EndKept
  <1>2. disk' \in [Files -> Content] /\ edits' \in 0..MaxEdits  BY <1>1 DEF Inv, TypeOK
  <1>3. SameRow(task, task')  BY <1>1
  <1>4. Hands => \A f \in turn.hand : Accounted(f, outcome)  BY <1>1 DEF Carried, Accounted
  <1>5. outcome = "completed" => task.status = "active" /\ task'.status = "completed"
    BY <1>1
  <1> QED  BY <1>1, <1>2, <1>3, <1>4, <1>5, HandOverStep

LEMMA LoopFailsStep ==
    ASSUME Inv, turn.at \in LoopPoints, NEW t, SameRow(task, t), NEW known, LoopFails(t, known),
           Carried(t, "failed")
    PROVE  Kept
  <1>1. "failed" \in Outcomes \ {"completed"}  BY DEF Outcomes
  <1>2. CASE EndRestored(t, "failed")  BY <1>1, <1>2, EndRestoredStep
  <1>3. CASE EndKept(t, "failed") /\ UNCHANGED proved
    <2>1. proved' \in BOOLEAN  BY <1>3 DEF Inv, TypeOK
    <2> QED  BY <1>1, <1>3, <2>1, EndKeptStep
  <1>4. CASE EndStuck(t)  BY <1>4, EndStuckStep
  <1> QED  BY <1>2, <1>3, <1>4 DEF LoopFails

\* A rollback that throws ends the loop as an error does.
LEMMA RollBackStep ==
    ASSUME Inv, turn.at \in LoopPoints, NEW t, SameRow(task, t),
           NEW outcome \in Outcomes \ {"completed"}, NEW known, RollBack(t, outcome, known),
           Carried(t, outcome), Carried(t, "failed")
    PROVE  Kept
  <1>1. "failed" \in Outcomes \ {"completed"}  BY DEF Outcomes
  <1>2. CASE EndRestored(t, outcome)  BY <1>2, EndRestoredStep
  <1>3. CASE EndRestored(t, "failed")  BY <1>1, <1>3, EndRestoredStep
  <1>4. CASE EndStuck(t)  BY <1>4, EndStuckStep
  <1> QED  BY <1>2, <1>3, <1>4 DEF RollBack

\* When all it wrote is on record, the loop carries it whatever its outcome is.
LEMMA AllCarried ==
    ASSUME NEW t, NEW outcome, Hands => turn.hand \subseteq t.changed
    PROVE  Carried(t, outcome) /\ Carried(t, "failed")
  BY DEF Carried

LEMMA OwnCarried == Carried(task, "failed")
  BY DEF Carried

-----------------------------------------------------------------------------
(* The steps of the loop *)

LEMMA OwnRow == ASSUME Inv PROVE SameRow(task, task) /\ task \in Task /\ turn \in Turn
  BY DEF Inv, TypeOK, SameRow

LEMMA WorkerFailsStep == ASSUME Inv, WorkerFails PROVE Kept
  <1>1. turn.at \in LoopPoints /\ LoopFails(task, turn.known)
    BY DEF WorkerFails
  <1> QED  BY <1>1, OwnRow, OwnCarried, LoopFailsStep

\* The loop goes on with the workspace as it is.
LEMMA GoesOn ==
    ASSUME Inv, turn.at \in LoopPoints, SameRow(task, task'), turn' \in Turn,
           turn'.run = turn.run, turn'.at \in LoopPoints, Hands => Hands',
           UNCHANGED <<disk, edits, proved, run, post, remote>>
    PROVE  Kept
  <1>1. disk' \in [Files -> Content] /\ edits' \in 0..MaxEdits /\ proved' \in BOOLEAN
    BY DEF Inv, TypeOK
  <1> QED  BY <1>1, InsideStep

LEMMA PlanPatchStep == ASSUME Inv, PlanPatch PROVE Kept
  <1> DEFINE known == OnRecord(task)
  <1>1. /\ turn.at = "plan" /\ turn' = [turn EXCEPT !.at = "candidate", !.known = known]
        /\ UNCHANGED <<task, disk, edits, proved, run, post, remote>>
    BY DEF PlanPatch
  <1>2. known \in BOOLEAN  BY OnRecordBoolean
  <1> HIDE DEF known
  <1>3. /\ turn' \in Turn /\ turn'.run = turn.run /\ turn'.at = "candidate"
        /\ turn'.hand = turn.hand /\ turn'.patched = turn.patched
    BY <1>1, <1>2, OwnRow DEF Turn, Points, LoopPoints
  <1>4. turn.at \in LoopPoints /\ turn'.at \in LoopPoints  BY <1>1, <1>3 DEF LoopPoints
  <1>5. Hands => Hands'  BY <1>1, <1>3, <1>4 DEF Hands
  <1>6. SameRow(task, task')  BY <1>1, OwnRow
  <1> QED  BY <1>1, <1>3, <1>4, <1>5, <1>6, GoesOn

LEMMA ReceiveCandidateStep ==
    ASSUME Inv, NEW files \in SUBSET Files, ReceiveCandidate(files)
    PROVE  Kept
  <1> DEFINE known == OnRecord(task)
  <1>1. /\ turn.at = "candidate"
        /\ turn' = [turn EXCEPT !.at = "apply", !.todo = files, !.patched = {}, !.known = known]
        /\ UNCHANGED <<task, disk, edits, proved, run, post, remote>>
    BY DEF ReceiveCandidate
  <1>2. known \in BOOLEAN  BY OnRecordBoolean
  <1> HIDE DEF known
  <1>3. /\ turn' \in Turn /\ turn'.run = turn.run /\ turn'.at = "apply"
        /\ turn'.hand = turn.hand /\ turn'.patched = {}
    BY <1>1, <1>2, OwnRow DEF Turn, Points, LoopPoints
  <1>4. turn.at \in LoopPoints /\ turn'.at \in LoopPoints  BY <1>1, <1>3 DEF LoopPoints
  <1>5. Hands => Hands'  BY <1>1, <1>3, <1>4 DEF Hands
  <1>6. SameRow(task, task')  BY <1>1, OwnRow
  <1> QED  BY <1>1, <1>3, <1>4, <1>5, <1>6, GoesOn

LEMMA ReceiveNothingStep == ASSUME Inv, ReceiveNothing PROVE Kept
  <1>1. turn.at = "candidate" /\ turn.at \in LoopPoints  BY DEF ReceiveNothing, LoopPoints
  <1>2. "no_change" \in Outcomes \ {"completed"}  BY DEF Outcomes
  <1>3. Hands => turn.hand \subseteq task.changed  BY <1>1 DEF Hands
  <1>4. Carried(task, "no_change") /\ Carried(task, "failed")  BY <1>3, AllCarried
  <1>5. CASE RollBack(task, "no_change", TRUE)  BY <1>1, <1>2, <1>4, <1>5, OwnRow, RollBackStep
  <1>6. CASE EndKept(task, "no_change") /\ UNCHANGED proved
    <2>1. proved' \in BOOLEAN  BY <1>6 DEF Inv, TypeOK
    <2> QED  BY <1>1, <1>2, <1>4, <1>6, <2>1, OwnRow, EndKeptStep
  <1> QED  BY <1>5, <1>6 DEF ReceiveNothing

LEMMA ApplyPatchStep == ASSUME Inv, NEW f \in Files, ApplyPatch(f) PROVE Kept
  <1>1. turn.at = "apply" /\ f \in turn.todo /\ UNCHANGED <<task, run, post, remote>>
    BY DEF ApplyPatch
  <1>2. turn.todo \ {f} \in SUBSET Files /\ turn.patched \cup {f} \in SUBSET Files
        /\ turn.hand \cup {f} \in SUBSET Files /\ turn.patched \in SUBSET Files
        /\ turn.hand \in SUBSET Files
    BY OwnRow DEF Turn
  <1>3. SameRow(task, task') /\ turn.at \in LoopPoints  BY <1>1, OwnRow DEF LoopPoints
  <1>4. CASE /\ Edit(f)
             /\ turn' = [turn EXCEPT !.todo = @ \ {f}, !.patched = @ \cup {f}, !.hand = @ \cup {f}]
    <2>1. /\ turn' \in Turn /\ turn'.run = turn.run /\ turn'.at = "apply"
          /\ turn'.hand = turn.hand \cup {f} /\ turn'.patched = turn.patched \cup {f}
      BY <1>1, <1>2, <1>4, OwnRow DEF Turn
    <2>2. turn'.at \in LoopPoints  BY <2>1 DEF LoopPoints
    <2>3. Hands => Hands'  BY <1>1, <1>3, <2>1, <2>2 DEF Hands
    <2>4. disk' \in [Files -> Content] /\ edits' \in 0..MaxEdits /\ proved' \in BOOLEAN
      BY <1>4, Edited DEF Inv
    <2> QED  BY <1>1, <1>3, <2>1, <2>2, <2>3, <2>4, InsideStep
  <1>5. CASE turn' = [turn EXCEPT !.todo = @ \ {f}] /\ UNCHANGED <<disk, edits, proved>>
    <2>1. /\ turn' \in Turn /\ turn'.run = turn.run /\ turn'.at = "apply"
          /\ turn'.hand = turn.hand /\ turn'.patched = turn.patched
      BY <1>1, <1>2, <1>5, OwnRow DEF Turn
    <2>2. turn'.at \in LoopPoints  BY <2>1 DEF LoopPoints
    <2>3. Hands => Hands'  BY <1>1, <1>3, <2>1, <2>2 DEF Hands
    <2> QED  BY <1>1, <1>3, <1>5, <2>1, <2>2, <2>3, GoesOn
  <1> QED  BY <1>4, <1>5 DEF ApplyPatch

LEMMA RefusePatchStep == ASSUME Inv, RefusePatch PROVE Kept
  <1>1. turn.at \in LoopPoints /\ LoopFails(task, turn.known)
    BY DEF RefusePatch, LoopPoints
  <1> QED  BY <1>1, OwnRow, OwnCarried, LoopFailsStep

LEMMA RecordCandidateStep == ASSUME Inv, RecordCandidate PROVE Kept
  <1> DEFINE seen == Look
  <1>1. turn.at = "apply" /\ turn.at \in LoopPoints  BY DEF RecordCandidate, LoopPoints
  <1>2. seen \in Seen /\ seen.changed = task.changed  BY OwnRow, LookSeen
  <1>3. CASE /\ task' = Recording /\ turn' = [turn EXCEPT !.at = "record", !.seen = seen]
             /\ UNCHANGED <<disk, edits, proved, run, post, remote>>
    <2> HIDE DEF seen
    <2>1. SameRow(task, task') /\ task'.changed = task.changed  BY <1>3, OwnRow, RecordingRow
    <2>2. /\ turn' \in Turn /\ turn'.run = turn.run /\ turn'.at = "record"
          /\ turn'.hand = turn.hand /\ turn'.patched = turn.patched
          /\ turn'.seen.changed = task.changed
      BY <1>1, <1>2, <1>3, OwnRow DEF Turn, Points, LoopPoints
    <2>3. turn'.at \in LoopPoints  BY <2>2 DEF LoopPoints
    <2>4. Hands => Hands'  BY <1>1, <2>1, <2>2, <2>3 DEF Hands
    <2> QED  BY <1>1, <1>3, <2>1, <2>2, <2>3, <2>4, GoesOn
  <1>4. CASE LoopFails(task, turn.known)  BY <1>1, <1>4, OwnRow, OwnCarried, LoopFailsStep
  <1> QED  BY <1>3, <1>4 DEF RecordCandidate

\* The validation of what is on record by now.
LEMMA StartTargetedStep ==
    ASSUME Inv, turn.at \in LoopPoints, NEW t, SameRow(task, t), StartTargeted(t),
           Hands => turn.hand \subseteq t.changed
    PROVE  Kept
  <1> DEFINE known == OnRecord(t)
  <1>1. CASE /\ task' = [t EXCEPT !.phase = "targeted_validation"]
             /\ turn' = [turn EXCEPT !.at = "targeted", !.patched = {}, !.seen = Unseen,
                                     !.known = known]
             /\ UNCHANGED <<disk, edits, proved, run, post, remote>>
    <2>1. known \in BOOLEAN  BY OnRecordBoolean
    <2> HIDE DEF known
    <2>2. Unseen \in Seen  BY DEF Unseen, Seen, Statuses
    <2>3. SameRow(t, task') /\ task'.changed = t.changed
      BY <1>1, WithPhase DEF SameRow, Phases
    <2>4. SameRow(task, task')  BY <2>3, SameRowChain
    <2>5. /\ turn' \in Turn /\ turn'.run = turn.run /\ turn'.at = "targeted"
          /\ turn'.hand = turn.hand /\ turn'.patched = {}
      BY <1>1, <2>1, <2>2, OwnRow DEF Turn, Points, LoopPoints
    <2>6. turn'.at \in LoopPoints  BY <2>5 DEF LoopPoints
    <2>7. Hands => Hands'  BY <2>3, <2>5, <2>6 DEF Hands
    <2> QED  BY <1>1, <2>4, <2>5, <2>6, <2>7, GoesOn
  <1>2. CASE LoopFails(t, known)
    <2>1. Carried(t, "failed")  BY AllCarried
    <2> QED  BY <1>2, <2>1, LoopFailsStep
  <1> QED  BY <1>1, <1>2 DEF StartTargeted

LEMMA ValidateUnchangedStep == ASSUME Inv, ValidateUnchanged PROVE Kept
  <1>1. turn.at \in LoopPoints /\ turn.patched = {} /\ StartTargeted(task)
    BY DEF ValidateUnchanged, LoopPoints
  <1>2. Hands => turn.hand \subseteq task.changed  BY <1>1 DEF Hands
  <1> QED  BY <1>1, <1>2, OwnRow, StartTargetedStep

LEMMA EvaluatePolicyStep == ASSUME Inv, NEW violations, EvaluatePolicy(violations) PROVE Kept
  <1> DEFINE t == Recorded(turn.seen, turn.patched, violations)
  <1>1. /\ turn.at = "record" /\ turn.at \in LoopPoints
        /\ RollBack(t, "blocked", turn.known) \/ StartTargeted(t)
    BY DEF EvaluatePolicy, LoopPoints
  <1>2. turn.seen \in Seen /\ turn.patched \in SUBSET Files  BY OwnRow DEF Turn
  <1>3. SameRow(task, t) /\ t.changed = turn.seen.changed \cup turn.patched
    BY <1>2, OwnRow, RecordedRow
  <1> HIDE DEF t
  <1>4. Hands => turn.hand \subseteq t.changed  BY <1>1, <1>3 DEF Hands
  <1>5. "blocked" \in Outcomes \ {"completed"}  BY DEF Outcomes
  <1>6. CASE RollBack(t, "blocked", turn.known)
    <2>1. Carried(t, "blocked") /\ Carried(t, "failed")  BY <1>4, AllCarried
    <2> QED  BY <1>1, <1>3, <1>5, <1>6, <2>1, RollBackStep
  <1>7. CASE StartTargeted(t)  BY <1>1, <1>3, <1>4, <1>7, StartTargetedStep
  <1> QED  BY <1>1, <1>6, <1>7

LEMMA FailStageStep ==
    ASSUME Inv, turn.at \in {"targeted", "full"}, FailStage
    PROVE  Kept
  <1>1. turn.at \in LoopPoints /\ (Hands => turn.hand \subseteq task.changed /\ turn.patched = {})
    BY DEF Hands, LoopPoints
  <1>2. CASE LoopFails(task, turn.known)  BY <1>1, <1>2, OwnRow, OwnCarried, LoopFailsStep
  <1>3. CASE RollBack([task EXCEPT !.phase = "analyze_failure"], "validation_failed", OnRecord(task))
    <2> DEFINE t == [task EXCEPT !.phase = "analyze_failure"]
               known == OnRecord(task)
    <2>1. SameRow(task, t) /\ t.changed = task.changed
      BY OwnRow, WithPhase DEF Phases
    <2>2. RollBack(t, "validation_failed", known)  BY <1>3
    <2>3. "validation_failed" \in Outcomes \ {"completed"}  BY DEF Outcomes
    <2> HIDE DEF t, known
    <2>4. Carried(t, "validation_failed") /\ Carried(t, "failed")  BY <1>1, <2>1, AllCarried
    <2> QED  BY <1>1, <2>1, <2>2, <2>3, <2>4, RollBackStep
  <1>4. CASE turn.attempt < MaxRevisions /\ Revise(turn.attempt + 1)
    <2> DEFINE known == OnRecord(task)
               attempt == turn.attempt + 1
    <2>1. attempt \in 0..MaxRevisions  BY <1>4, OwnRow, BoundsAssumption DEF Turn
    <2>2. /\ task' = [task EXCEPT !.phase = "revise"]
          /\ turn' = [turn EXCEPT !.at = "candidate", !.attempt = attempt, !.known = known]
          /\ UNCHANGED <<disk, edits, proved, run, post, remote>>
      BY <1>4 DEF Revise
    <2>3. known \in BOOLEAN  BY OnRecordBoolean
    <2> HIDE DEF known, attempt
    <2>4. SameRow(task, task') /\ task'.changed = task.changed
      BY <2>2, OwnRow, WithPhase DEF Phases
    <2>5. /\ turn' \in Turn /\ turn'.run = turn.run /\ turn'.at = "candidate"
          /\ turn'.hand = turn.hand /\ turn'.patched = turn.patched
      BY <2>1, <2>2, <2>3, OwnRow DEF Turn, Points, LoopPoints
    <2>6. turn'.at \in LoopPoints  BY <2>5 DEF LoopPoints
    <2>7. Hands => Hands'  BY <1>1, <2>4, <2>5, <2>6 DEF Hands
    <2> QED  BY <1>1, <2>2, <2>4, <2>5, <2>6, <2>7, GoesOn
  <1> QED  BY <1>2, <1>3, <1>4 DEF FailStage, GiveUp

LEMMA PassTargetedStep == ASSUME Inv, PassTargeted PROVE Kept
  <1> DEFINE known == OnRecord(task)
  <1>1. turn.at = "targeted" /\ turn.at \in LoopPoints  BY DEF PassTargeted, LoopPoints
  <1>2. CASE LoopFails(task, turn.known)  BY <1>1, <1>2, OwnRow, OwnCarried, LoopFailsStep
  <1>3. CASE /\ task' = [task EXCEPT !.phase = "full_validation"]
             /\ turn' = [turn EXCEPT !.at = "full", !.known = known]
             /\ UNCHANGED <<disk, edits, proved, run, post, remote>>
    <2>1. known \in BOOLEAN  BY OnRecordBoolean
    <2> HIDE DEF known
    <2>2. SameRow(task, task') /\ task'.changed = task.changed
      BY <1>3, OwnRow, WithPhase DEF Phases
    <2>3. /\ turn' \in Turn /\ turn'.run = turn.run /\ turn'.at = "full"
          /\ turn'.hand = turn.hand /\ turn'.patched = turn.patched
      BY <1>3, <2>1, OwnRow DEF Turn, Points, LoopPoints
    <2>4. turn'.at \in LoopPoints  BY <2>3 DEF LoopPoints
    <2>5. Hands => Hands'  BY <1>1, <2>2, <2>3, <2>4 DEF Hands
    <2> QED  BY <1>1, <1>3, <2>2, <2>3, <2>4, <2>5, GoesOn
  <1> QED  BY <1>2, <1>3 DEF PassTargeted

LEMMA PassFullStep == ASSUME Inv, PassFull PROVE Kept
  <1> DEFINE t == [task EXCEPT !.phase = "summarize", !.status = "completed"]
  <1>1. turn.at = "full" /\ turn.at \in LoopPoints  BY DEF PassFull, LoopPoints
  <1>2. CASE LoopFails(task, turn.known)  BY <1>1, <1>2, OwnRow, OwnCarried, LoopFailsStep
  <1>3. CASE CanEnter(task, "summarize") /\ EndKept(t, "completed") /\ proved' = TRUE
    <2>1. SameRow(task, t) /\ t.changed = task.changed /\ t.status = "completed"
      BY OwnRow, WithBoth DEF Phases, Statuses
    <2>2. task.status = "active"  BY <1>3 DEF CanEnter
    <2> HIDE DEF t
    <2>3. Carried(t, "completed")  BY <1>1, <2>1, AllCarried DEF Hands
    <2>4. "completed" \in Outcomes /\ proved' \in BOOLEAN  BY <1>3 DEF Outcomes
    <2> QED  BY <1>1, <1>3, <2>1, <2>2, <2>3, <2>4, EndKeptStep
  <1> QED  BY <1>2, <1>3 DEF PassFull

LEMMA DeferStageStep == ASSUME Inv, DeferStage PROVE Kept
  <1>1. /\ turn.at \in {"targeted", "full"} /\ turn.at \in LoopPoints
        /\ EndKept(task, "remote_required") /\ UNCHANGED proved
    BY DEF DeferStage, LoopPoints
  <1>2. "remote_required" \in Outcomes /\ proved' \in BOOLEAN
    BY <1>1 DEF Outcomes, Inv, TypeOK
  <1>3. Carried(task, "remote_required")  BY <1>1, AllCarried DEF Hands
  <1> QED  BY <1>1, <1>2, <1>3, OwnRow, EndKeptStep

-----------------------------------------------------------------------------
(* The Host, the postflights and the rest *)

\* A step of another that leaves the workspace alone.
LEMMA ElsewhereStep ==
    ASSUME Inv, SameRow(task, task'), UNCHANGED <<turn, disk, edits, proved>>,
           run' \in [Runs -> Run], post' \in [Posts -> Post], remote' \subseteq [Files -> Content],
           Alone /\ turn.at \in LoopPoints => task'.changed = task.changed
    PROVE  Kept
  <1>1. disk' \in [Files -> Content] /\ edits' \in 0..MaxEdits /\ proved' \in BOOLEAN
    BY DEF Inv, TypeOK
  <1> QED  BY <1>1, OutsideStep

LEMMA HostStep == ASSUME Inv, Host PROVE Kept
  <1>1. UNCHANGED <<task, run, turn, post, remote>>  BY DEF Host, HostValidates, HostEdits
  <1>2. disk' \in [Files -> Content] /\ edits' \in 0..MaxEdits /\ proved' \in BOOLEAN
    <2>1. CASE HostValidates  BY <2>1 DEF HostValidates, Inv, TypeOK
    <2>2. CASE \E f \in Files : HostEdits(f)  BY <2>2, Edited DEF HostEdits, Inv
    <2> QED  BY <2>1, <2>2 DEF Host
  <1>3. /\ SameRow(task, task') /\ run' \in [Runs -> Run] /\ post' \in [Posts -> Post]
        /\ remote' \subseteq [Files -> Content]
    BY <1>1 DEF Inv, TypeOK, SameRow
  <1> QED  BY <1>1, <1>2, <1>3, OutsideStep

\* A postflight that is to be settled, or is over.
LEMMA PostType ==
    ASSUME Inv, NEW h \in Posts, NEW p \in Post, post' = [post EXCEPT ![h] = p]
    PROVE  post' \in [Posts -> Post]
  BY DEF Inv, TypeOK

LEMMA IdleType == Idle \in Post /\ \A r \in Runs \cup {Null} :
                      [Idle EXCEPT !.at = "settle", !.run = r] \in Post
  <1>1. Unseen \in Seen  BY DEF Unseen, Seen, Statuses
  <1>2. Idle \in Post  BY <1>1 DEF Idle, Post
  <1> QED  BY <1>2 DEF Post

LEMMA PostflightOpens ==
    ASSUME Inv, NEW h \in Posts, NEW r \in Runs,
           PostflightUnrecorded(h, r) \/ PostflightUnseen(h, r)
    PROVE  Kept
  <1> DEFINE p == [Idle EXCEPT !.at = "settle", !.run = r]
  <1>1. /\ task' = task \/ task' = [task EXCEPT !.status = "blocked"]
        /\ post' = [post EXCEPT ![h] = p]
        /\ UNCHANGED <<disk, edits, proved, run, turn, remote>>
    BY DEF PostflightUnrecorded, PostflightUnseen
  <1>2. p \in Post  BY IdleType
  <1> HIDE DEF p
  <1>3. post' \in [Posts -> Post]  BY <1>1, <1>2, PostType
  <1>4. SameRow(task, task') /\ task'.changed = task.changed
    <2>1. task \in Task /\ "blocked" \in Statuses  BY DEF Inv, TypeOK, Statuses
    <2>2. CASE task' = task  BY <2>2, OwnRow
    <2>3. CASE task' = [task EXCEPT !.status = "blocked"]  BY <2>1, <2>3, WithStatus
    <2> QED  BY <1>1, <2>2, <2>3
  <1>5. run' \in [Runs -> Run] /\ remote' \subseteq [Files -> Content]
    BY <1>1 DEF Inv, TypeOK
  <1> QED  BY <1>1, <1>3, <1>4, <1>5, ElsewhereStep

LEMMA PostflightRecordStep ==
    ASSUME Inv, NEW h \in Posts, NEW r \in Runs, NEW files \in SUBSET Files,
           NEW hostValidated \in BOOLEAN, PostflightRecord(h, r, files, hostValidated)
    PROVE  Kept
  <1> DEFINE validated == hostValidated \/ LoopValidated(r)
             seen == Look
             p == [at |-> "record", run |-> r, files |-> files, seen |-> seen,
                   validated |-> validated]
  <1>1. /\ task' = Recording /\ post' = [post EXCEPT ![h] = p]
        /\ UNCHANGED <<disk, edits, proved, run, turn, remote>>
    BY DEF PostflightRecord
  <1>2. validated \in BOOLEAN /\ seen \in Seen  BY OwnRow, LookSeen DEF LoopValidated
  <1> HIDE DEF validated, seen
  <1>3. p \in Post  BY <1>2 DEF Post
  <1> HIDE DEF p
  <1>4. post' \in [Posts -> Post]  BY <1>1, <1>3, PostType
  <1>5. SameRow(task, task') /\ task'.changed = task.changed  BY <1>1, OwnRow, RecordingRow
  <1>6. run' \in [Runs -> Run] /\ remote' \subseteq [Files -> Content]
    BY <1>1 DEF Inv, TypeOK
  <1> QED  BY <1>1, <1>4, <1>5, <1>6, ElsewhereStep

LEMMA PostflightReconcileStep ==
    ASSUME Inv, NEW h \in Posts, NEW violations \in Found(Violations),
           PostflightReconcile(h, violations)
    PROVE  Kept
  <1> DEFINE t == Recorded(post[h].seen, post[h].files, violations)
             p == [Idle EXCEPT !.at = "settle", !.run = post[h].run]
  <1>1. /\ task' = t \/ task' = [t EXCEPT !.phase = "summarize", !.status = "completed"]
        /\ post' = [post EXCEPT ![h] = p]
        /\ UNCHANGED <<disk, edits, proved, run, turn, remote>>
    BY DEF PostflightReconcile
  <1>2. /\ post[h].seen \in Seen /\ post[h].files \in SUBSET Files
        /\ post[h].run \in Runs \cup {Null}
    BY DEF Inv, TypeOK, Post
  <1>3. SameRow(task, t)  BY <1>2, OwnRow, RecordedRow
  <1>4. p \in Post  BY <1>2, IdleType
  <1> HIDE DEF p, t
  <1>5. post' \in [Posts -> Post]  BY <1>1, <1>4, PostType
  <1>6. SameRow(task, task')
    <2>1. t \in Task  BY <1>3 DEF SameRow
    <2>2. SameRow(t, [t EXCEPT !.phase = "summarize", !.status = "completed"])
      BY <2>1, WithBoth DEF Phases, Statuses
    <2> QED  BY <1>1, <1>3, <2>2, SameRowChain
  <1>7. turn.at \in LoopPoints => ~Alone  BY DEF Alone
  <1>8. run' \in [Runs -> Run] /\ remote' \subseteq [Files -> Content]
    BY <1>1 DEF Inv, TypeOK
  <1> QED  BY <1>1, <1>5, <1>6, <1>7, <1>8, ElsewhereStep

LEMMA PostflightSettleStep ==
    ASSUME Inv, NEW h \in Posts, NEW status \in {"done", "over"}, NEW stored \in BOOLEAN,
           PostflightSettle(h, status, stored)
    PROVE  Kept
  <1> DEFINE r == post[h].run
  <1>1. /\ run' = [run EXCEPT ![r].status = status, ![r].stored = stored]
        /\ post' = [post EXCEPT ![h] = Idle]
        /\ UNCHANGED <<task, disk, edits, proved, turn, remote>>
    BY DEF PostflightSettle
  <1> HIDE DEF r
  <1>2. post' \in [Posts -> Post]  BY <1>1, IdleType, PostType
  <1>3. run' \in [Runs -> Run]
    <2>1. run \in [Runs -> Run]  BY DEF Inv, TypeOK
    <2>2. CASE r \in Runs
      <3>1. [run[r] EXCEPT !.status = status] \in Run  BY <2>1, <2>2 DEF Run
      <3> DEFINE rs == [run EXCEPT ![r].status = status]
      <3>2. rs \in [Runs -> Run] /\ run' = [rs EXCEPT ![r].stored = stored]
        BY <1>1, <2>1, <2>2, <3>1
      <3> HIDE DEF rs
      <3>3. [rs[r] EXCEPT !.stored = stored] \in Run  BY <2>2, <3>2 DEF Run
      <3> QED  BY <2>2, <3>2, <3>3
    <2>3. CASE r \notin Runs  BY <1>1, <2>1, <2>3
    <2> QED  BY <2>2, <2>3
  <1>4. SameRow(task, task') /\ task'.changed = task.changed  BY <1>1, OwnRow
  <1>5. remote' \subseteq [Files -> Content]  BY <1>1 DEF Inv, TypeOK
  <1> QED  BY <1>1, <1>2, <1>3, <1>4, <1>5, ElsewhereStep

LEMMA PostflightStep == ASSUME Inv, NEW h \in Posts, Postflight(h) PROVE Kept
  BY PostflightOpens, PostflightRecordStep, PostflightReconcileStep, PostflightSettleStep
     DEF Postflight

LEMMA AbortRunStep == ASSUME Inv, NEW r \in Runs, AbortRun(r) PROVE Kept
  <1>1. /\ run' = Abandoned({r}) /\ task' = CancelOf(task, r)
        /\ UNCHANGED <<disk, edits, proved, turn, post, remote>>
    BY DEF AbortRun
  <1>2. SameRow(task, task') /\ task'.changed = task.changed  BY <1>1, OwnRow, CancelOfRow
  <1>3. run' \in [Runs -> Run] /\ post' \in [Posts -> Post] /\ remote' \subseteq [Files -> Content]
    BY <1>1, AbandonedRuns DEF Inv, TypeOK
  <1> QED  BY <1>1, <1>2, <1>3, ElsewhereStep

LEMMA ReconcileRunsStep ==
    ASSUME Inv, NEW expired \in SUBSET Runs, ReconcileRuns(expired)
    PROVE  Kept
  <1>1. /\ run' = Abandoned(expired) /\ task' = Reconciled(task, run')
        /\ UNCHANGED <<disk, edits, proved, turn, post, remote>>
    BY DEF ReconcileRuns
  <1>2. SameRow(task, task') /\ task'.changed = task.changed  BY <1>1, OwnRow, ReconciledRow
  <1>3. run' \in [Runs -> Run] /\ post' \in [Posts -> Post] /\ remote' \subseteq [Files -> Content]
    BY <1>1, AbandonedRuns DEF Inv, TypeOK
  <1> QED  BY <1>1, <1>2, <1>3, ElsewhereStep

LEMMA RestartStep == ASSUME Inv, Restart PROVE Kept
  <1>1. /\ run' = Abandoned(Runs) /\ task' = Reconciled(task, run')
        /\ turn' = IF turn.at = "host" THEN turn ELSE NoTurn
        /\ post' = [h \in Posts |-> Idle] /\ remote' = {}
        /\ UNCHANGED <<disk, edits, proved>>
    BY DEF Restart
  <1>2. SameRow(task, task') /\ task'.changed = task.changed  BY <1>1, OwnRow, ReconciledRow
  <1>3. /\ run' \in [Runs -> Run] /\ post' \in [Posts -> Post] /\ remote' \subseteq [Files -> Content]
        /\ turn' \in Turn
    BY <1>1, AbandonedRuns, IdleType, NoTurnType, OwnRow DEF Inv
  <1>4. TypeOK'  BY <1>1, <1>2, <1>3 DEF TypeOK, Inv, SameRow
  <1>5. turn' = NoTurn \/ (turn.at = "host" /\ turn' = turn)  BY <1>1
  <1>6. Held'  BY <1>2, <1>5 DEF Held, Inv, SameRow, NoTurn
  <1>7. Hands => Hands'  BY <1>5 DEF Hands, NoTurn, LoopPoints
  <1>8. ~LoopOver  BY <1>5 DEF LoopOver, NoTurn, LoopPoints
  <1>9. RollbackStep  BY <1>2 DEF RollbackStep, SameRow
  <1> QED  BY <1>4, <1>6, <1>7, <1>8, <1>9 DEF Kept, Inv, CompleteStep, HandStep

LEMMA SendRemoteStep == ASSUME Inv, SendRemote PROVE Kept
  <1>1. remote' = {disk} /\ UNCHANGED <<task, disk, edits, proved, run, turn, post>>
    BY DEF SendRemote
  <1>2. run' \in [Runs -> Run] /\ post' \in [Posts -> Post] /\ remote' \subseteq [Files -> Content]
    BY <1>1 DEF Inv, TypeOK
  <1>3. SameRow(task, task') /\ task'.changed = task.changed  BY <1>1, OwnRow
  <1> QED  BY <1>1, <1>2, <1>3, ElsewhereStep

LEMMA ReceiveRemoteStep == ASSUME Inv, NEW passed \in BOOLEAN, ReceiveRemote(passed) PROVE Kept
  <1>1. /\ \/ task' = task
           \/ task' = [task EXCEPT !.phase = "summarize", !.status = "completed"]
           \/ task' = [task EXCEPT !.phase = "analyze_failure"]
        /\ remote' = {} /\ proved' \in BOOLEAN
        /\ UNCHANGED <<disk, edits, run, turn, post>>
    BY DEF ReceiveRemote
  <1>2. SameRow(task, task') /\ task'.changed = task.changed
    <2>1. CASE task' = task  BY <2>1, OwnRow
    <2>2. CASE task' = [task EXCEPT !.phase = "summarize", !.status = "completed"]
      BY <2>2, OwnRow, WithBoth DEF Phases, Statuses
    <2>3. CASE task' = [task EXCEPT !.phase = "analyze_failure"]
      BY <2>3, OwnRow, WithPhase DEF Phases
    <2> QED  BY <1>1, <2>1, <2>2, <2>3
  <1>3. /\ run' \in [Runs -> Run] /\ post' \in [Posts -> Post] /\ remote' \subseteq [Files -> Content]
        /\ disk' \in [Files -> Content] /\ edits' \in 0..MaxEdits
    BY <1>1 DEF Inv, TypeOK
  <1> QED  BY <1>1, <1>2, <1>3, OutsideStep

-----------------------------------------------------------------------------
(* The specification *)

LEMMA Initial == Init => Inv /\ Hands
  <1> SUFFICES ASSUME Init PROVE Inv /\ Hands  OBVIOUS
  <1> DEFINE base == [f \in {} |-> 0]
  <1>1. base \in UNION {[S -> Content] : S \in SUBSET Files}
    <2>1. base \in [{} -> Content]  OBVIOUS
    <2> QED  BY <2>1
  <1>2. task = [status |-> "absent", phase |-> "inspect", run |-> Null, changed |-> {},
                saved |-> FALSE, base |-> base]
    BY DEF Init
  <1> HIDE DEF base
  <1>3. task \in Task  BY <1>1, <1>2 DEF Task, Statuses, Phases
  <1>4. 0 \in Content /\ edits \in 0..MaxEdits  BY BoundsAssumption DEF Init, Content
  <1>5. disk \in [Files -> Content]  BY <1>4 DEF Init
  <1>6. [status |-> "none", stored |-> FALSE, outcome |-> Null] \in Run  BY DEF Run, Outcomes
  <1>7. run \in [Runs -> Run] /\ post \in [Posts -> Post] /\ turn \in Turn
    BY <1>6, IdleType, NoTurnType DEF Init
  <1>8. proved \in BOOLEAN /\ remote \subseteq [Files -> Content]  BY DEF Init
  <1>9. TypeOK  BY <1>3, <1>4, <1>5, <1>7, <1>8 DEF TypeOK
  <1>10. turn = NoTurn  BY DEF Init
  <1>11. Held /\ Hands  BY <1>10 DEF Held, Hands, NoTurn, LoopPoints
  <1> QED  BY <1>9, <1>11 DEF Inv

LEMMA StutterStep == ASSUME Inv, UNCHANGED vars PROVE Kept
  <1>1. UNCHANGED <<task, disk, edits, proved, run, turn, post, remote>>  BY DEF vars
  <1>2. run' \in [Runs -> Run] /\ post' \in [Posts -> Post] /\ remote' \subseteq [Files -> Content]
    BY <1>1 DEF Inv, TypeOK
  <1>3. SameRow(task, task') /\ task'.changed = task.changed  BY <1>1, OwnRow
  <1> QED  BY <1>1, <1>2, <1>3, ElsewhereStep

LEMMA StepKept == Inv /\ [Next]_vars => Kept
  <1> SUFFICES ASSUME Inv, [Next]_vars PROVE Kept  OBVIOUS
  <1>1. CASE Prepare
    BY <1>1, BeginTurnStep, ReuseCheckpointStep, SaveCheckpointStep, PreflightFailsStep,
       SkipLoopStep, TakeSnapshotStep DEF Prepare
  <1>2. CASE Loop
    <2>1. CASE WorkerFails \/ PlanPatch \/ ReceiveNothing
      BY <2>1, WorkerFailsStep, PlanPatchStep, ReceiveNothingStep
    <2>2. CASE \E files \in SUBSET Files : ReceiveCandidate(files)
      BY <2>2, ReceiveCandidateStep
    <2>3. CASE \E f \in Files : ApplyPatch(f)  BY <2>3, ApplyPatchStep
    <2>4. CASE RefusePatch \/ RecordCandidate \/ ValidateUnchanged
      BY <2>4, RefusePatchStep, RecordCandidateStep, ValidateUnchangedStep
    <2>5. CASE \E violations \in Found(Violations \ {"unrelated_file"}) : EvaluatePolicy(violations)
      BY <2>5, EvaluatePolicyStep
    <2>6. CASE FailTargeted \/ FailFull
      BY <2>6, FailStageStep DEF FailTargeted, FailFull
    <2>7. CASE PassTargeted \/ PassFull \/ DeferStage
      BY <2>7, PassTargetedStep, PassFullStep, DeferStageStep
    <2> QED  BY <1>2, <2>1, <2>2, <2>3, <2>4, <2>5, <2>6, <2>7 DEF Loop
  <1>3. CASE StartLoop \/ Host  BY <1>3, StartLoopStep, HostStep
  <1>4. CASE \E h \in Posts : Postflight(h)  BY <1>4, PostflightStep
  <1>5. CASE \E r \in Runs : AbortRun(r)  BY <1>5, AbortRunStep
  <1>6. CASE \E expired \in SUBSET Runs : ReconcileRuns(expired)  BY <1>6, ReconcileRunsStep
  <1>7. CASE Restart \/ SendRemote \/ \E passed \in BOOLEAN : ReceiveRemote(passed)
    BY <1>7, RestartStep, SendRemoteStep, ReceiveRemoteStep
  <1>8. CASE UNCHANGED vars  BY <1>8, StutterStep
  <1> QED  BY <1>1, <1>2, <1>3, <1>4, <1>5, <1>6, <1>7, <1>8 DEF Next

LEMMA Invariance == Spec => []Inv
  <1>1. Inv /\ [Next]_vars => Inv'  BY StepKept DEF Kept
  <1>2. Init => Inv  BY Initial
  <1> QED  BY <1>1, <1>2, PTL DEF Spec

-----------------------------------------------------------------------------
(* The status of the task *)

\* A task that is not active keeps its status, is blocked, or gets the status that
\* a record saw before its await; an absent one is created.
StatusStep ==
    \/ task'.status \in {task.status, "blocked"}
    \/ task.status = "active"
    \/ task.status = "absent" /\ task'.status = "active"
    \/ LateRecord

LEMMA StatusOf ==
    ASSUME NEW t \in Task
    PROVE  /\ RolledBack(t).status = t.status
           /\ \A phase \in Phases : [t EXCEPT !.phase = phase].status = t.status
  BY DEF RolledBack, Task

LEMMA LoopFailsStatus == ASSUME NEW t \in Task, NEW known, LoopFails(t, known)
                         PROVE  task'.status = t.status /\ turn'.at = "host"
  <1>1. CASE EndRestored(t, "failed") \/ EndStuck(t)
    <2>1. (task' = RolledBack(t) \/ task' = t) /\ HandOver("failed")
      BY <1>1 DEF EndRestored, EndStuck
    <2> QED  BY <2>1, StatusOf DEF HandOver, NoTurn
  <1>2. CASE EndKept(t, "failed")  BY <1>2 DEF EndKept, HandOver, NoTurn
  <1> QED  BY <1>1, <1>2 DEF LoopFails

LEMMA RollBackStatus ==
    ASSUME NEW t \in Task, NEW outcome, NEW known, RollBack(t, outcome, known)
    PROVE  task'.status = t.status /\ turn'.at = "host"
  <1>1. PICK o : (task' = RolledBack(t) \/ task' = t) /\ HandOver(o)
    BY DEF RollBack, EndRestored, EndStuck
  <1> QED  BY <1>1, StatusOf DEF HandOver, NoTurn

LEMMA StartTargetedStatus == ASSUME NEW t \in Task, StartTargeted(t)
                             PROVE  task'.status = t.status /\ turn'.at # "record"
  <1>1. CASE LoopFails(t, OnRecord(t))  BY <1>1, LoopFailsStatus
  <1>2. CASE ~LoopFails(t, OnRecord(t))
    <2>1. /\ task' = [t EXCEPT !.phase = "targeted_validation"]
          /\ turn' = [turn EXCEPT !.at = "targeted", !.patched = {}, !.seen = Unseen,
                                  !.known = OnRecord(t)]
      BY <1>2 DEF StartTargeted
    <2> QED  BY <2>1
  <1> QED  BY <1>1, <1>2

\* What recordCodexPatch writes back.
LEMMA RecordedStatus ==
    ASSUME task \in Task, NEW seen, NEW files, NEW violations
    PROVE  Recorded(seen, files, violations).status \in {seen.status, "blocked"}
  BY DEF Recorded, Task

LEMMA EvaluatePolicyStatus ==
    ASSUME Inv, NEW violations, EvaluatePolicy(violations)
    PROVE  StatusStep
  <1> DEFINE t == Recorded(turn.seen, turn.patched, violations)
  <1>1. turn.at = "record" /\ (RollBack(t, "blocked", turn.known) \/ StartTargeted(t))
    BY DEF EvaluatePolicy
  <1>2. turn.seen \in Seen /\ turn.patched \in SUBSET Files  BY OwnRow DEF Turn
  <1>3. t \in Task  BY <1>2, OwnRow, RecordedRow DEF SameRow
  <1>4. t.status \in {turn.seen.status, "blocked"}  BY OwnRow, RecordedStatus
  <1> HIDE DEF t
  <1>5. task'.status = t.status /\ turn'.at # "record"
    BY <1>1, <1>3, RollBackStatus, StartTargetedStatus
  <1> QED  BY <1>1, <1>4, <1>5 DEF StatusStep, LateRecord

LEMMA ReconcileStatus ==
    ASSUME Inv, NEW h \in Posts, NEW violations, PostflightReconcile(h, violations)
    PROVE  StatusStep
  <1> DEFINE t == Recorded(post[h].seen, post[h].files, violations)
             p == [Idle EXCEPT !.at = "settle", !.run = post[h].run]
  <1>1. /\ post[h].at = "record" /\ post' = [post EXCEPT ![h] = p]
        /\ \/ task' = t
           \/ t.status = "active" /\ task' = [t EXCEPT !.phase = "summarize", !.status = "completed"]
    BY DEF PostflightReconcile
  <1>2. post'[h].at = "settle"  BY <1>1 DEF Inv, TypeOK, Idle
  <1>3. t.status \in {post[h].seen.status, "blocked"}  BY OwnRow, RecordedStatus
  <1> HIDE DEF t
  <1>4. task'.status \in {t.status, "blocked"} \/ t.status = "active"  BY <1>1
  <1> QED  BY <1>1, <1>2, <1>3, <1>4 DEF StatusStep, LateRecord

LEMMA LoopStatus == Inv /\ Loop => StatusStep
  <1> SUFFICES ASSUME Inv, Loop PROVE StatusStep  OBVIOUS
  <1>1. task \in Task  BY OwnRow
  <1>2. CASE \E known \in BOOLEAN : LoopFails(task, known)
    BY <1>1, <1>2, LoopFailsStatus DEF StatusStep
  <1>3. CASE task' = task  BY <1>3 DEF StatusStep
  <1>4. turn.known \in BOOLEAN  BY OwnRow DEF Turn
  <1>5. CASE WorkerFails \/ PlanPatch \/ ReceiveNothing
    <2>1. CASE RollBack(task, "no_change", TRUE)  BY <1>1, <2>1, RollBackStatus DEF StatusStep
    <2> QED  BY <1>2, <1>3, <1>4, <1>5, <2>1 DEF WorkerFails, PlanPatch, ReceiveNothing, EndKept
  <1>6. CASE \E files \in SUBSET Files : ReceiveCandidate(files)
    BY <1>3, <1>6 DEF ReceiveCandidate
  <1>7. CASE \E f \in Files : ApplyPatch(f)  BY <1>3, <1>7 DEF ApplyPatch
  <1>8. CASE RefusePatch \/ RecordCandidate
    <2>1. CASE task' = Recording
      BY <1>1, <2>1 DEF Recording, Task, StatusStep
    <2> QED  BY <1>2, <1>4, <1>8, <2>1 DEF RefusePatch, RecordCandidate
  <1>9. CASE ValidateUnchanged
    BY <1>1, <1>9, StartTargetedStatus DEF ValidateUnchanged, StatusStep
  <1>10. CASE \E violations \in Found(Violations \ {"unrelated_file"}) : EvaluatePolicy(violations)
    BY <1>10, EvaluatePolicyStatus
  <1>11. CASE FailTargeted \/ FailFull \/ PassTargeted \/ PassFull
    <2>1. CASE \E phase \in Phases : CanEnter(task, phase)
      BY <2>1 DEF CanEnter, StatusStep
    <2>2. CASE LoopFails(task, turn.known)  BY <1>2, <1>4, <2>2
    <2> QED  BY <1>11, <2>1, <2>2
         DEF FailTargeted, FailFull, PassTargeted, PassFull, FailStage, GiveUp, Revise, Phases
  <1>12. CASE DeferStage  BY <1>3, <1>12 DEF DeferStage, EndKept
  <1> QED  BY <1>5, <1>6, <1>7, <1>8, <1>9, <1>10, <1>11, <1>12 DEF Loop

LEMMA PrepareStatus == Inv /\ Prepare => StatusStep
  <1> SUFFICES ASSUME Inv, Prepare PROVE StatusStep  OBVIOUS
  <1>1. task \in Task  BY OwnRow
  <1>2. CASE \E r \in Runs, expired \in SUBSET Runs, sweep \in BOOLEAN : BeginTurn(r, expired, sweep)
    <2>1. task' = task \/ task' = Reconciled(task, run')  BY <1>2 DEF BeginTurn
    <2> QED  BY <2>1 DEF Reconciled, Inactive, StatusStep
  <1>3. CASE ReuseCheckpoint \/ \E snap \in SUBSET Files : TakeSnapshot(snap)
    <2>1. Bound.status = IF task.status = "absent" THEN "active" ELSE task.status
      BY <1>1 DEF Bound, Task
    <2>2. Bound \in Task  BY OwnRow, BoundRow
    <2>3. task'.status = Bound.status
      <3>1. task' = Bound \/ \E snap \in SUBSET Files : task' = [Bound EXCEPT !.base = [f \in snap |-> disk[f]]]
        BY <1>3 DEF ReuseCheckpoint, TakeSnapshot
      <3> HIDE DEF Bound
      <3> QED  BY <2>2, <3>1 DEF Task
    <2> QED  BY <2>1, <2>3 DEF StatusStep
  <1>4. CASE SaveCheckpoint \/ PreflightFails \/ SkipLoop
    BY <1>1, <1>4 DEF SaveCheckpoint, PreflightFails, SkipLoop, Task, StatusStep
  <1> QED  BY <1>2, <1>3, <1>4 DEF Prepare

LEMMA StatusKept == Inv /\ [Next]_vars => StatusStep
  <1> SUFFICES ASSUME Inv, [Next]_vars PROVE StatusStep  OBVIOUS
  <1>1. task \in Task  BY OwnRow
  <1>2. CASE task' = task  BY <1>2 DEF StatusStep
  <1>3. CASE StartLoop \/ Host \/ UNCHANGED vars
    BY <1>2, <1>3 DEF StartLoop, Host, HostEdits, HostValidates, vars
  <1>4. CASE \E h \in Posts : Postflight(h)
    <2> SUFFICES ASSUME NEW h \in Posts, Postflight(h) PROVE StatusStep  BY <1>4
    <2>1. CASE \E r \in Runs : PostflightUnrecorded(h, r) \/ PostflightUnseen(h, r)
      BY <1>1, <2>1 DEF PostflightUnrecorded, PostflightUnseen, Task, StatusStep
    <2>2. CASE \E r \in Runs, files \in SUBSET Files, ok \in BOOLEAN : PostflightRecord(h, r, files, ok)
      <3>1. task' = Recording  BY <2>2 DEF PostflightRecord
      <3> QED  BY <1>1, <3>1 DEF Recording, Task, StatusStep
    <2>3. CASE \E violations \in Found(Violations) : PostflightReconcile(h, violations)
      BY <2>3, ReconcileStatus
    <2>4. CASE \E status \in {"done", "over"}, stored \in BOOLEAN : PostflightSettle(h, status, stored)
      BY <1>2, <2>4 DEF PostflightSettle
    <2> QED  BY <2>1, <2>2, <2>3, <2>4 DEF Postflight
  <1>5. CASE \E r \in Runs : AbortRun(r)  BY <1>5 DEF AbortRun, CancelOf, StatusStep
  <1>6. CASE Restart \/ \E expired \in SUBSET Runs : ReconcileRuns(expired)
    BY <1>6 DEF Restart, ReconcileRuns, Reconciled, Inactive, StatusStep
  <1>7. CASE SendRemote \/ \E passed \in BOOLEAN : ReceiveRemote(passed)
    BY <1>2, <1>7 DEF SendRemote, ReceiveRemote, StatusStep
  <1> QED  BY <1>3, <1>4, <1>5, <1>6, <1>7, LoopStatus, PrepareStatus DEF Next

-----------------------------------------------------------------------------
(* Theorems *)

\* The row of the task, the runs, the turn and the postflights have their types: the
\* loop asks for no more revisions than it may.
THEOREM TypeCorrect == Spec => []TypeOK
  <1>1. Inv => TypeOK  BY DEF Inv
  <1> QED  BY Invariance, <1>1, PTL

\* The rollback point is taken once: no later turn, failed preflight, postflight or
\* restart replaces what the files were before the task was first worked on
\* (createCodingCheckpoint, prepareCodexExecution).
THEOREM RollbackPointKeptHolds == Spec => RollbackPointKept
  <1>1. Inv /\ [Next]_vars => [task.saved => task'.saved /\ task'.base = task.base]_vars
    BY StepKept DEF Kept, RollbackStep
  <1> QED  BY Invariance, <1>1, PTL DEF Spec, RollbackPointKept

\* The loop completes a task that is active, whatever an abort, a reconciliation or
\* a postflight did while the validation ran (transitionCodingTask), and so does a
\* remote validation; a postflight may complete one that it saw active.
THEOREM CompletesActiveHolds == Spec => CompletesActive
  <1> DEFINE Completed ==
          /\ LoopOver /\ Outcome = "completed" => task.status = "active" /\ task'.status = "completed"
          /\ task.status # "completed" /\ task'.status = "completed"
               => task.status = "active" \/ LateRecord
  <1>1. Inv /\ [Next]_vars => [Completed]_vars
    BY StepKept, StatusKept DEF Kept, CompleteStep, StatusStep
  <1>2. [][Completed]_vars => CompletesActive  BY DEF CompletesActive
  <1> HIDE DEF Completed
  <1> QED  BY Invariance, <1>1, <1>2, PTL DEF Spec

\* The abort of the turn under way leaves no active task behind, for any number of
\* turns: from the checkpoint on the task is bound to the turn (prepareCodexExecution,
\* cancelCodingTasksForRun).  What was cancelled is revived by nothing but the
\* write-back of a record that had looked before (recordCodexPatch).
THEOREM AbortReachesHolds == Spec => AbortReaches
  <1> DEFINE Reached ==
          /\ (\E r \in Runs : r = turn.run /\ AbortRun(r)) /\ turn.at \in Points \ {"none", "index"}
               => task'.status # "active"
          /\ task.status = "cancelled" /\ task'.status \notin {"cancelled", "blocked"} => LateRecord
  <1>1. ASSUME Inv, NEW r \in Runs, r = turn.run, AbortRun(r), turn.at \in Points \ {"none", "index"}
        PROVE  task'.status # "active"
    <2>1. task.run = r /\ task \in Task  BY <1>1 DEF Inv, TypeOK, Held
    <2>2. task' = CancelOf(task, r)  BY <1>1 DEF AbortRun
    <2> QED  BY <2>1, <2>2 DEF CancelOf, Task
  <1>2. Inv /\ [Next]_vars => [Reached]_vars  BY <1>1, StatusKept DEF StatusStep
  <1>3. [][Reached]_vars => AbortReaches  BY DEF AbortReaches
  <1> HIDE DEF Reached
  <1> QED  BY Invariance, <1>2, <1>3, PTL DEF Spec

\* While no postflight of an earlier turn goes on from its await under it, the loop
\* ends with every file it wrote on the record of the task or back at the rollback
\* point, also when a rollback stops half way; an error excuses only a file of the
\* candidate that was not on record yet (rollbackCodingCheckpoint): for any number of
\* files and revisions, and whatever aborts, reconciliations, remote results and
\* other postflights come in between.
THEOREM HandRecordedHolds == Spec /\ [][Alone]_vars => HandRecorded
  <1> DEFINE Tracked == LoopOver => \A f \in turn.hand : Accounted(f, Outcome)
  <1>1. Inv /\ Hands /\ [Next]_vars /\ [Alone]_vars => Hands' /\ [Tracked]_vars
    <2> SUFFICES ASSUME Inv, Hands, [Next]_vars, [Alone]_vars
                 PROVE  Hands' /\ [Tracked]_vars
      OBVIOUS
    <2>1. CASE Alone  BY <2>1, StepKept DEF Kept, HandStep
    <2>2. CASE UNCHANGED vars  BY <2>2 DEF vars, Hands
    <2> QED  BY <2>1, <2>2
  <1>2. Init => Hands  BY Initial
  <1>3. [][Tracked]_vars => HandRecorded  BY DEF HandRecorded
  <1> HIDE DEF Tracked
  <1> QED  BY Invariance, <1>1, <1>2, <1>3, PTL DEF Spec

=============================================================================
