-------------------------- MODULE CommandJobProofs --------------------------
(***************************************************************************)
(* The step order of CommandJob, and what rests on it, for every set of    *)
(* routing decisions and any number of pending runs.                       *)
(*                                                                         *)
(* The argument: outside the creation of a job every write of step rows is *)
(* an Advance: it changes open steps only, and a step it starts or commits *)
(* has no open predecessor left.  The lemmas of the first section show     *)
(* what an Advance preserves; the second types the calls; the third shows  *)
(* that every action is an Advance.                                        *)
(***************************************************************************)
EXTENDS CommandJob, TLAPS

-----------------------------------------------------------------------------
(* What an advance of the steps preserves *)

Rows == [Kinds -> [status : StepStatus \cup {"absent"}, evidence : Evidence]]

Advance(st, st2) ==
    \A k \in Kinds :
        \/ st2[k] = st[k]
        \/ /\ IsOpen(st, k) /\ st2[k].status # "absent"
           /\ st2[k].status \in {"running", "done"} => Ready(st2, k)

\* The predecessor rule survives an advance.
LEMMA AdvanceOrdered ==
    ASSUME NEW st, NEW st2, Ordered(st), Advance(st, st2)
    PROVE  Ordered(st2)
BY DEF Ordered, Advance, Ready, IsOpen

\* So does a step's readiness.
LEMMA AdvanceReady ==
    ASSUME NEW st, NEW st2, Advance(st, st2), NEW k \in Kinds, Ready(st, k)
    PROVE  Ready(st2, k)
BY DEF Advance, Ready, IsOpen

\* An advance changes nothing when every step is committed.
LEMMA AdvanceAllDone ==
    ASSUME NEW st, NEW st2, Advance(st, st2), AllDone(st)
    PROVE  AllDone(st2)
BY DEF Advance, AllDone, IsOpen

\* Steps left alone are an advance of themselves.
LEMMA AdvanceSame == ASSUME NEW st PROVE Advance(st, st)
BY DEF Advance

\* Writing one open step is an advance when the rule allows its new status.
LEMMA AdvanceOne ==
    ASSUME NEW st \in Rows, NEW st2 \in Rows, NEW k \in Kinds, IsOpen(st, k),
           \A j \in Kinds \ {k} : st2[j] = st[j],
           st2[k].status # "absent",
           st2[k].status \in {"running", "done"} => Ready(st, k)
    PROVE  Advance(st, st2)
<1>1. Ready(st, k) => Ready(st2, k)
  <2>1. \A j \in Kinds : Rank[j] < Rank[k] => j # k
    BY DEF Rank, Kinds
  <2>2. QED  BY <2>1 DEF Ready, IsOpen
<1>2. QED  BY <1>1 DEF Advance

\* nextIncompleteStep returns an open step without open predecessor, or none.
LEMMA FirstOpenReady ==
    ASSUME NEW st, FirstOpen(st) # Null
    PROVE  FirstOpen(st) \in Kinds /\ IsOpen(st, FirstOpen(st)) /\ Ready(st, FirstOpen(st))
BY DEF FirstOpen

\* nextIncompleteStep returns a kind or nothing.
LEMMA FirstOpenType == ASSUME NEW st PROVE FirstOpen(st) \in Kinds \cup {Null}
BY DEF FirstOpen

-----------------------------------------------------------------------------
(* Types *)

\* What the type of a call leaves open: a call in progress, or an awaited
\* postflight, has its job, and the count of pending runs has room for it.
CallInv ==
    /\ job.status = Null => \A k \in Kinds : steps[k].status = "absent"
    /\ call.at # "idle" \/ pending > 0 => job.status # Null
    /\ call.at \in PreflightPoints => pending < MaxPending
    /\ call.at \in PostflightPoints => pending > 0

USE MaxPendingAssumption

\* A call is idle, or it is a preflight or a postflight at one of its points.
LEMMA CallKinds ==
    ASSUME call \in Calls
    PROVE  /\ call.at = "idle" => call = Idle
           /\ call.at \in PreflightPoints => call \in PreflightCalls
           /\ call.at \in PostflightPoints => call \in PostflightCalls
BY DEF Calls, Idle, PreflightCalls, PostflightCalls, PreflightPoints, PostflightPoints

\* Moving a call to another point of the same handler keeps its inputs.
LEMMA MoveCall ==
    /\ \A p \in PreflightPoints : call \in PreflightCalls =>
            /\ [call EXCEPT !.at = p] \in PreflightCalls
            /\ [call EXCEPT !.at = p].at = p
    /\ \A p \in PostflightPoints : call \in PostflightCalls =>
            /\ [call EXCEPT !.at = p] \in PostflightCalls
            /\ [call EXCEPT !.at = p].at = p
BY DEF PreflightCalls, PostflightCalls

\* Writing one row of steps keeps the type of the table.
LEMMA RowUpdate ==
    ASSUME NEW st \in Rows, NEW k \in Kinds, NEW s \in StepStatus, NEW ev \in Evidence
    PROVE  /\ SetStep(st, k, s, ev) \in Rows
           /\ [st EXCEPT ![k].status = s] \in Rows
BY DEF SetStep, Rows

\* transitionCommandStep derives a job status from every step status.
LEMMA StatusAfterType ==
    ASSUME NEW s, NEW st PROVE StatusAfter(s, st) \in JobStatus
BY DEF StatusAfter, JobStatus

\* A walk through the program points stays in its class of calls.
SameClass(p) ==
    \/ p \in PreflightPoints /\ call.at \in PreflightPoints
    \/ p \in PostflightPoints /\ call.at \in PostflightPoints

\* Continuing at a point of the same handler keeps the types.
LEMMA GotoType ==
    ASSUME TypeOK, NEW p, SameClass(p), Goto(p)
    PROVE  /\ call' \in Calls /\ up' \in BOOLEAN /\ prepared' \in BOOLEAN
           /\ call'.at = p
           /\ call.at # "idle"
<1>1. call' = [call EXCEPT !.at = p] /\ up' = up /\ prepared' = prepared  BY DEF Goto
<1>2. call \in Calls /\ up \in BOOLEAN /\ prepared \in BOOLEAN  BY DEF TypeOK
<1>3. CASE p \in PreflightPoints /\ call.at \in PreflightPoints
  <2>1. call \in PreflightCalls  BY <1>2, <1>3, CallKinds
  <2>2. call' \in PreflightCalls /\ call'.at = p  BY <1>1, <1>3, <2>1, MoveCall
  <2>3. call.at # "idle"  BY <1>3 DEF PreflightPoints
  <2> QED  BY <1>1, <1>2, <2>2, <2>3 DEF Calls
<1>4. CASE p \in PostflightPoints /\ call.at \in PostflightPoints
  <2>1. call \in PostflightCalls  BY <1>2, <1>4, CallKinds
  <2>2. call' \in PostflightCalls /\ call'.at = p  BY <1>1, <1>4, <2>1, MoveCall
  <2>3. call.at # "idle"  BY <1>4 DEF PostflightPoints
  <2> QED  BY <1>1, <1>2, <2>2, <2>3 DEF Calls
<1> QED  BY <1>3, <1>4 DEF SameClass

\* A process exit keeps the types of the call and of the process.
LEMMA ExitType ==
    ASSUME Exit
    PROVE  call' \in Calls /\ up' \in BOOLEAN /\ prepared' \in BOOLEAN /\ call'.at = "idle"
BY DEF Exit, Calls, Idle

\* A point that transitions a step, and one that does not, keep the types.
LEMMA TransitionType ==
    ASSUME TypeOK, CallInv, NEW k \in Kinds, NEW s \in StepStatus, NEW ev \in Evidence,
           NEW p, SameClass(p), TransitionCommandStep(k, s, ev, p)
    PROVE  TypeOK' /\ CallInv'
<1>1. CASE Throw("predecessors")
  <2>1. call'.at = "idle" /\ call' \in Calls
    BY <1>1 DEF Throw, Calls, Idle
  <2>2. call.at # "idle"
    BY DEF SameClass, PreflightPoints, PostflightPoints
  <2>3. QED
    BY <1>1, <2>1, <2>2 DEF Throw, TypeOK, CallInv, PreflightPoints, PostflightPoints
<1>2. CASE WriteStep(k, s, ev, p)
  <2>1. steps' \in Rows
    BY <1>2, RowUpdate DEF WriteStep, TypeOK, Rows
  <2>2. job' \in [status : JobStatus \cup {Null}, active : Kinds \cup {Null}]
    BY <1>2, StatusAfterType, FirstOpenType DEF WriteStep, TypeOK
  <2>3. job.status # Null /\ job'.status # Null
    BY <1>2, StatusAfterType DEF WriteStep, CallInv, SameClass, JobStatus, Null,
       PreflightPoints, PostflightPoints
  <2>4. /\ call' \in Calls /\ up' \in BOOLEAN /\ prepared' \in BOOLEAN
        /\ call'.at = p \/ call'.at = "idle"
    BY <1>2, GotoType, ExitType DEF WriteStep
  <2>5. UNCHANGED <<plan, task, pending, error>>
    BY <1>2 DEF WriteStep
  <2>6. TypeOK'
    BY <2>1, <2>2, <2>4, <2>5 DEF TypeOK, Rows
  <2>7. CallInv'
    BY <2>3, <2>4, <2>5 DEF CallInv, SameClass, PreflightPoints, PostflightPoints
  <2>8. QED  BY <2>6, <2>7
<1>3. QED  BY <1>1, <1>2 DEF TransitionCommandStep

\* A point that transitions nothing keeps the types.
LEMMA SkipType ==
    ASSUME TypeOK, CallInv, NEW p, SameClass(p), Skip(p)
    PROVE  TypeOK' /\ CallInv'
<1>1. /\ call' \in Calls /\ up' \in BOOLEAN /\ prepared' \in BOOLEAN
      /\ call'.at = p /\ call.at # "idle"
  BY GotoType DEF Skip
<1>2. UNCHANGED <<job, steps, plan, task, pending, error>>
  BY DEF Skip
<1>3. QED
  BY <1>1, <1>2 DEF TypeOK, CallInv, SameClass, PreflightPoints, PostflightPoints

JobRows == [status : JobStatus \cup {Null}, active : Kinds \cup {Null}]

\* A call that writes the step rows st2 and the job row j2, or exits before the
\* job is written.
LEMMA CallType ==
    ASSUME TypeOK, CallInv, job.status # Null,
           steps' \in Rows, job' \in JobRows, job'.status # Null,
           call' \in Calls, up' \in BOOLEAN, prepared' \in BOOLEAN,
           call'.at = "idle" \/ SameClass(call'.at),
           task' \in TaskStatus \cup {Null},
           error' \in {error, Null, "lease"}, UNCHANGED <<plan, pending>>
    PROVE  TypeOK' /\ CallInv'
BY DEF TypeOK, CallInv, SameClass, PreflightPoints, PostflightPoints, Rows, JobRows

\* Every step keeps the types.
LEMMA TypeStep ==
    ASSUME TypeOK, CallInv, Next
    PROVE  TypeOK' /\ CallInv'
<1> USE DEF Rows, JobRows
<1>1. CASE PrepareCognitiveTask
  BY <1>1 DEF PrepareCognitiveTask, TypeOK, CallInv, TaskStatus
<1>2. CASE SupersedeCognitiveTask
  BY <1>2 DEF SupersedeCognitiveTask, TypeOK, CallInv, TaskStatus
<1>4. CASE PreflightStep
  <2>0. call.at \in PreflightPoints => SameClass("inspect") /\ SameClass("plan") /\ SameClass("patch")
                        /\ SameClass("approval") /\ SameClass("autoPatch")
                        /\ SameClass("autoValidate") /\ SameClass("saveRun")
    BY DEF SameClass, PreflightPoints
  <2> USE DEF PreflightPoints, Kinds, StepStatus, Evidence
  <2>1. CASE PreflightRoute
    BY <2>0, <2>1, TransitionType, SkipType DEF PreflightRoute, PreflightCommit
  <2>2. CASE PreflightInspect
    BY <2>0, <2>2, TransitionType, SkipType DEF PreflightInspect, PreflightCommit
  <2>3. CASE PreflightPlan
    BY <2>0, <2>3, TransitionType, SkipType DEF PreflightPlan, PreflightCommit
  <2>4. CASE PreflightPatch
    BY <2>0, <2>4, TransitionType, SkipType DEF PreflightPatch
  <2>5. CASE PreflightApproval
    <3>1. job.status # Null /\ call'.at = "autoPatch" /\ SameClass("autoPatch")
      BY <2>0, <2>5, GotoType DEF PreflightApproval, CallInv
    <3>2. job' \in JobRows /\ job'.status # Null
      BY <2>5, <3>1 DEF PreflightApproval, TypeOK, JobStatus, Null
    <3>3. call' \in Calls /\ up' \in BOOLEAN /\ prepared' \in BOOLEAN
      BY <2>5, <3>1, GotoType DEF PreflightApproval
    <3>4. QED
      BY <2>5, <3>1, <3>2, <3>3, CallType DEF PreflightApproval, TypeOK
  <2>6. CASE PreflightAutonomousPatch
    BY <2>0, <2>6, TransitionType, SkipType DEF PreflightAutonomousPatch
  <2>7. CASE PreflightAutonomousValidate
    BY <2>0, <2>7, TransitionType, SkipType DEF PreflightAutonomousValidate
  <2>8. CASE PreflightSaveRun
    BY <2>8 DEF PreflightSaveRun, TypeOK, CallInv, Idle, Calls, PostflightPoints
  <2>9. QED  BY <1>4, <2>1, <2>2, <2>3, <2>4, <2>5, <2>6, <2>7, <2>8 DEF PreflightStep
<1>5. CASE \E in \in Postflight : BeginPostflight(in)
  <2>1. PICK in \in Postflight : BeginPostflight(in)
    BY <1>5
  <2>2. call' \in PostflightCalls /\ call'.at \in {"fail", "commitPatch"}
    BY <2>1 DEF BeginPostflight, PostflightCalls, PostflightPoints
  <2>3. task' \in TaskStatus \cup {Null}
    BY <2>1 DEF BeginPostflight, TypeOK, TaskStatus
  <2>4. UNCHANGED <<job, steps, plan, prepared, pending, up>> /\ error' = Null /\ pending > 0
    BY <2>1 DEF BeginPostflight
  <2>5. QED
    BY <2>2, <2>3, <2>4 DEF TypeOK, CallInv, Calls, PostflightPoints, PreflightPoints
<1>6. CASE PostflightUnleased
  BY <1>6 DEF PostflightUnleased, TypeOK, CallInv, TaskStatus
<1>7. CASE PostflightStep
  <2>0. call.at \in PostflightPoints =>
            /\ SameClass("commitValidate") /\ SameClass("settle") /\ SameClass("acceptPatch")
            /\ SameClass("acceptValidate") /\ SameClass("verify") /\ SameClass("complete")
            /\ SameClass("saveResult")
            /\ job.status # Null
    BY DEF SameClass, PostflightPoints, CallInv
  <2>1. CASE FailCommandJob
    <3>1. call.at \in PostflightPoints /\ job.status # Null
      BY <2>0, <2>1 DEF FailCommandJob, PostflightPoints
    <3>2. steps' \in Rows
      BY <2>1, RowUpdate DEF FailCommandJob, TypeOK, StepStatus, Null
    <3>3. job' \in JobRows /\ job'.status # Null
      BY <2>1, <3>1 DEF FailCommandJob, TypeOK, JobStatus, Null
    <3>4. /\ call' \in Calls /\ up' \in BOOLEAN /\ prepared' \in BOOLEAN
          /\ call'.at = "idle" \/ SameClass(call'.at)
      <4>1. CASE Exit
        BY <4>1, ExitType
      <4>2. CASE Goto("saveResult")
        BY <2>0, <3>1, <4>2, GotoType
      <4>3. CASE call' = Idle /\ UNCHANGED <<prepared, up>>
        BY <4>3 DEF TypeOK, Calls, Idle
      <4>4. QED  BY <2>1, <4>1, <4>2, <4>3 DEF FailCommandJob
    <3>5. QED
      BY <2>1, <3>1, <3>2, <3>3, <3>4, CallType DEF FailCommandJob, TypeOK
  <2>2. ASSUME NEW s \in {"retry_pending", "blocked"},
               NEW status \in {"retry_pending", "waiting_for_approval"},
               call.at = "settle", PostflightPark(s, status)
        PROVE  TypeOK' /\ CallInv'
    <3>1. call.at \in PostflightPoints /\ job.status # Null
      BY <2>0, <2>2 DEF PostflightPoints
    <3>2. steps' \in Rows
      BY <2>2, RowUpdate DEF PostflightPark, TypeOK, StepStatus, Null
    <3>3. job' \in JobRows /\ job'.status # Null
      BY <2>2, <3>1 DEF PostflightPark, TypeOK, JobStatus, Null
    <3>4. /\ call' \in Calls /\ up' \in BOOLEAN /\ prepared' \in BOOLEAN
          /\ call'.at = "idle" \/ SameClass(call'.at)
      BY <2>0, <2>2, <3>1, GotoType, ExitType DEF PostflightPark
    <3>5. QED
      BY <2>2, <3>1, <3>2, <3>3, <3>4, CallType DEF PostflightPark, TypeOK
  <2>3. CASE PostflightContinue
    BY <2>2, <2>3 DEF PostflightContinue
  <2>4. CASE PostflightWait
    BY <2>2, <2>4 DEF PostflightWait
  <2>5. CASE CompleteCommandJob
    <3>1. call.at \in PostflightPoints /\ job.status # Null
      BY <2>0, <2>5 DEF CompleteCommandJob, PostflightPoints
    <3>2. CASE Throw("deliver")
      BY <3>1, <3>2 DEF Throw, TypeOK, CallInv, Calls, Idle, PreflightPoints, PostflightPoints
    <3>3. CASE ~Throw("deliver")
      <4>1. steps' \in Rows
        <5>1. "deliver" \in Kinds /\ "done" \in StepStatus /\ "delivered" \in Evidence
          BY DEF Kinds, StepStatus, Evidence
        <5>2. steps \in Rows
          BY DEF TypeOK
        <5>3. steps' = SetStep(steps, "deliver", "done", "delivered") \/ steps' = steps
          BY <2>5, <3>3 DEF CompleteCommandJob
        <5>4. SetStep(steps, "deliver", "done", "delivered") \in Rows
          BY <5>1, <5>2, RowUpdate
        <5>5. QED  BY <5>2, <5>3, <5>4
      <4>2. job' \in JobRows /\ job'.status # Null
        BY <2>5, <3>1, <3>3 DEF CompleteCommandJob, TypeOK, JobStatus, Null
      <4>3. /\ call' \in Calls /\ up' \in BOOLEAN /\ prepared' \in BOOLEAN
            /\ call'.at = "idle" \/ SameClass(call'.at)
        BY <2>0, <2>5, <3>1, <3>3, GotoType, ExitType DEF CompleteCommandJob
      <4>4. QED
        BY <2>5, <3>1, <3>3, <4>1, <4>2, <4>3, CallType DEF CompleteCommandJob, TypeOK
    <3>4. QED  BY <3>2, <3>3
  <2>6. CASE PostflightSaveResult
    BY <2>6 DEF PostflightSaveResult, TypeOK, CallInv, Idle, Calls, PreflightPoints, PostflightPoints
  <2> USE DEF PostflightPoints, Kinds, StepStatus, Evidence
  <2>7. CASE PostflightCommitPatch
    BY <2>0, <2>7, TransitionType, SkipType DEF PostflightCommitPatch
  <2>8. CASE PostflightCommitValidate
    BY <2>0, <2>8, TransitionType, SkipType DEF PostflightCommitValidate
  <2>9. CASE PostflightDeliver
    BY <2>0, <2>9, SkipType DEF PostflightDeliver
  <2>10. CASE PostflightAcceptPatch
    BY <2>0, <2>10, TransitionType, SkipType DEF PostflightAcceptPatch
  <2>11. CASE PostflightAcceptValidate
    <3>1. CASE Throw("validation")
      BY <2>0, <2>11, <3>1
      DEF PostflightAcceptValidate, Throw, TypeOK, CallInv, Calls, Idle, PreflightPoints
    <3>2. CASE ~Throw("validation")
      BY <2>0, <2>11, <3>2, TransitionType, SkipType DEF PostflightAcceptValidate
    <3>3. QED  BY <3>1, <3>2
  <2>12. CASE PostflightVerify
    <3>1. CASE Throw("verification")
      BY <2>0, <2>12, <3>1
      DEF PostflightVerify, Throw, TypeOK, CallInv, Calls, Idle, PreflightPoints
    <3>2. CASE ~Throw("verification")
      <4>1. VerifyEvidence(call.in) \in Evidence
        BY DEF VerifyEvidence
      <4>2. QED
        BY <2>0, <2>12, <3>2, <4>1, TransitionType, SkipType DEF PostflightVerify
    <3>3. QED  BY <3>1, <3>2
  <2>13. QED
    BY <1>7, <2>1, <2>3, <2>4, <2>5, <2>6, <2>7, <2>8, <2>9, <2>10, <2>11, <2>12
    DEF PostflightStep
<1>8. CASE \E d \in Decisions, in \in Preflight : EnsureCommandJob(d, in)
  <2>1. PICK d \in Decisions, in \in Preflight : EnsureCommandJob(d, in)
    BY <1>8
  <2>2. /\ UNCHANGED pending /\ error' = Null /\ pending < MaxPending
        /\ task' \in TaskStatus \cup {Null}
    BY <2>1 DEF EnsureCommandJob, AttachCognitiveTask, TypeOK, TaskStatus
  <2>3. ASSUME Enter("route", in)
        PROVE  /\ call' \in Calls /\ up' \in BOOLEAN /\ prepared' \in BOOLEAN
               /\ call'.at = "route"
    BY <2>3 DEF Enter, Calls, PreflightCalls, PreflightPoints, TypeOK
  <2>4. CASE CreateCommandJob(d, in)
    <3>1. \A kinds : \A n : Created(kinds, n) \in Rows
      BY DEF Created, StepStatus, Evidence
    <3>2. steps' \in Rows
      BY <2>4, <3>1 DEF CreateCommandJob
    <3>3. plan' \in SUBSET Kinds
      BY <2>4 DEF CreateCommandJob, RequiredStepKinds, Kinds
    <3>4. job' \in JobRows /\ job'.status # Null
      BY <2>4 DEF CreateCommandJob, JobStatus, Kinds, Null
    <3>5. /\ call' \in Calls /\ up' \in BOOLEAN /\ prepared' \in BOOLEAN
          /\ call'.at \in {"idle", "route"}
      BY <2>3, <2>4, ExitType DEF CreateCommandJob
    <3>6. QED
      BY <2>2, <3>2, <3>3, <3>4, <3>5
      DEF TypeOK, CallInv, PreflightPoints, PostflightPoints
  <2>5. CASE ResumeCommandJob(in)
    <3>1. steps' \in Rows
      <4>1. CASE UNCHANGED steps
        BY <4>1 DEF TypeOK
      <4>2. CASE ~UNCHANGED steps
        <5>1. FirstOpen(steps) \in Kinds /\ steps' = [steps EXCEPT ![FirstOpen(steps)].status = "running"]
          BY <2>5, <4>2, FirstOpenType DEF ResumeCommandJob
        <5>2. "running" \in StepStatus /\ "none" \in Evidence /\ steps \in Rows
          BY DEF StepStatus, Evidence, TypeOK
        <5>3. QED  BY <5>1, <5>2, RowUpdate
      <4>3. QED  BY <4>1, <4>2
    <3>2. job' \in JobRows /\ job'.status # Null /\ UNCHANGED plan
      BY <2>5, FirstOpenType DEF ResumeCommandJob, JobStatus, Resumable, TypeOK, Null
    <3>3. /\ call' \in Calls /\ up' \in BOOLEAN /\ prepared' \in BOOLEAN
          /\ call'.at \in {"idle", "route"}
      BY <2>3, <2>5, ExitType DEF ResumeCommandJob
    <3>4. QED
      BY <2>2, <3>1, <3>2, <3>3
      DEF TypeOK, CallInv, PreflightPoints, PostflightPoints
  <2>6. CASE ReuseCommandJob(in)
    <3>1. UNCHANGED <<job, steps, plan>> /\ job.status # Null
      BY <2>6 DEF ReuseCommandJob, JobStatus, Null
    <3>2. call' \in Calls /\ up' \in BOOLEAN /\ prepared' \in BOOLEAN /\ call'.at = "route"
      BY <2>3, <2>6 DEF ReuseCommandJob
    <3>3. QED
      BY <2>2, <3>1, <3>2 DEF TypeOK, CallInv, PreflightPoints, PostflightPoints
  <2>7. QED  BY <2>1, <2>4, <2>5, <2>6 DEF EnsureCommandJob
<1>9. CASE PauseCommandJob
  <2>1. job.status # Null /\ call = Idle
    BY <1>9 DEF PauseCommandJob, OpenJob, Null
  <2>2. steps' \in Rows
    <3>1. "retry_pending" \in StepStatus /\ "none" \in Evidence /\ steps \in Rows
      BY DEF StepStatus, Evidence, TypeOK
    <3>2. \/ UNCHANGED steps
          \/ /\ job.active \in Kinds
             /\ steps' = [steps EXCEPT ![job.active].status = "retry_pending"]
      BY <1>9 DEF PauseCommandJob, TypeOK
    <3>3. QED  BY <3>1, <3>2, RowUpdate
  <2>3. job' \in JobRows /\ job'.status # Null
    BY <1>9, <2>1 DEF PauseCommandJob, TypeOK, JobStatus, Null
  <2>4. call' \in Calls /\ up' \in BOOLEAN /\ prepared' \in BOOLEAN /\ call'.at = "idle"
    <3>1. Exit \/ UNCHANGED <<call, prepared, up>>
      BY <1>9 DEF PauseCommandJob
    <3>2. QED  BY <2>1, <3>1, ExitType DEF TypeOK, Idle
  <2>5. QED
    BY <1>9, <2>1, <2>2, <2>3, <2>4, CallType DEF PauseCommandJob, TypeOK
<1>10. CASE CancelCommandJob
  <2>1. job.status # Null /\ call = Idle
    BY <1>10 DEF CancelCommandJob
  <2>2. \A n : Blocked(steps, n) \in Rows
    <3>1. \A k \in Kinds : [steps[k] EXCEPT !.status = "blocked"] \in
                               [status : StepStatus \cup {"absent"}, evidence : Evidence]
      BY DEF TypeOK, StepStatus
    <3>2. QED  BY <3>1 DEF Blocked, TypeOK
  <2>3. steps' \in Rows
    BY <1>10, <2>2 DEF CancelCommandJob
  <2>4. job' \in JobRows /\ job'.status # Null
    <3>1. UNCHANGED job \/ job' = [status |-> "cancelled", active |-> Null]
      BY <1>10 DEF CancelCommandJob
    <3>2. QED  BY <2>1, <3>1 DEF TypeOK, JobStatus, Null
  <2>5. call' \in Calls /\ up' \in BOOLEAN /\ prepared' \in BOOLEAN /\ call'.at = "idle"
    <3>1. Exit \/ UNCHANGED <<call, prepared, up>>
      BY <1>10 DEF CancelCommandJob
    <3>2. QED  BY <2>1, <3>1, ExitType DEF TypeOK, Idle
  <2>6. task' \in TaskStatus \cup {Null}
    BY <1>10 DEF CancelCommandJob, TaskStatus
  <2>7. QED
    BY <1>10, <2>1, <2>3, <2>4, <2>5, <2>6, CallType DEF CancelCommandJob
<1>11. CASE ProcessExit
  BY <1>11, ExitType DEF ProcessExit, TypeOK, CallInv, PreflightPoints, PostflightPoints
<1>12. CASE Restart
  <2>1. UNCHANGED <<plan, task, prepared, pending, call>> /\ up' = TRUE /\ error' = Null
    BY <1>12 DEF Restart
  <2>2. ReconcileCommandJob
    BY <1>12 DEF Restart
  <2>3. /\ \A s \in StepStatus, ev \in Evidence : SettleSteps(s, ev) \in Rows
        /\ RecoveredActive \in Kinds \cup {Null}
    BY FirstOpenType DEF SettleSteps, RecoveredActive, TypeOK
  <2>4. ASSUME NEW s \in StepStatus, NEW st \in JobStatus, ParkRecovered(s, st)
        PROVE  steps' \in Rows /\ job' \in JobRows /\ job'.status = st
    BY <2>3, <2>4, RowUpdate DEF ParkRecovered, TypeOK, Null, Evidence
  <2>5. /\ steps' \in Rows /\ job' \in JobRows
        /\ UNCHANGED <<job, steps>> \/ (job.status # Null /\ job'.status # Null)
    <3>1. ASSUME NEW s \in StepStatus, NEW ev \in Evidence, NEW st \in JobStatus,
                 SettleRecovered(s, ev, st)
          PROVE  steps' \in Rows /\ job' \in JobRows /\ job'.status = st
      BY <2>3, <3>1 DEF SettleRecovered
    <3>2. CASE UNCHANGED <<job, steps>>
      BY <3>2 DEF TypeOK
    <3>3. CASE ~UNCHANGED <<job, steps>>
      <4>1. \E st \in JobStatus : steps' \in Rows /\ job' \in JobRows /\ job'.status = st
        BY <2>2, <2>4, <3>1, <3>3 DEF ReconcileCommandJob, StepStatus, Evidence, JobStatus
      <4>2. job.status # Null
        BY <2>2, <3>3 DEF ReconcileCommandJob, OpenJob, Null
      <4>3. QED  BY <4>1, <4>2 DEF JobStatus, Null
    <3>4. QED  BY <3>2, <3>3
  <2>6. QED  BY <2>1, <2>5 DEF TypeOK, CallInv
<1>13. QED
  BY <1>1, <1>2, <1>4, <1>5, <1>6, <1>7, <1>8, <1>9, <1>10, <1>11, <1>12 DEF Next

-----------------------------------------------------------------------------
(* The inductive invariant and the advance of every action *)

Quiet(st) == \A k \in Kinds : st[k].status \notin {"queued", "running", "retry_pending"}

\* A cancelled job has no active step: a late settlement finds nothing to park.
CancelledInactive == job.status = "cancelled" => job.active = Null

Inv == /\ TypeOK /\ CallInv
       /\ StepOrder /\ CompletedAllCommitted /\ ActiveNeverSkips
       /\ CancelledQuiesced /\ CancelledInactive

Progress ==
    /\ Advance(steps, steps')
    /\ job'.status = "completed" => job.status = "completed" \/ AllDone(steps')
    /\ job'.active \in {Null, job.active, FirstOpen(steps), FirstOpen(steps')}
    /\ job'.status = "cancelled" => Quiet(steps') /\ job'.active = Null

\* A step that makes progress keeps the safety conjuncts of the invariant.
LEMMA ProgressPreserves ==
    ASSUME Inv, Progress
    PROVE  /\ StepOrder' /\ CompletedAllCommitted' /\ ActiveNeverSkips'
           /\ CancelledQuiesced' /\ CancelledInactive'
<1>1. StepOrder'
  BY AdvanceOrdered DEF Inv, Progress, StepOrder
<1>2. CompletedAllCommitted'
  BY AdvanceAllDone DEF Inv, Progress, CompletedAllCommitted
<1>3. ActiveNeverSkips'
  <2> SUFFICES ASSUME job'.active # Null
               PROVE  Ready(steps', job'.active)
    BY DEF ActiveNeverSkips
  <2>1. CASE job'.active = job.active
    <3>1. job.active \in Kinds /\ Ready(steps, job.active)
      BY <2>1 DEF Inv, TypeOK, ActiveNeverSkips
    <3>2. QED  BY <2>1, <3>1, AdvanceReady DEF Progress
  <2>2. CASE job'.active = FirstOpen(steps)
    <3>1. FirstOpen(steps) \in Kinds /\ Ready(steps, FirstOpen(steps))
      BY <2>2, FirstOpenReady
    <3>2. QED  BY <2>2, <3>1, AdvanceReady DEF Progress
  <2>3. CASE job'.active = FirstOpen(steps')
    BY <2>3, FirstOpenReady
  <2>4. QED  BY <2>1, <2>2, <2>3 DEF Progress
<1>4. CancelledQuiesced' /\ CancelledInactive'
  BY DEF Progress, CancelledQuiesced, CancelledInactive, Quiet
<1>5. QED  BY <1>1, <1>2, <1>3, <1>4

\* A step that leaves the job and its steps alone makes progress.
LEMMA StutterProgress ==
    ASSUME Inv, UNCHANGED <<job, steps>>
    PROVE  Progress
BY AdvanceSame DEF Inv, Progress, CompletedAllCommitted, CancelledQuiesced,
   CancelledInactive, Quiet

\* The rows written when one open step changes and the job does not: what a
\* crash between the two writes leaves.
LEMMA OneStepProgress ==
    ASSUME Inv, steps' \in Rows, NEW k \in Kinds, IsOpen(steps, k),
           \A j \in Kinds \ {k} : steps'[j] = steps[j],
           steps'[k].status # "absent",
           steps'[k].status \in {"running", "done"} => Ready(steps, k),
           job'.status = "completed" => job.status = "completed" \/ AllDone(steps'),
           job'.active \in {Null, job.active, FirstOpen(steps), FirstOpen(steps')},
           job'.status = "cancelled" =>
                /\ job.status = "cancelled" /\ job'.active = Null
                /\ steps'[k].status \in {"done", "blocked", "failed"}
    PROVE  Progress
<1>1. Advance(steps, steps')
  BY AdvanceOne DEF Inv, TypeOK, Rows
<1>2. job'.status = "cancelled" => Quiet(steps')
  BY DEF Inv, CancelledQuiesced, Quiet
<1>3. QED  BY <1>1, <1>2 DEF Progress

\* transitionCommandStep makes progress, with or without its second write.
LEMMA TransitionProgress ==
    ASSUME Inv, NEW k \in Kinds, NEW s \in {"running", "done"}, NEW ev \in Evidence, NEW p,
           IsOpen(steps, k), s = "running" => steps[k].status = "queued",
           SameClass(p), TransitionCommandStep(k, s, ev, p)
    PROVE  Progress
<1>1. CASE Throw("predecessors")
  BY <1>1, StutterProgress DEF Throw
<1>2. CASE Ready(steps, k) /\ WriteStep(k, s, ev, p)
  <2>1. steps \in Rows /\ s \in StepStatus
    BY DEF Inv, TypeOK, Rows, StepStatus
  <2>2. /\ steps' \in Rows /\ steps'[k].status = s
        /\ \A j \in Kinds \ {k} : steps'[j] = steps[j]
    BY <1>2, <2>1, RowUpdate DEF WriteStep, SetStep, Rows
  <2>3. CASE UNCHANGED job
    <3>1. job.status = "cancelled" => s = "done" /\ job.active = Null
      BY DEF Inv, CancelledQuiesced, CancelledInactive
    <3>2. QED  BY <1>2, <2>2, <2>3, <3>1, OneStepProgress
  <2>4. CASE job' = [status |-> StatusAfter(s, steps'), active |-> FirstOpen(steps')]
    <3>1. /\ StatusAfter(s, steps') # "cancelled"
          /\ StatusAfter(s, steps') = "completed" => AllDone(steps')
      BY DEF StatusAfter
    <3>2. QED  BY <1>2, <2>2, <2>4, <3>1, OneStepProgress
  <2>5. QED  BY <1>2, <2>3, <2>4 DEF WriteStep
<1>3. QED  BY <1>1, <1>2 DEF TransitionCommandStep

\* Parking, failing or blocking the active step of a job.
LEMMA ParkProgress ==
    ASSUME Inv, NEW k \in Kinds \cup {Null}, NEW s \in {"failed", "retry_pending", "blocked"},
           steps' = IF k # Null /\ IsOpen(steps, k)
                    THEN [steps EXCEPT ![k].status = s] ELSE steps,
           job'.status = "completed" => job.status = "completed",
           job'.active \in {Null, job.active, FirstOpen(steps)},
           job'.status = "cancelled" => UNCHANGED job /\ k \in {Null, job.active}
    PROVE  Progress
<1>1. job'.status = "cancelled" => k = Null /\ job'.active = Null
  BY DEF Inv, CancelledInactive
<1>2. CASE k # Null /\ IsOpen(steps, k)
  <2>1. s \in StepStatus /\ steps \in Rows /\ k \in Kinds /\ "none" \in Evidence
    BY <1>2 DEF Inv, TypeOK, Rows, StepStatus, Evidence
  <2>2. /\ steps' \in Rows /\ steps'[k].status = s
        /\ \A j \in Kinds \ {k} : steps'[j] = steps[j]
    BY <1>2, <2>1, RowUpdate DEF Rows
  <2>3. QED  BY <1>1, <1>2, <2>1, <2>2, OneStepProgress
<1>3. CASE ~(k # Null /\ IsOpen(steps, k))
  <2>1. UNCHANGED steps
    BY <1>3
  <2>2. job'.status = "cancelled" => Quiet(steps')
    BY <2>1 DEF Inv, CancelledQuiesced, Quiet
  <2>3. QED  BY <1>1, <2>1, <2>2, AdvanceSame DEF Progress
<1>4. QED  BY <1>2, <1>3

\* Every step of the specification makes progress, creation apart.
LEMMA ProgressStep ==
    ASSUME Inv, Next, ~(job.status = Null /\ job'.status # Null)
    PROVE  Progress
<1> USE DEF Inv
<1>1. CASE PrepareCognitiveTask \/ SupersedeCognitiveTask \/ PostflightUnleased
           \/ PreflightSaveRun \/ PostflightSaveResult \/ PostflightDeliver \/ ProcessExit
           \/ \E in \in Postflight : BeginPostflight(in)
  BY <1>1, StutterProgress
  DEF PrepareCognitiveTask, SupersedeCognitiveTask, PostflightUnleased, PreflightSaveRun,
      PostflightSaveResult, PostflightDeliver, ProcessExit, BeginPostflight, Skip
<1>2. CASE PreflightStep
  <2>0. call.at \in PreflightPoints => SameClass("inspect") /\ SameClass("plan") /\ SameClass("patch")
                        /\ SameClass("approval") /\ SameClass("autoPatch")
                        /\ SameClass("autoValidate") /\ SameClass("saveRun")
    BY DEF SameClass, PreflightPoints
  <2>1. ASSUME NEW p PROVE Skip(p) => Progress
    BY StutterProgress DEF Skip
  <2> USE DEF PreflightPoints, Kinds, Evidence
  <2>2. CASE PreflightRoute
    BY <2>0, <2>1, <2>2, TransitionProgress DEF PreflightRoute, PreflightCommit
  <2>3. CASE PreflightInspect
    BY <2>0, <2>1, <2>3, TransitionProgress DEF PreflightInspect, PreflightCommit
  <2>4. CASE PreflightPlan
    BY <2>0, <2>1, <2>4, TransitionProgress DEF PreflightPlan, PreflightCommit
  <2>5. CASE PreflightPatch
    BY <2>0, <2>1, <2>5, TransitionProgress DEF PreflightPatch, IsOpen
  <2>6. CASE PreflightApproval
    <3>1. UNCHANGED steps
      BY <2>6 DEF PreflightApproval
    <3>2. /\ job'.active = job.active
          /\ job'.status = job.status \/ job'.status = "waiting_for_approval"
      BY <2>6 DEF PreflightApproval, TypeOK
    <3>3. QED
      BY <3>1, <3>2, AdvanceSame DEF Progress, CancelledQuiesced, CancelledInactive, Quiet
  <2>7. CASE PreflightAutonomousPatch
    BY <2>0, <2>1, <2>7, TransitionProgress DEF PreflightAutonomousPatch
  <2>8. CASE PreflightAutonomousValidate
    BY <2>0, <2>1, <2>8, TransitionProgress DEF PreflightAutonomousValidate
  <2>9. QED
    BY <1>1, <1>2, <2>2, <2>3, <2>4, <2>5, <2>6, <2>7, <2>8 DEF PreflightStep
<1>3. CASE PostflightStep
  <2>0. call.at \in PostflightPoints =>
            /\ SameClass("commitValidate") /\ SameClass("settle") /\ SameClass("acceptPatch")
            /\ SameClass("acceptValidate") /\ SameClass("verify") /\ SameClass("complete")
    BY DEF SameClass, PostflightPoints
  <2>1. ASSUME NEW p PROVE Skip(p) => Progress
    BY StutterProgress DEF Skip
  <2>2. ASSUME NEW e PROVE Throw(e) => Progress
    BY StutterProgress DEF Throw
  <2>3. job.active \in Kinds \cup {Null}
    BY DEF TypeOK
  <2>4. CASE FailCommandJob
    <3>1. job' = job \/ job' = [job EXCEPT !.status = "failed"]
      BY <2>4 DEF FailCommandJob
    <3>2. QED  BY <2>3, <2>4, <3>1, ParkProgress DEF FailCommandJob, TypeOK
  <2>5. CASE PostflightContinue
    <3>1. job' = job \/ job' = [job EXCEPT !.status = "retry_pending"]
      BY <2>5 DEF PostflightContinue, PostflightPark
    <3>2. QED  BY <2>3, <2>5, <3>1, ParkProgress DEF PostflightContinue, PostflightPark, TypeOK
  <2>6. CASE PostflightWait
    <3>1. job' = job \/ job' = [job EXCEPT !.status = "waiting_for_approval"]
      BY <2>6 DEF PostflightWait, PostflightPark
    <3>2. QED  BY <2>3, <2>6, <3>1, ParkProgress DEF PostflightWait, PostflightPark, TypeOK
  <2>7. CASE CompleteCommandJob
    <3>1. CASE ~(steps["deliver"].status = "absent" \/ \E k \in Kinds \ {"deliver"} : IsOpen(steps, k))
      <4>1. Ready(steps, "deliver")
        BY <3>1 DEF Ready, Rank, Kinds
      <4>2. /\ steps' = IF IsOpen(steps, "deliver")
                        THEN SetStep(steps, "deliver", "done", "delivered") ELSE steps
            /\ job' = [status |-> "completed", active |-> Null] \/ UNCHANGED job
        BY <2>7, <3>1 DEF CompleteCommandJob
      <4>3. /\ "deliver" \in Kinds /\ "done" \in StepStatus /\ "delivered" \in Evidence
            /\ steps \in Rows
        BY DEF Kinds, StepStatus, Evidence, TypeOK, Rows
      <4>4. CASE IsOpen(steps, "deliver")
        <5>1. /\ steps' \in Rows /\ steps'["deliver"].status = "done"
              /\ \A j \in Kinds \ {"deliver"} : steps'[j] = steps[j]
          BY <4>2, <4>3, <4>4, RowUpdate DEF SetStep, Rows
        <5>2. AllDone(steps')
          BY <3>1, <5>1 DEF AllDone, IsOpen
        <5>3. job.status = "cancelled" => job.active = Null
          BY DEF CancelledInactive
        <5>4. QED  BY <4>1, <4>2, <4>3, <4>4, <5>1, <5>2, <5>3, OneStepProgress
      <4>5. CASE ~IsOpen(steps, "deliver")
        <5>1. UNCHANGED steps /\ AllDone(steps')
          BY <3>1, <4>2, <4>5 DEF AllDone
        <5>2. QED
          BY <4>2, <5>1, AdvanceSame DEF Progress, CancelledQuiesced, CancelledInactive, Quiet
      <4>6. QED  BY <4>4, <4>5
    <3>2. QED  BY <2>2, <2>7, <3>1 DEF CompleteCommandJob
  <2> USE DEF PostflightPoints, Kinds, Evidence
  <2>8. CASE PostflightCommitPatch
    BY <2>0, <2>1, <2>8, TransitionProgress DEF PostflightCommitPatch
  <2>9. CASE PostflightCommitValidate
    BY <2>0, <2>1, <2>9, TransitionProgress DEF PostflightCommitValidate
  <2>10. CASE PostflightAcceptPatch
    BY <2>0, <2>1, <2>10, TransitionProgress DEF PostflightAcceptPatch
  <2>11. CASE PostflightAcceptValidate
    BY <2>0, <2>1, <2>2, <2>11, TransitionProgress DEF PostflightAcceptValidate
  <2>12. CASE PostflightVerify
    <3>1. VerifyEvidence(call.in) \in Evidence
      BY DEF VerifyEvidence
    <3>2. QED
      BY <2>0, <2>1, <2>2, <2>12, <3>1, TransitionProgress DEF PostflightVerify
  <2>13. QED
    BY <1>1, <1>3, <2>4, <2>5, <2>6, <2>7, <2>8, <2>9, <2>10, <2>11, <2>12 DEF PostflightStep
<1>4. CASE \E d \in Decisions, in \in Preflight : EnsureCommandJob(d, in)
  <2>1. PICK d \in Decisions, in \in Preflight : EnsureCommandJob(d, in)
    BY <1>4
  <2>2. CASE CreateCommandJob(d, in)
    BY <2>2 DEF CreateCommandJob, Null
  <2>3. CASE ReuseCommandJob(in)
    BY <2>3, StutterProgress DEF ReuseCommandJob
  <2>4. CASE ResumeCommandJob(in)
    <3>0. job.status # "cancelled" /\ job.status # "completed"
      BY <2>4 DEF ResumeCommandJob, Resumable
    <3>1. CASE UNCHANGED steps
      BY <2>4, <3>0, <3>1, AdvanceSame DEF ResumeCommandJob, Progress
    <3>2. CASE ~UNCHANGED steps
      <4>1. /\ steps' = [steps EXCEPT ![FirstOpen(steps)].status = "running"]
            /\ FirstOpen(steps) # Null
        BY <2>4, <3>2 DEF ResumeCommandJob
      <4>2. /\ FirstOpen(steps) \in Kinds /\ IsOpen(steps, FirstOpen(steps))
            /\ Ready(steps, FirstOpen(steps))
        BY <4>1, FirstOpenReady
      <4>3. "running" \in StepStatus /\ "none" \in Evidence /\ steps \in Rows
        BY DEF StepStatus, Evidence, TypeOK, Rows
      <4>4. /\ steps' \in Rows /\ steps'[FirstOpen(steps)].status = "running"
            /\ \A j \in Kinds \ {FirstOpen(steps)} : steps'[j] = steps[j]
        BY <4>1, <4>2, <4>3, RowUpdate DEF Rows
      <4>5. job' = job \/ job' = [status |-> "running", active |-> FirstOpen(steps)]
        BY <2>4 DEF ResumeCommandJob
      <4>6. QED  BY <3>0, <4>2, <4>3, <4>4, <4>5, OneStepProgress
    <3>3. QED  BY <3>1, <3>2
  <2>5. QED  BY <2>1, <2>2, <2>3, <2>4 DEF EnsureCommandJob
<1>5. CASE PauseCommandJob
  <2>1. job.active \in Kinds \cup {Null} /\ job.status # "cancelled"
    BY <1>5 DEF PauseCommandJob, TypeOK, OpenJob
  <2>2. job' = job \/ job' = [job EXCEPT !.status = "paused_for_compaction"]
    BY <1>5 DEF PauseCommandJob
  <2>3. CASE job.active # Null /\ steps[job.active].status = "running"
    <3>1. steps' = [steps EXCEPT ![job.active].status = "retry_pending"]
      BY <1>5, <2>3 DEF PauseCommandJob
    <3>2. IsOpen(steps, job.active)
      BY <2>3 DEF IsOpen
    <3>3. QED  BY <2>1, <2>2, <2>3, <3>1, <3>2, ParkProgress DEF TypeOK
  <2>4. CASE ~(job.active # Null /\ steps[job.active].status = "running")
    <3>1. UNCHANGED steps
      BY <1>5, <2>4 DEF PauseCommandJob
    <3>2. job'.active = job.active /\ job'.status \in {job.status, "paused_for_compaction"}
      BY <2>2 DEF TypeOK
    <3>3. QED  BY <2>1, <3>1, <3>2, AdvanceSame DEF Progress
  <2>5. QED  BY <2>3, <2>4
<1>6. CASE CancelCommandJob
  <2>1. \A n : Advance(steps, Blocked(steps, n))
    <3>1. ASSUME NEW n, NEW k \in Kinds, IsOpen(steps, k)
          PROVE  [steps[k] EXCEPT !.status = "blocked"].status = "blocked"
      BY DEF TypeOK
    <3>2. QED  BY <3>1 DEF Advance, Blocked
  <2>2. \A n, k : k \in Kinds => Blocked(steps, n)[k] = steps[k]
                                   \/ Blocked(steps, n)[k].status = "blocked"
    BY DEF Blocked, TypeOK
  <2>3. CASE UNCHANGED job
    <3>1. PICK n : steps' = Blocked(steps, n)
      BY <1>6 DEF CancelCommandJob
    <3>2. job.status = "cancelled" => Quiet(steps')
      BY <2>2, <3>1 DEF CancelledQuiesced, Quiet
    <3>3. QED  BY <2>1, <2>3, <3>1, <3>2 DEF Progress, CancelledInactive
  <2>4. CASE ~UNCHANGED job
    <3>1. steps' = Blocked(steps, 7) /\ job' = [status |-> "cancelled", active |-> Null]
      BY <1>6, <2>4 DEF CancelCommandJob
    <3>2. \A k \in Kinds : Rank[k] < 7
      BY DEF Kinds, Rank
    <3>3. Quiet(steps')
      BY <3>1, <3>2 DEF Quiet, Blocked, IsOpen, TypeOK
    <3>4. QED  BY <2>1, <3>1, <3>3 DEF Progress
  <2>5. QED  BY <2>3, <2>4
<1>7. CASE Restart
  <2>1. ReconcileCommandJob
    BY <1>7 DEF Restart
  <2>2. CASE UNCHANGED <<job, steps>>
    BY <2>2, StutterProgress
  <2>3. ASSUME NEW s \in {"retry_pending", "blocked"}, NEW st \in {"waiting_for_approval", "retry_pending"},
               ParkRecovered(s, st)
        PROVE  Progress
    <3>1. RecoveredActive \in Kinds \cup {Null} /\ RecoveredActive \in {job.active, FirstOpen(steps)}
      BY FirstOpenType DEF RecoveredActive, TypeOK
    <3>2. QED  BY <2>3, <3>1, ParkProgress DEF ParkRecovered
  <2>4. ASSUME NEW s \in {"failed", "done"}, NEW ev, NEW st, SettleRecovered(s, ev, st),
               st = "completed" => s = "done"
        PROVE  Progress
    <3>1. \A k \in Kinds : IF IsOpen(steps, k) THEN steps'[k].status = s ELSE steps'[k] = steps[k]
      BY <2>4 DEF SettleRecovered, SettleSteps
    <3>2. \A k \in Kinds : steps'[k].status \notin {"queued", "running", "retry_pending", "blocked"}
      BY <3>1 DEF IsOpen
    <3>3. s = "done" => AllDone(steps')
      BY <3>1 DEF IsOpen, AllDone
    <3>4. Advance(steps, steps')
      BY <3>1, <3>3 DEF Advance, Ready, AllDone
    <3>5. QED  BY <2>4, <3>2, <3>3, <3>4 DEF Progress, SettleRecovered, Quiet
  <2>5. QED  BY <2>1, <2>2, <2>3, <2>4 DEF ReconcileCommandJob
<1>8. QED
  BY <1>1, <1>2, <1>3, <1>4, <1>5, <1>6, <1>7 DEF Next

\* The creation of a job starts its route step and nothing else.
LEMMA CreationStep ==
    ASSUME Inv, Next, job.status = Null, job'.status # Null
    PROVE  StepOrder' /\ CompletedAllCommitted' /\ ActiveNeverSkips'
           /\ CancelledQuiesced' /\ CancelledInactive'
<1>1. PICK d \in Decisions, in \in Preflight : CreateCommandJob(d, in)
  <2>1. call.at = "idle"
    BY DEF Inv, CallInv
  <2>2. \E d \in Decisions, in \in Preflight : EnsureCommandJob(d, in)
    BY <2>1
    DEF Next, PrepareCognitiveTask, SupersedeCognitiveTask, PostflightUnleased, BeginPostflight,
        ProcessExit, Restart, ReconcileCommandJob, PauseCommandJob, CancelCommandJob,
        PreflightStep, PreflightRoute, PreflightInspect, PreflightPlan, PreflightCommit,
        PreflightPatch, PreflightApproval, PreflightAutonomousPatch,
        PreflightAutonomousValidate, PreflightSaveRun,
        PostflightStep, FailCommandJob, PostflightCommitPatch, PostflightCommitValidate,
        PostflightContinue, PostflightWait, PostflightDeliver, PostflightAcceptPatch,
        PostflightAcceptValidate, PostflightVerify, CompleteCommandJob, PostflightSaveResult,
        OpenJob, Null
  <2>3. QED
    BY <2>2 DEF EnsureCommandJob, ResumeCommandJob, ReuseCommandJob, Resumable, JobStatus, Null
<1>2. /\ job' = [status |-> job'.status, active |-> "route"]
      /\ job'.status \in {"waiting_for_approval", "running"}
  BY <1>1 DEF CreateCommandJob
<1>3. PICK n : steps' = Created(plan', n)
  BY <1>1 DEF CreateCommandJob
<1>4. \A k \in Kinds : steps'[k].status \in {"running", "done"} => k = "route"
  BY <1>3 DEF Created
<1>5. Ready(steps', "route")
  BY DEF Ready, Rank, Kinds
<1>6. QED
  BY <1>2, <1>4, <1>5
  DEF StepOrder, Ordered, CompletedAllCommitted, ActiveNeverSkips, CancelledQuiesced, CancelledInactive

-----------------------------------------------------------------------------
(* Theorems *)

\* The invariant holds before any job exists.
LEMMA InitInv == Init => Inv
<1> SUFFICES ASSUME Init PROVE Inv
  OBVIOUS
<1>1. \A k \in Kinds : steps[k].status = "absent" /\ steps[k].evidence = "none"
  BY DEF Init
<1>2. TypeOK
  <2>1. steps \in Rows
    BY DEF Init, Rows, Evidence
  <2>2. job \in JobRows
    BY DEF Init, JobRows
  <2>3. call \in Calls
    BY DEF Init, Calls
  <2>4. plan \in SUBSET Kinds /\ task \in TaskStatus \cup {Null} /\ prepared \in BOOLEAN
        /\ up \in BOOLEAN /\ error = Null
    BY DEF Init
  <2>5. pending \in 0..MaxPending
    BY DEF Init
  <2>6. QED  BY <2>1, <2>2, <2>3, <2>4, <2>5 DEF TypeOK, Rows, JobRows
<1>3. CallInv
  BY <1>1 DEF Init, CallInv, Idle, PreflightPoints, PostflightPoints
<1>4. StepOrder
  BY <1>1 DEF StepOrder, Ordered
<1>5. job.status = Null /\ job.active = Null
  BY DEF Init
<1>6. CompletedAllCommitted /\ ActiveNeverSkips /\ CancelledQuiesced /\ CancelledInactive
  BY <1>5 DEF CompletedAllCommitted, ActiveNeverSkips, CancelledQuiesced, CancelledInactive, Null
<1>7. QED  BY <1>2, <1>3, <1>4, <1>6 DEF Inv

\* The invariant is inductive.
LEMMA NextInv == Inv /\ [Next]_vars => Inv'
<1> SUFFICES ASSUME Inv, [Next]_vars PROVE Inv'
  OBVIOUS
<1>1. CASE UNCHANGED vars
  BY <1>1 DEF vars, Inv, TypeOK, CallInv, StepOrder, Ordered, CompletedAllCommitted,
     ActiveNeverSkips, CancelledQuiesced, CancelledInactive
<1>2. CASE Next
  <2>1. TypeOK' /\ CallInv'
    BY <1>2, TypeStep DEF Inv
  <2>2. CASE job.status = Null /\ job'.status # Null
    BY <1>2, <2>1, <2>2, CreationStep DEF Inv
  <2>3. CASE ~(job.status = Null /\ job'.status # Null)
    BY <1>2, <2>1, <2>3, ProgressStep, ProgressPreserves DEF Inv
  <2>4. QED  BY <2>2, <2>3
<1>3. QED  BY <1>1, <1>2

\* The inductive invariant holds in every reachable state.
THEOREM InvHolds == Spec => []Inv
BY InitInv, NextInv, PTL DEF Spec

\* Every variable keeps its type: no operation writes a status the schema does
\* not know, and no run is accepted that was not preflighted.
THEOREM TypeCorrect == Spec => []TypeOK
<1>1. Inv => TypeOK
  BY DEF Inv
<1>2. QED  BY <1>1, InvHolds, PTL

\* A step that runs or is committed has no open predecessor, whatever mix of
\* resumptions, cancellations, crashes and recoveries came before.
THEOREM StepOrderHolds == Spec => []StepOrder
<1>1. Inv => StepOrder
  BY DEF Inv
<1>2. QED  BY <1>1, InvHolds, PTL

\* A completed job has no uncommitted step.
THEOREM CompletionHolds == Spec => []CompletedAllCommitted
<1>1. Inv => CompletedAllCommitted
  BY DEF Inv
<1>2. QED  BY <1>1, InvHolds, PTL

\* The active step never lies past an open step.
THEOREM ActiveHolds == Spec => []ActiveNeverSkips
<1>1. Inv => ActiveNeverSkips
  BY DEF Inv
<1>2. QED  BY <1>1, InvHolds, PTL

\* A cancelled job has no step waiting to run.
THEOREM CancellationHolds == Spec => []CancelledQuiesced
<1>1. Inv => CancelledQuiesced
  BY DEF Inv
<1>2. QED  BY <1>1, InvHolds, PTL

\* A committed step is never reopened.
THEOREM CommitmentHolds == Spec => DoneIsForever
<1> DEFINE Kept == \A k \in Kinds : steps[k].status = "done" => steps'[k].status = "done"
<1>1. ASSUME Inv, [Next]_vars PROVE [Kept]_vars
  <2>1. CASE UNCHANGED vars
    BY <2>1
  <2>2. CASE Next /\ job.status = Null
    BY <1>1, <2>2 DEF Inv, CallInv
  <2>3. CASE Next /\ job.status # Null
    BY <1>1, <2>3, ProgressStep DEF Progress, Advance, IsOpen
  <2>4. QED  BY <1>1, <2>1, <2>2, <2>3
<1>2. QED  BY <1>1, InvHolds, PTL DEF Spec, DoneIsForever

-----------------------------------------------------------------------------
(* Parked jobs *)

Parked == {"paused_for_compaction", "retry_pending"}

\* What makes ParkedQuiesced inductive: the step a parked job is parked on does
\* not run, in the midst of a postflight either, and no preflight works on a job
\* that is still parked.
AtRest ==
    /\ up /\ job.status \in Parked /\ job.active # Null /\ IsOpen(steps, job.active)
          => steps[job.active].status # "running"
    /\ call.at \in PreflightPoints => job.status \notin Parked

\* Of two steps one comes first.
LEMMA RankOrder == \A j, k \in Kinds : j # k => Rank[j] < Rank[k] \/ Rank[k] < Rank[j]
BY DEF Rank, Kinds

\* An exit leaves nothing to be at rest.
LEMMA ExitRest == Exit => AtRest'
BY DEF Exit, AtRest, Idle, PreflightPoints

\* Nor does a call that writes no row, nor one that leaves the job not parked.
LEMMA SameRest ==
    ASSUME AtRest, UNCHANGED <<job, steps>>, up' => up,
           call'.at \in PreflightPoints => call.at \in PreflightPoints
    PROVE  AtRest'
BY DEF AtRest

LEMMA UnparkedRest == job'.status \notin Parked => AtRest'
BY DEF AtRest

LEMMA SkipRest == ASSUME Inv, AtRest, NEW p, SameClass(p), Skip(p) PROVE AtRest'
<1>1. call'.at = p /\ up' = up /\ UNCHANGED <<job, steps>>
  BY GotoType DEF Inv, Skip, Goto
<1>2. p \in PreflightPoints => call.at \in PreflightPoints
  BY DEF SameClass, PreflightPoints, PostflightPoints
<1>3. QED  BY <1>1, <1>2, SameRest

LEMMA ThrowRest == ASSUME AtRest, NEW e, Throw(e) PROVE AtRest'
BY SameRest DEF Throw, Idle, PreflightPoints

\* A job that stays parked through a commit runs no other step: the one that was
\* open and ready was the only one that could run.
LEMMA TransitionRest ==
    ASSUME Inv, AtRest, NEW k \in Kinds, NEW s \in {"running", "done"}, NEW ev \in Evidence, NEW p,
           IsOpen(steps, k), SameClass(p), s = "running" => call.at \in PreflightPoints,
           TransitionCommandStep(k, s, ev, p)
    PROVE  AtRest'
<1>1. CASE Throw("predecessors")
  BY <1>1, ThrowRest
<1>2. CASE Ready(steps, k) /\ WriteStep(k, s, ev, p) /\ Exit
  BY <1>2, ExitRest
<1>3. CASE Ready(steps, k) /\ WriteStep(k, s, ev, p) /\ ~Exit
  <2>1. /\ steps' = SetStep(steps, k, s, ev) /\ Goto(p)
        /\ job' = [status |-> StatusAfter(s, steps'), active |-> FirstOpen(steps')]
    BY <1>3 DEF WriteStep
  <2> SUFFICES ASSUME job'.status \in Parked PROVE AtRest'
    BY UnparkedRest
  <2>2. job.status = "paused_for_compaction"
    BY <2>1 DEF StatusAfter, Parked
  <2>3. call.at \notin PreflightPoints /\ s = "done"
    BY <2>2 DEF AtRest, Parked
  <2>4. call'.at = p /\ p \notin PreflightPoints
    BY <2>1, <2>3, GotoType DEF Inv, SameClass, PreflightPoints, PostflightPoints
  <2>5. ASSUME job'.active # Null, IsOpen(steps', job'.active),
               steps'[job'.active].status = "running"
        PROVE  FALSE
    <3> DEFINE j == FirstOpen(steps')
    <3>1. j \in Kinds /\ IsOpen(steps', j) /\ steps'[j].status = "running"
      BY <2>1, <2>5, FirstOpenReady
    <3> HIDE DEF j
    <3>2. steps \in Rows
      BY DEF Inv, TypeOK, Rows
    <3>3. steps'[k].status = "done" /\ \A i \in Kinds \ {k} : steps'[i] = steps[i]
      BY <2>1, <2>3, <3>2 DEF SetStep, Rows
    <3>4. j # k /\ IsOpen(steps, j) /\ steps[j].status = "running"
      BY <3>1, <3>3 DEF IsOpen
    <3>5. Ready(steps, j)
      BY <3>1, <3>4 DEF Inv, StepOrder, Ordered
    <3>6. QED  BY <1>3, <3>1, <3>4, <3>5, RankOrder DEF Ready
  <2>6. QED  BY <2>4, <2>5 DEF AtRest
<1>4. QED  BY <1>1, <1>2, <1>3 DEF TransitionCommandStep

LEMMA PreflightRest == ASSUME Inv, AtRest, PreflightStep PROVE AtRest'
<1>0. call.at \in PreflightPoints => SameClass("inspect") /\ SameClass("plan") /\ SameClass("patch")
                      /\ SameClass("approval") /\ SameClass("autoPatch")
                      /\ SameClass("autoValidate") /\ SameClass("saveRun")
  BY DEF SameClass, PreflightPoints
<1>1. ASSUME NEW p, SameClass(p) PROVE Skip(p) => AtRest'
  BY <1>1, SkipRest
<1>2. CASE PreflightApproval
  <2>1. call.at \in PreflightPoints /\ job.status \notin Parked
    BY <1>2 DEF PreflightApproval, PreflightPoints, AtRest
  <2>2. job'.status = job.status \/ job'.status = "waiting_for_approval"
    BY <1>2 DEF PreflightApproval, Inv, TypeOK
  <2>3. QED  BY <2>1, <2>2, UnparkedRest DEF Parked
<1>3. CASE PreflightSaveRun
  BY <1>3, SameRest DEF PreflightSaveRun, Idle, PreflightPoints
<1> USE DEF PreflightPoints, Kinds, Evidence
<1>4. CASE PreflightRoute
  BY <1>0, <1>1, <1>4, TransitionRest DEF PreflightRoute, PreflightCommit
<1>5. CASE PreflightInspect
  BY <1>0, <1>1, <1>5, TransitionRest DEF PreflightInspect, PreflightCommit
<1>6. CASE PreflightPlan
  BY <1>0, <1>1, <1>6, TransitionRest DEF PreflightPlan, PreflightCommit
<1>7. CASE PreflightPatch
  BY <1>0, <1>1, <1>7, TransitionRest DEF PreflightPatch, IsOpen
<1>8. CASE PreflightAutonomousPatch
  BY <1>0, <1>1, <1>8, TransitionRest DEF PreflightAutonomousPatch
<1>9. CASE PreflightAutonomousValidate
  BY <1>0, <1>1, <1>9, TransitionRest DEF PreflightAutonomousValidate
<1>10. QED
  BY <1>2, <1>3, <1>4, <1>5, <1>6, <1>7, <1>8, <1>9 DEF PreflightStep

LEMMA PostflightRest == ASSUME Inv, AtRest, PostflightStep PROVE AtRest'
<1>0. call.at \in PostflightPoints =>
          /\ SameClass("commitValidate") /\ SameClass("settle") /\ SameClass("acceptPatch")
          /\ SameClass("acceptValidate") /\ SameClass("verify") /\ SameClass("complete")
          /\ SameClass("saveResult")
  BY DEF SameClass, PostflightPoints
<1>1. ASSUME NEW p, SameClass(p) PROVE Skip(p) => AtRest'
  BY <1>1, SkipRest
<1>2. ASSUME NEW e PROVE Throw(e) => AtRest'
  BY ThrowRest
<1>3. CASE FailCommandJob
  <2>1. Exit \/ job' = [job EXCEPT !.status = "failed"]
    BY <1>3 DEF FailCommandJob
  <2>2. job' = [job EXCEPT !.status = "failed"] => job'.status \notin Parked
    BY DEF Inv, TypeOK, Parked
  <2>3. QED  BY <2>1, <2>2, ExitRest, UnparkedRest
<1>4. CASE PostflightContinue
  <2>1. CASE Exit
    BY <2>1, ExitRest
  <2>2. CASE ~Exit
    <3>1. /\ job' = [job EXCEPT !.status = "retry_pending"] /\ Goto("saveResult")
          /\ steps' = IF job.active # Null /\ IsOpen(steps, job.active)
                      THEN [steps EXCEPT ![job.active].status = "retry_pending"] ELSE steps
          /\ call.at = "settle"
      BY <1>4, <2>2 DEF PostflightContinue, PostflightPark
    <3>2. job'.active = job.active /\ job.active \in Kinds \cup {Null} /\ steps \in Rows
      BY <3>1 DEF Inv, TypeOK, Rows
    <3>3. IsOpen(steps', job'.active) /\ job'.active # Null
             => steps'[job'.active].status = "retry_pending"
      BY <3>1, <3>2 DEF IsOpen, Rows
    <3>4. call'.at \notin PreflightPoints
      BY <1>0, <3>1, GotoType DEF Inv, PreflightPoints, PostflightPoints
    <3>5. QED  BY <3>3, <3>4 DEF AtRest
  <2>3. QED  BY <2>1, <2>2
<1>5. CASE PostflightWait
  <2>1. Exit \/ job' = [job EXCEPT !.status = "waiting_for_approval"]
    BY <1>5 DEF PostflightWait, PostflightPark
  <2>2. job' = [job EXCEPT !.status = "waiting_for_approval"] => job'.status \notin Parked
    BY DEF Inv, TypeOK, Parked
  <2>3. QED  BY <2>1, <2>2, ExitRest, UnparkedRest
<1>6. CASE CompleteCommandJob
  <2>1. \/ Exit \/ Throw("deliver")
        \/ job' = [status |-> "completed", active |-> Null]
    BY <1>6 DEF CompleteCommandJob
  <2>2. QED  BY <1>2, <2>1, ExitRest, UnparkedRest DEF Parked
<1>7. CASE PostflightSaveResult
  BY <1>7, SameRest DEF PostflightSaveResult, Idle, PreflightPoints
<1> USE DEF PostflightPoints, Kinds, Evidence
<1>8. CASE PostflightDeliver
  BY <1>0, <1>1, <1>8 DEF PostflightDeliver
<1>9. CASE PostflightCommitPatch
  BY <1>0, <1>1, <1>9, TransitionRest DEF PostflightCommitPatch
<1>10. CASE PostflightCommitValidate
  BY <1>0, <1>1, <1>10, TransitionRest DEF PostflightCommitValidate
<1>11. CASE PostflightAcceptPatch
  BY <1>0, <1>1, <1>11, TransitionRest DEF PostflightAcceptPatch
<1>12. CASE PostflightAcceptValidate
  BY <1>0, <1>1, <1>2, <1>12, TransitionRest DEF PostflightAcceptValidate
<1>13. CASE PostflightVerify
  <2>1. VerifyEvidence(call.in) \in Evidence
    BY DEF VerifyEvidence
  <2>2. QED  BY <1>0, <1>1, <1>2, <1>13, <2>1, TransitionRest DEF PostflightVerify
<1>14. QED
  BY <1>3, <1>4, <1>5, <1>6, <1>7, <1>8, <1>9, <1>10, <1>11, <1>12, <1>13 DEF PostflightStep

\* No call outlives its process.
DownIdle == ~up => call = Idle

LEMMA DownStep == DownIdle /\ [Next]_vars => DownIdle'
<1> SUFFICES ASSUME DownIdle, [Next]_vars PROVE DownIdle'
  OBVIOUS
<1> USE DEF DownIdle
<1>1. Exit => DownIdle'
  BY DEF Exit
<1>2. up' = up /\ up => DownIdle'
  OBVIOUS
<1>3. ASSUME up, NEW p, Goto(p) \/ Skip(p) PROVE DownIdle'
  BY <1>3 DEF Goto, Skip
<1>4. ASSUME up, NEW k, NEW s, NEW ev, NEW p, TransitionCommandStep(k, s, ev, p) PROVE DownIdle'
  BY <1>1, <1>3, <1>4 DEF TransitionCommandStep, WriteStep, Throw
<1>5. CASE PreflightStep
  BY <1>1, <1>2, <1>3, <1>4, <1>5
  DEF PreflightStep, PreflightRoute, PreflightInspect, PreflightPlan, PreflightCommit,
      PreflightPatch, PreflightApproval, PreflightAutonomousPatch, PreflightAutonomousValidate,
      PreflightSaveRun
<1>6. CASE PostflightStep
  BY <1>1, <1>2, <1>3, <1>4, <1>6
  DEF PostflightStep, FailCommandJob, PostflightCommitPatch, PostflightCommitValidate,
      PostflightContinue, PostflightWait, PostflightPark, PostflightDeliver, PostflightAcceptPatch,
      PostflightAcceptValidate, PostflightVerify, CompleteCommandJob, PostflightSaveResult, Throw
<1>7. CASE \E d \in Decisions, in \in Preflight : EnsureCommandJob(d, in)
  BY <1>1, <1>2, <1>7
  DEF EnsureCommandJob, CreateCommandJob, ResumeCommandJob, ReuseCommandJob, Enter
<1>8. CASE ~(PreflightStep \/ PostflightStep
             \/ \E d \in Decisions, in \in Preflight : EnsureCommandJob(d, in))
  BY <1>1, <1>2, <1>8
  DEF Next, vars, PrepareCognitiveTask, SupersedeCognitiveTask, BeginPostflight, PostflightUnleased,
      PauseCommandJob, CancelCommandJob, ProcessExit, Restart
<1>9. QED  BY <1>5, <1>6, <1>7, <1>8

LEMMA RestStep == Inv /\ AtRest /\ DownIdle /\ [Next]_vars => AtRest'
<1> SUFFICES ASSUME Inv, AtRest, DownIdle, [Next]_vars PROVE AtRest'
  OBVIOUS
<1>1. CASE PrepareCognitiveTask \/ SupersedeCognitiveTask \/ PostflightUnleased \/ UNCHANGED vars
  BY <1>1, SameRest
  DEF PrepareCognitiveTask, SupersedeCognitiveTask, PostflightUnleased, vars
<1>2. CASE \E in \in Postflight : BeginPostflight(in)
  <2>1. PICK in \in Postflight : BeginPostflight(in)
    BY <1>2
  <2>2. UNCHANGED <<job, steps, up>> /\ call'.at \in {"fail", "commitPatch"}
    BY <2>1 DEF BeginPostflight
  <2>3. QED  BY <2>2, SameRest DEF PreflightPoints
<1>3. CASE ProcessExit
  BY <1>3, ExitRest DEF ProcessExit
<1>4. CASE PreflightStep
  BY <1>4, PreflightRest
<1>5. CASE PostflightStep
  BY <1>5, PostflightRest
<1>6. CASE \E d \in Decisions, in \in Preflight : EnsureCommandJob(d, in)
  <2>1. PICK d \in Decisions, in \in Preflight : EnsureCommandJob(d, in)
    BY <1>6
  <2>2. CASE CreateCommandJob(d, in)
    <3>1. job'.status \in {"waiting_for_approval", "running"}
      BY <2>2 DEF CreateCommandJob
    <3>2. QED  BY <3>1, UnparkedRest DEF Parked
  <2>3. CASE ReuseCommandJob(in)
    BY <2>3, UnparkedRest DEF ReuseCommandJob, Resumable, Parked
  <2>4. CASE ResumeCommandJob(in)
    <3>1. Exit \/ job'.status = "running"
      BY <2>4 DEF ResumeCommandJob
    <3>2. QED  BY <3>1, ExitRest, UnparkedRest DEF Parked
  <2>5. QED  BY <2>1, <2>2, <2>3, <2>4 DEF EnsureCommandJob
<1>7. CASE PauseCommandJob
  <2>1. CASE Exit
    BY <2>1, ExitRest
  <2>2. CASE ~Exit
    <3>1. /\ job' = [job EXCEPT !.status = "paused_for_compaction"] /\ call' = Idle
          /\ steps' = IF job.active # Null /\ steps[job.active].status = "running"
                      THEN [steps EXCEPT ![job.active].status = "retry_pending"] ELSE steps
      BY <1>7, <2>2 DEF PauseCommandJob
    <3>2. job'.active = job.active /\ job.active \in Kinds \cup {Null} /\ steps \in Rows
      BY <3>1 DEF Inv, TypeOK, Rows
    <3>3. job'.active # Null => steps'[job'.active].status # "running"
      BY <3>1, <3>2 DEF Rows
    <3>4. call'.at \notin PreflightPoints
      BY <3>1 DEF Idle, PreflightPoints
    <3>5. QED  BY <3>3, <3>4 DEF AtRest
  <2>3. QED  BY <2>1, <2>2
<1>8. CASE CancelCommandJob
  <2>1. Exit \/ job'.status = "cancelled"
    <3>1. \/ job' = [status |-> "cancelled", active |-> Null]
          \/ \E n \in 0..7 : Exit
      BY <1>8 DEF CancelCommandJob
    <3>2. QED  BY <3>1
  <2>2. QED  BY <2>1, ExitRest, UnparkedRest DEF Parked
<1>9. CASE Restart
  <2>1. CASE job.status \notin OpenJob /\ UNCHANGED job
    BY <2>1, UnparkedRest DEF OpenJob, Parked
  <2>2. CASE ParkRecovered("retry_pending", "retry_pending")
    <3> DEFINE k == RecoveredActive
    <3>1. /\ job'.active = k
          /\ steps' = IF k # Null /\ IsOpen(steps, k)
                      THEN [steps EXCEPT ![k].status = "retry_pending"] ELSE steps
      BY <2>2 DEF ParkRecovered
    <3>2. k \in Kinds \cup {Null} /\ steps \in Rows
      BY FirstOpenType DEF RecoveredActive, Inv, TypeOK, Rows
    <3> HIDE DEF k
    <3>3. k # Null /\ IsOpen(steps', k) => steps'[k].status # "running"
      BY <3>1, <3>2 DEF IsOpen, Rows
    <3>4. call'.at \notin PreflightPoints
      BY <1>9 DEF Restart, DownIdle, Idle, PreflightPoints
    <3>5. QED  BY <3>1, <3>3, <3>4 DEF AtRest
  <2>3. CASE ~(job.status \notin OpenJob /\ UNCHANGED job)
             /\ ~ParkRecovered("retry_pending", "retry_pending")
    <3>1. job'.status \in {"failed", "cancelled", "completed", "waiting_for_approval"}
      BY <1>9, <2>3 DEF Restart, ReconcileCommandJob, SettleRecovered, ParkRecovered
    <3>2. QED  BY <3>1, UnparkedRest DEF Parked
  <2>4. QED  BY <2>1, <2>2, <2>3
<1>10. QED
  BY <1>1, <1>2, <1>3, <1>4, <1>5, <1>6, <1>7, <1>8, <1>9 DEF Next

\* A parked job whose active step is open runs no step, after any mix of pauses,
\* continuations, crashes between two writes and recoveries (pauseCommandJob,
\* resumeCommandJob, reconcileCommandJobsAfterRestart).
THEOREM ParkedHolds == Spec => []ParkedQuiesced
<1>1. Init => AtRest
  BY DEF Init, AtRest, Idle, PreflightPoints, Null
<1>2. Inv /\ AtRest => ParkedQuiesced
  <2> SUFFICES ASSUME Inv, AtRest, up, job.status \in Parked, job.active # Null,
                      IsOpen(steps, job.active), NEW k \in Kinds, steps[k].status = "running"
               PROVE  FALSE
    BY DEF ParkedQuiesced, Parked
  <2>1. job.active \in Kinds /\ k # job.active
    BY DEF Inv, TypeOK, AtRest
  <2>2. Ready(steps, job.active) /\ Ready(steps, k) /\ IsOpen(steps, k)
    BY DEF Inv, ActiveNeverSkips, StepOrder, Ordered, IsOpen
  <2>3. QED  BY <2>1, <2>2, RankOrder DEF Ready
<1>3. Init => DownIdle
  BY DEF Init, DownIdle
<1>4. QED  BY <1>1, <1>2, <1>3, DownStep, RestStep, InvHolds, PTL DEF Spec

=============================================================================
