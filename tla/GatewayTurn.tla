------------------------------ MODULE GatewayTurn ------------------------------
(***************************************************************************)
(* The turns of one gateway session: the preflight opens a turn and may    *)
(* code or ask the Boss before the Host works, the postflight weighs what  *)
(* the Host reports, has its draft reviewed, and settles the rows of the   *)
(* run, the cognitive task, the session and the token budget, or schedules *)
(* a continuation of the task.                                             *)
(*                                                                         *)
(* A turn comes with its decision and the decisions a code change would    *)
(* lead to, which module Routing makes.  A text is the set of patterns it  *)
(* matches.  The queue of continuations, crashes and concurrent            *)
(* postflights are module Continuation's; the coding task, the command job *)
(* and the token ledger have modules of their own.                         *)
(***************************************************************************)
EXTENDS Integers

CONSTANTS
    Sessions,    \* for each session, the turns it may have
    Reports,     \* what the Host of a turn may report
    ToolCycles,  \* continuations of a task with tools or several Workers: 8 in the code
    TalkCycles   \* continuations of any other task: 6 in the code

ASSUME CyclesAssumption == ToolCycles \in Nat /\ TalkCycles \in 0..ToolCycles

VARIABLES
    turns,         \* the turns of the session
    stage,         \* how far the turn is
    turn,          \* the turn
    outcome,       \* what the autonomous coding loop of the turn came to
    advice,        \* the Boss before the Host's work
    report,        \* the Host's report
    verdict,       \* the Verifier's verdict in force
    ruling,        \* the Boss after the Host's work
    answer,        \* what would be delivered
    task,          \* the session's cognitive task
    run,           \* the status of the turn's run
    session,       \* the status of the session
    budget,        \* the token budget of the task's root run is open
    continuation,  \* a continuation of the task is leased to the Host
    passport,      \* the verdict of the turn's Outcome Passport
    unvalidated    \* history: the last code change of the task was not validated

vars == <<turns, stage, turn, outcome, advice, report, verdict, ruling, answer,
          task, run, session, budget, continuation, passport, unvalidated>>

CodeTasks == {"coding_change", "debugging"}
HighRisks == {"high", "critical"}
Bad == {"failed", "blocked"}

-----------------------------------------------------------------------------
(* What the Host reports *)

\* A receipt: its kind and status, the files it says changed, each the set of what is
\* true of its path, and what else it says.
Receipt ==
    [kind : {"tool", "validation", "workspace", "artifact"},
     status : {"passed", "failed", "blocked", "unknown"},
     files : SUBSET SUBSET {"code", "scratch", "absolute", "inside"},
     says : SUBSET {"validates", "artifacts", "moved", "mutating"}]

\* Structured receipts decide; the wording of the summary only when there are none.
DeterministicValidationState(r) ==
    LET validations == {x \in r.receipts : x.kind = "validation" \/ "validates" \in x.says}
    IN  CASE \E x \in validations : x.status \in Bad -> "failed"
          [] validations # {} /\ (\A x \in validations : x.status = "passed") -> "passed"
          [] validations = {} /\ "check" \in r.summary /\ "error" \in r.summary -> "failed"
          [] validations = {} /\ {"check", "success"} \subseteq r.summary
                /\ "error" \notin r.summary -> "passed"
          [] OTHER -> "unknown"

IsRepositoryCodeArtifact(file) ==
    /\ "code" \in file /\ "scratch" \notin file
    /\ (IF turn.workspace THEN "inside" ELSE "absolute") \in file

\* The state of the workspace before the turn is "w0" when its Host sent one.
WorkspaceMutationObserved ==
    turn.before # "none" /\ report.workspace # "none" /\ report.workspace # turn.before

PreflightCodingIntent ==
    turn.coding \/ turn.code
        \/ turn.decision.taskType \in CodeTasks \cup {"deploy_or_destructive_action"}

TextMutation ==
    \/ \E x \in report.receipts : \E file \in x.files : IsRepositoryCodeArtifact(file)
    \/ \E x \in report.receipts : x.kind = "workspace" /\ "moved" \in x.says
    \/ /\ PreflightCodingIntent
       /\ \/ \E x \in report.receipts : "mutating" \in x.says
          \/ "mutating" \in report.summary
          \/ {"artifact", "edited"} \subseteq report.summary

AutonomousDone == outcome \in {"completed", "no_change"}

\* The loop counts every candidate its Worker gave, an empty one too, as a patch.
Mutated == TextMutation \/ WorkspaceMutationObserved \/ outcome \notin {"none", "unplanned"}

Broken ==
    \/ outcome \in {"unplanned", "failed", "validation_failed"}
    \/ /\ TextMutation
       /\ \/ \E x \in report.receipts : x.kind \in {"validation", "workspace"} /\ x.status \in Bad
          \/ PreflightCodingIntent /\ "broken" \in report.summary

Validation == IF AutonomousDone THEN "passed" ELSE DeterministicValidationState(report)

\* A coding task's change without the workspace state that proves it.
MissingWorkspaceEvidence ==
    turn.coding /\ Mutated /\ report.workspace = "none" /\ outcome = "none"

UnresolvedCodingMutation ==
    Mutated /\ (Broken \/ Validation # "passed" \/ MissingWorkspaceEvidence)

\* The decision and the user's wish for verification that the postflight goes by.
Revised == turn.changed[UnresolvedCodingMutation]
Decision == IF Mutated THEN Revised.decision ELSE turn.decision
Asked == IF Mutated THEN Revised.verify ELSE turn.verify

-----------------------------------------------------------------------------
(* The cognitive task *)

CriterionKinds == [t \in {"coding_change", "debugging", "repo_question", "simple_chat",
                          "summarization", "deploy_or_destructive_action", "memory_question",
                          "planning_or_architecture", "security_or_secret", "eval_or_benchmark"} |->
    CASE t = "coding_change" -> {"implementation", "validation", "general"}
      [] t = "debugging" -> {"implementation"}
      [] t \in {"repo_question", "simple_chat"} -> {"response"}
      [] t = "summarization" -> {"artifact"}
      [] t = "deploy_or_destructive_action" -> {"implementation", "general"}
      [] OTHER -> {"general"}]

\* What a request asks for: the criteria of one kind that came with it are one check.
AcceptanceCriteriaFor(t) ==
    {<<t.decision.taskType, kind>> : kind \in CriterionKinds[t.decision.taskType]}
        \cup (IF t.verify THEN {<<"verification", "implementation">>} ELSE {})

Merged(checks, criteria) ==
    [c \in DOMAIN checks \cup criteria |-> IF c \in DOMAIN checks THEN checks[c] ELSE "pending"]

\* An irreversible choice that the user did not approve.
Blocking(t) == t.irreversible /\ ~t.approved

\* Several Workers that could help count like tools; fresh data and long contexts are left out.
CyclesFor(t) ==
    IF t.decision.tools \/ t.decision.taskType \in CodeTasks \cup {"security_or_secret", "planning_or_architecture"}
    THEN ToolCycles ELSE TalkCycles

NoChecks == [c \in {} |-> "pending"]
NoTask == [status |-> "none", cycle |-> 0, max |-> 0, checks |-> NoChecks]

StatusFor(t) == IF Blocking(t) THEN "waiting_for_user" ELSE "active"

\* The session's task goes on when the turn is a continuation or an answer to a
\* question; a task left otherwise is cancelled, and another begins.
Reuses(t) == task.status = "waiting_for_user" \/ (task.status = "active" /\ t.reuse)

PrepareCognitiveTask(t) ==
    [status |-> IF Reuses(t) /\ task.status = "active" THEN "active" ELSE StatusFor(t),
     cycle |-> IF Reuses(t) THEN task.cycle ELSE 0,
     max |-> IF Reuses(t) /\ task.max > CyclesFor(t) THEN task.max ELSE CyclesFor(t),
     checks |-> Merged(IF Reuses(t) THEN task.checks ELSE NoChecks, AcceptanceCriteriaFor(t))]

AllReceiptsPassed(r) == r.receipts # {} /\ \A x \in r.receipts : x.status = "passed"

\* The status of a check after the report: old when the report says nothing of it.
CheckStatus(kind, old) ==
    LET coding == Decision.taskType \in CodeTasks
        failing == {x \in report.receipts : x.status \in Bad}
        produced == \E x \in report.receipts :
                        x.kind = "artifact" \/ "artifacts" \in x.says \/ x.files # {}
        talked == IF report.draft # {} THEN "passed" ELSE "pending"
    IN  CASE report.failed -> "failed"
          [] ~report.failed /\ kind = "validation" ->
                IF Validation = "unknown" THEN "pending" ELSE Validation
          [] ~report.failed /\ kind = "implementation" ->
                IF Broken THEN "failed"
                ELSE IF coding THEN IF Mutated THEN "passed" ELSE "pending"
                ELSE IF AllReceiptsPassed(report) THEN "passed" ELSE old
          [] ~report.failed /\ kind = "artifact" ->
                IF produced \/ WorkspaceMutationObserved THEN "passed"
                ELSE IF \E x \in failing : x.kind = "artifact" THEN "failed" ELSE "pending"
          [] ~report.failed /\ kind = "general" /\ Decision.tools ->
                IF failing # {} THEN "failed"
                ELSE IF AllReceiptsPassed(report) \/ (coding /\ Validation = "passed" /\ Mutated)
                     THEN "passed" ELSE "pending"
          [] OTHER -> talked

\* Faulty: a check that passed once stays passed.
StickyChecks(checks) ==
    [c \in DOMAIN checks |->
        IF checks[c] = "passed" THEN "passed" ELSE CheckStatus(c[2], checks[c])]

AcceptanceChecksFromEvidence(checks) == [c \in DOMAIN checks |-> CheckStatus(c[2], checks[c])]

AcceptanceCriteriaSatisfied == \A c \in DOMAIN task.checks : task.checks[c] = "passed"

-----------------------------------------------------------------------------
(* The preflight *)

BossVerdicts == {"approve", "revise", "delegate", "ask_user", "block"}

\* A mandatory Boss that does not answer blocks; the silence of another is "none".
BossAnswers(mandatory) == IF mandatory THEN BossVerdicts ELSE BossVerdicts \cup {"none"}

NoReport ==
    [failed |-> FALSE, draft |-> {}, summary |-> {}, receipts |-> {}, workspace |-> "none",
     overBudget |-> FALSE]

Rest == {"idle", "ended", "dropped"}

After == [s \in {"opened", "code", "advice", "verify", "revise", "boss", "bossRevise", "final"} |->
    CASE s = "opened" -> "code" [] s = "code" -> "advice" [] s = "advice" -> "host"
      [] s = "verify" -> "revise" [] s = "revise" -> "boss" [] s = "boss" -> "bossRevise"
      [] s = "bossRevise" -> "final" [] s = "final" -> "settle"]

Init ==
    /\ turns \in Sessions
    /\ stage = "idle" /\ turn \in turns
    /\ outcome = "none" /\ advice = "none"
    /\ report = NoReport /\ verdict = "none" /\ ruling = "none" /\ answer = "draft"
    /\ task = NoTask /\ run = "none" /\ session = "none" /\ budget = "closed"
    /\ continuation = FALSE /\ passport = "none" /\ unvalidated = FALSE

\* Whatever the session was before, a cancelled one included.
EnsureGatewaySession == session' = "working"

\* The session, the run and the task before any model is called.
Open(t) ==
    /\ stage \in Rest
    /\ stage' = "opened" /\ turn' = t
    /\ outcome' = "none" /\ advice' = "none"
    /\ report' = NoReport /\ verdict' = "none" /\ ruling' = "none" /\ answer' = "draft"
    /\ EnsureGatewaySession /\ run' = "running"
    /\ task' = PrepareCognitiveTask(t)
    /\ budget' = IF Reuses(t) /\ budget # "closed" THEN "used" ELSE "fresh"
    /\ continuation' = FALSE /\ passport' = "none"
    /\ unvalidated' = (unvalidated /\ Reuses(t))
    /\ UNCHANGED turns

Unmoved == <<turns, turn, task, run, session, budget, continuation, passport, unvalidated>>

\* The tokens of the Host are reserved; what a new budget has is always enough.
AuthorizeHost ==
    /\ stage = "opened" /\ stage' = After[stage]
    /\ UNCHANGED <<outcome, advice, report, verdict, ruling, answer>> /\ UNCHANGED Unmoved

\* The preflight throws: the rows stay as they are.
DenyHost ==
    /\ stage = "opened" /\ budget = "used" /\ stage' = "dropped"
    /\ UNCHANGED <<outcome, advice, report, verdict, ruling, answer>> /\ UNCHANGED Unmoved

AutonomousEligible ==
    /\ turn.coding /\ turn.approved
    /\ turn.decision.taskType \in CodeTasks /\ turn.decision.risk \in {"low", "medium"}
    /\ turn.decision.tools

VerifierMandatory == Asked \/ UnresolvedCodingMutation \/ Decision.risk \in HighRisks

\* A change that passed its validation needs no optional Verifier.
ValidationReplacesVerifier ==
    /\ Validation = "passed" /\ ~VerifierMandatory
    /\ Decision.taskType \in CodeTasks \cup {"repo_question"}

VerifierCalled ==
    /\ Decision.useVerifier /\ ~ValidationReplacesVerifier
    /\ ~report.overBudget \/ VerifierMandatory

\* Whether a stage of the turn that is not always taken is.
Needed(s) ==
    CASE s = "code" -> AutonomousEligible /\ turn.executes
      [] s = "advice" -> turn.decision.useBoss \/ turn.decision.approval
      [] s = "verify" -> VerifierCalled
      [] s = "revise" -> verdict = "revise" /\ (VerifierMandatory \/ Decision.approval)
      [] s = "boss" ->
            \/ Decision.approval \/ verdict = "escalate"
            \/ Decision.useBoss /\ Decision.risk = "critical" /\ ~turn.boss
      [] s = "bossRevise" -> ruling = "revise"
      [] s = "final" ->
            /\ answer # "draft" /\ Decision.useVerifier
            /\ verdict = "revise" /\ Decision.risk \in HighRisks
      [] OTHER -> TRUE

Skip ==
    /\ stage \in DOMAIN After /\ ~Needed(stage)
    /\ stage' = After[stage]
    /\ UNCHANGED <<outcome, advice, report, verdict, ruling, answer>> /\ UNCHANGED Unmoved

Reach(s) == stage = s /\ Needed(s) /\ stage' = After[s]

\* "unplanned" is a failure before the first candidate.
RunAutonomousCodingLoop ==
    /\ Reach("code")
    /\ outcome' \in {"unplanned", "failed", "validation_failed", "blocked", "remote_required",
                     "no_change", "completed"}
    /\ UNCHANGED <<advice, report, verdict, ruling, answer>> /\ UNCHANGED Unmoved

BossPreflight ==
    /\ Reach("advice")
    /\ advice' \in BossAnswers(turn.boss \/ turn.decision.approval)
    /\ UNCHANGED <<outcome, report, verdict, ruling, answer>> /\ UNCHANGED Unmoved

\* The Host never comes back.
AbandonTurn ==
    /\ stage = "host" /\ stage' = "dropped"
    /\ UNCHANGED <<outcome, advice, report, verdict, ruling, answer>> /\ UNCHANGED Unmoved

-----------------------------------------------------------------------------
(* The postflight *)

Rows == <<turns, run, session, budget, continuation, passport>>
Verdicts == <<advice, verdict, ruling>>

ReceiveReport(r) ==
    /\ stage = "host" /\ stage' = "weigh"
    /\ report' = r
    /\ UNCHANGED <<turn, outcome, answer, task, unvalidated>> /\ UNCHANGED Verdicts /\ UNCHANGED Rows

\* The checks of the task follow from the evidence.
WeighEvidence ==
    /\ stage = "weigh" /\ ~report.failed /\ stage' = "verify"
    /\ task' = [task EXCEPT !.checks = AcceptanceChecksFromEvidence(@)]
    /\ unvalidated' = (UnresolvedCodingMutation \/ (unvalidated /\ Validation # "passed"))
    /\ UNCHANGED <<turn, outcome, report, answer>> /\ UNCHANGED Verdicts /\ UNCHANGED Rows

\* The Host failed: nothing is reviewed, and the task ends with the turn.
FailTurn ==
    /\ stage = "weigh" /\ report.failed /\ stage' = "ended"
    /\ task' = [task EXCEPT !.status = "failed", !.checks = AcceptanceChecksFromEvidence(@)]
    /\ run' = "failed" /\ session' = "failed" /\ budget' = "closed" /\ passport' = "failed"
    /\ UNCHANGED <<turns, turn, outcome, report, answer, continuation, unvalidated>> /\ UNCHANGED Verdicts

VerifierVerdicts == {"pass", "revise", "escalate", "block"}

\* A mandatory Verifier that does not answer escalates.
VerifierAnswers(mandatory) == IF mandatory THEN VerifierVerdicts ELSE VerifierVerdicts \cup {"none"}

Verify ==
    /\ Reach("verify")
    /\ verdict' \in VerifierAnswers(VerifierMandatory)
    /\ answer' = IF verdict' = "block" THEN "blocked" ELSE answer
    /\ UNCHANGED <<turn, outcome, advice, report, ruling, task, unvalidated>> /\ UNCHANGED Rows

\* A revision that fails leaves the answer as it is; one that gives back what the
\* Host had written is the draft again, whatever the answer had become.
ReviseDraft ==
    /\ Reach("revise") \/ Reach("bossRevise")
    /\ answer' \in {answer, "revised", "draft"}
    /\ UNCHANGED <<turn, outcome, report, task, unvalidated>> /\ UNCHANGED Verdicts /\ UNCHANGED Rows

\* Faulty: a block of the Boss leaves the answer as it is.
BossBlockUnanswered ==
    /\ Reach("boss")
    /\ ruling' \in BossAnswers(Decision.approval \/ verdict = "escalate")
    /\ answer' = IF ruling' \in {"ask_user", "delegate"} THEN "question" ELSE answer
    /\ UNCHANGED <<turn, outcome, advice, report, verdict, task, unvalidated>> /\ UNCHANGED Rows

BossPostflight ==
    /\ Reach("boss")
    /\ ruling' \in BossAnswers(Decision.approval \/ verdict = "escalate")
    /\ answer' = CASE ruling' = "block" -> "blocked"
                   [] ruling' \in {"ask_user", "delegate"} -> "question"
                   [] OTHER -> answer
    /\ UNCHANGED <<turn, outcome, advice, report, verdict, task, unvalidated>> /\ UNCHANGED Rows

\* Faulty: what the final Verifier wants revised is revised again.
ReviseUntilPassed ==
    /\ stage = "final" /\ Needed("final")
    /\ \E v \in VerifierAnswers(Decision.risk = "critical") :
        /\ verdict' = IF v = "none" THEN verdict ELSE v
        /\ answer' = IF v = "block" THEN "blocked" ELSE answer
        /\ stage' = IF v = "revise" THEN "revise" ELSE "settle"
    /\ UNCHANGED <<turn, outcome, advice, report, ruling, task, unvalidated>> /\ UNCHANGED Rows

\* What was revised is verified again when the risk is high.
VerifyRevision ==
    /\ Reach("final")
    /\ \E v \in VerifierAnswers(Decision.risk = "critical") :
        /\ verdict' = IF v = "none" THEN verdict ELSE v
        /\ answer' = IF v = "block" THEN "blocked" ELSE answer
    /\ UNCHANGED <<turn, outcome, advice, report, ruling, task, unvalidated>> /\ UNCHANGED Rows

-----------------------------------------------------------------------------
(* How a turn is settled *)

\* The postflight's ruling, or the preflight's advice when there is none.
BossDecision == IF ruling # "none" THEN ruling ELSE advice

Blocked == BossDecision = "block" \/ verdict = "block"

GenuineUserBlocker == "asks" \in report.draft \/ BossDecision = "ask_user"

HostStoppedBeforeTerminalWork ==
    /\ "asks" \notin report.draft \cup report.summary
    /\ "stops" \in report.draft \/ "exhausted" \in report.summary

HostInterrupted ==
    /\ task.status = "active" /\ HostStoppedBeforeTerminalWork
    /\ ~Decision.approval /\ ~GenuineUserBlocker /\ verdict # "block"

AcceptancePending ==
    /\ task.status = "active" /\ ~AcceptanceCriteriaSatisfied
    /\ ~GenuineUserBlocker /\ ~Blocked

\* What is left to do when the turn is over.
Unfinished == UnresolvedCodingMutation \/ AcceptancePending \/ HostInterrupted

ContinuationEligible ==
    /\ Unfinished /\ task.status = "active"
    /\ UnresolvedCodingMutation => report.workspace # "none"
    /\ task.cycle < task.max

PerTurn == <<turns, turn, outcome, report, unvalidated>>

\* Faulty: a run that is blocked says so even when its turn failed.
BlockedRunFirst(failure) == IF Blocked THEN "blocked" ELSE IF failure THEN "failed" ELSE "done"

RunStatus(failure) == IF failure THEN "failed" ELSE IF Blocked THEN "blocked" ELSE "done"

SessionStatus(failure) ==
    IF failure THEN "failed" ELSE IF GenuineUserBlocker THEN "paused" ELSE "done"

TaskStatus(failure) ==
    IF failure \/ Blocked THEN "failed"
    ELSE IF GenuineUserBlocker THEN "waiting_for_user" ELSE "completed"

\* The verdict the Outcome Passport keeps of a turn with this answer, continued or not.
OutcomeVerdict(failure, final, continued) ==
    CASE failure -> "failed"
      [] ~failure /\ Blocked -> "blocked"
      [] ~failure /\ ~Blocked ->
            IF continued \/ final # "draft" \/ verdict = "revise" \/ BossDecision = "revise"
            THEN "revised" ELSE "success"

\* The continuation is queued and leased to the Host at once; a block fails the task
\* all the same.
ScheduleContinuation ==
    /\ stage = "settle" /\ ContinuationEligible /\ ~GenuineUserBlocker
    /\ stage' = "ended"
    /\ task' = [task EXCEPT !.cycle = @ + 1, !.status = IF Blocked THEN "failed" ELSE @]
    /\ answer' = "draft" /\ continuation' = TRUE
    /\ run' = RunStatus(FALSE) /\ session' = "working"
    /\ passport' = OutcomeVerdict(FALSE, "draft", TRUE)
    /\ UNCHANGED budget /\ UNCHANGED PerTurn /\ UNCHANGED Verdicts

\* A task that waits for its user is not leased: the postflight throws.
RefuseContinuation ==
    /\ stage = "settle" /\ ContinuationEligible /\ GenuineUserBlocker
    /\ stage' = "dropped"
    /\ task' = [task EXCEPT !.cycle = @ + 1, !.status = "waiting_for_user"]
    /\ UNCHANGED answer /\ UNCHANGED PerTurn /\ UNCHANGED Verdicts /\ UNCHANGED Rows

\* Unfinished work that cannot be continued fails the turn.
Conclude ==
    /\ stage = "settle" /\ ~ContinuationEligible
    /\ stage' = "ended"
    /\ answer' = IF Unfinished THEN "blocked" ELSE answer
    /\ task' = [task EXCEPT !.status = TaskStatus(Unfinished)]
    /\ run' = RunStatus(Unfinished) /\ session' = SessionStatus(Unfinished)
    /\ passport' = OutcomeVerdict(Unfinished, answer', FALSE)
    /\ budget' = "closed"
    /\ UNCHANGED continuation /\ UNCHANGED PerTurn /\ UNCHANGED Verdicts

Advance ==
    \/ AuthorizeHost \/ DenyHost \/ Skip
    \/ RunAutonomousCodingLoop \/ BossPreflight
    \/ AbandonTurn \/ (\E r \in Reports : ReceiveReport(r))
    \/ WeighEvidence \/ FailTurn
    \/ Verify \/ ReviseDraft \/ BossPostflight \/ VerifyRevision
    \/ ScheduleContinuation \/ RefuseContinuation \/ Conclude

NewTurn == \E t \in turns : Open(t)

\* The Host goes on with the continuation it was given, whose prompt says what it is.
Resume == continuation /\ \E t \in turns : Open([t EXCEPT !.reuse = TRUE])

Next == Advance \/ NewTurn \/ Resume

Spec == Init /\ [][Next]_vars /\ WF_vars(Advance) /\ WF_vars(Resume)

-----------------------------------------------------------------------------
(* Correctness *)

\* Every row has a status of its own kind, and a task has its cycles within its limit.
TypeOK ==
    /\ stage \in Rest \cup DOMAIN After \cup {"host", "weigh", "settle"}
    /\ advice \in BossVerdicts \cup {"none"} /\ ruling \in BossVerdicts \cup {"none"}
    /\ verdict \in VerifierVerdicts \cup {"none"}
    /\ answer \in {"draft", "revised", "question", "blocked"}
    /\ task.status \in {"none", "active", "waiting_for_user", "completed", "failed"}
    /\ task.cycle \in 0..task.max /\ task.max \in 0..ToolCycles
    /\ \A c \in DOMAIN task.checks : task.checks[c] \in {"pending", "passed", "failed"}
    /\ run \in {"none", "running", "failed", "blocked", "done"}
    /\ session \in {"none", "working", "failed", "paused", "done"}
    /\ budget \in {"closed", "fresh", "used"}
    /\ passport \in {"none", "failed", "blocked", "revised", "success"}
    /\ continuation \in BOOLEAN /\ unvalidated \in BOOLEAN

\* The rows are typed, and those the postflight writes one after the other agree when
\* it is over: the run failed with its session and its task; a blocked run leaves no task
\* to go on with; a continuation of a run that is done finds its task active, its budget
\* open and its session working, of which nothing is left without one; and the Outcome
\* Passport, from which the routing learns, reports a success only of an answer delivered
\* as the Host gave it.
RowsAgree ==
    /\ TypeOK
    /\ stage = "ended" =>
        /\ run = "failed" <=> session = "failed"
        /\ run = "failed" <=> passport = "failed"
        /\ run = "blocked" <=> passport = "blocked"
        /\ run \in {"failed", "blocked"} => task.status = "failed"
        /\ continuation /\ run = "done" =>
              task.status = "active" /\ task.cycle > 0 /\ budget # "closed" /\ session = "working"
        /\ ~continuation => budget = "closed" /\ session # "working"
        /\ ~continuation /\ run = "done" =>
              session = "paused" <=> task.status = "waiting_for_user"
        /\ passport = "success" => ~continuation /\ answer = "draft"

\* A task that required deterministic validation is not completed over a code change
\* that was not validated, however many turns ago it was made and whatever the turns
\* since reported.  What the autonomous loop calls validated counts as such, and a task
\* that waited for an approval when its Host answered is not looked at.
MutationsValidated ==
    /\ stage = "ended" /\ task.status = "completed" /\ ~Blocking(turn)
    /\ \E c \in DOMAIN task.checks : c[2] = "validation"
    => ~unvalidated

\* A task is completed only with every criterion of every turn it went through passed
\* in its last one, unless it waited for an approval.
AcceptedWhenDone ==
    stage = "ended" /\ task.status = "completed" /\ ~Blocking(turn) => AcceptanceCriteriaSatisfied

\* The completion of a task rests on evidence for all of it.
CompletedOnEvidence == AcceptedWhenDone /\ MutationsValidated

\* Before a turn is settled, a Verifier that was asked for, or that an unresolved change
\* or a high risk makes mandatory, has given its verdict, whatever the Host spent and
\* whatever the tests said; and a Boss that approval or the Verifier's escalation makes
\* mandatory has ruled on the answer.
MandatoryAnswered ==
    stage = "settle" =>
        /\ Decision.useVerifier /\ VerifierMandatory => verdict # "none"
        /\ Decision.approval => ruling # "none"
        /\ verdict = "escalate" => ruling # "none" \/ answer # "draft"

\* Without a continuation, an answer the Boss blocked after the Host's work, or the
\* Verifier when the Boss did not rule on it, is not delivered; nor is the answer of a
\* turn that failed for its unfinished work.
BlockedNotDelivered ==
    stage = "ended" /\ ~continuation /\ ~report.failed =>
        /\ ruling = "block" => answer = "blocked"
        /\ verdict = "block" /\ ruling = "none" => answer = "blocked"
        /\ run = "failed" => answer = "blocked"

\* The reviewers are heard, and what they rule binds.
ReviewsBind == MandatoryAnswered /\ BlockedNotDelivered

\* "Verifier/Boss block: fail closed."
BlockFailsClosed ==
    stage = "ended" /\ ~report.failed /\ Blocked => answer = "blocked" /\ ~continuation

\* A turn that is begun comes to an end: settled, or dropped by its Host or an error.
TurnEnds == [](stage \notin Rest => <>(stage \in Rest))

\* A task whose Host keeps coming back is not continued for ever: a task that stays
\* active is the work of users who begin others, or of turns that are dropped.
RootEnds ==
    []<>(task.status # "active" \/ stage = "dropped")
        \/ []<><<\E t \in turns : Open(t) /\ ~Reuses(t)>>_vars

\* Neither a turn nor the turns of one task go on for ever.
WorkEnds == TurnEnds /\ RootEnds

=============================================================================
