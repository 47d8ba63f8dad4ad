------------------------------- MODULE Routing -------------------------------
(***************************************************************************)
(* How a turn's decision is made and remade.  A request is classified, its *)
(* risk and roles are chosen, unfinished coding work overrides both, the   *)
(* Host-led policy or a planning Host sets the roles, token and latency    *)
(* plans follow, and a code change the postflight observes makes the       *)
(* decision anew.  The session keeps the decision of its last turn, which  *)
(* the next turn reads.                                                    *)
(*                                                                         *)
(* The text of a request is the set of patterns it matches.  Tokens are in *)
(* thousands where sizes are compared, confidence is in percent.           *)
(***************************************************************************)
EXTENDS Integers

CONSTANTS
    Requests,      \* requests a turn may bring
    Passports,     \* counts of a task class's outcomes
    LowTierModes,  \* values of ZENOS_LOW_TIER_FIRST_MODE
    Approved,      \* ZENOS_LOW_TIER_FIRST_APPROVED_TASKS
    MinSamples     \* ZENOS_LOW_TIER_MIN_OUTCOMES

VARIABLES
    hostLed,      \* ZENOS_ORCHESTRATION_MODE is not "legacy"
    stage,        \* how far the turn is
    request,      \* the request as the preflight completed it
    continued,    \* the turn continues unfinished coding work
    decision,     \* the decision in force
    latency,      \* the latency plan in force
    verified,     \* the session's decision uses the Verifier
    asked,        \* history: the turn, or one it continues, asked for it
    interrupted   \* history: a turn it continues died before the roles were set

vars == <<hostLed, stage, request, continued, decision, latency, verified, asked, interrupted>>

-----------------------------------------------------------------------------
(* Requests and decisions *)

CodeTasks == {"coding_change", "debugging"}
SourceTasks == CodeTasks \cup {"repo_question", "security_or_secret"}
MemoryTasks == {"memory_question", "planning_or_architecture"}
TaskType == SourceTasks \cup MemoryTasks \cup
    {"simple_chat", "summarization", "deploy_or_destructive_action", "eval_or_benchmark"}
RiskLevel == {"low", "medium", "high", "critical"}
HighRisks == {"high", "critical"}
Acting == {"execute", "mutate"}

PipelineMode == {"direct_fast_path", "grounded_path", "worker_compression_path",
                 "verified_path", "escalated_deep_path"}

RouteDecision ==
    [taskType : TaskType, risk : RiskLevel, mode : PipelineMode,
     worker : {"none", "cheap", "standard"}, verifier : {"none", "cheap", "premium"},
     memory : BOOLEAN, tools : BOOLEAN, useWorker : BOOLEAN, useVerifier : BOOLEAN,
     useBoss : BOOLEAN, escalates : BOOLEAN, approval : BOOLEAN,
     calls : 0..2, revisions : 0..1]

Pick(test, a, b) == IF test THEN a ELSE b
Larger(a, b) == Pick(a < b, b, a)
Between(value, least, most) == Larger(least, Pick(most < value, most, value))
Within(least, most) == least..most

RuntimeIntent == {"explain", "analyze", "plan", "execute", "mutate"}
ContextTokens == Within(0, 2000000)

\* What is read of a request: text is the set of patterns it matches; root, named and
\* unfinished say that a workspace came with it, that its messages name one, and that they
\* show code work that was not finished.
RuntimeContext ==
    [text : SUBSET STRING, intent : RuntimeIntent,
     files : BOOLEAN, logs : BOOLEAN, code : BOOLEAN, untrusted : BOOLEAN, fresh : BOOLEAN,
     verify : BOOLEAN, boss : BOOLEAN, tokens : ContextTokens, confidence : 0..100,
     taskHint : TaskType \cup {"none"}, riskHint : RiskLevel \cup {"none"},
     root : BOOLEAN, named : BOOLEAN, unfinished : BOOLEAN]

ASSUME RequestsAssumption == Requests \subseteq RuntimeContext

\* The first rule that applies: rules are <<condition, outcome>>, the last always applies.
FirstMatch(rules) ==
    rules[CHOOSE i \in DOMAIN rules : rules[i][1] /\ \A j \in 1..(i - 1) : ~rules[j][1]][2]

Matches(r, patterns) == r.text \cap patterns # {}

UserExplicitlyDisabledVerifier(r) == Matches(r, {"opt_out"}) /\ ~Matches(r, {"keep_verifier"})

-----------------------------------------------------------------------------
(* The policy: classifyTask, assessRisk, choosePipeline *)

HasDestructiveIntent(r) ==
    \/ Matches(r, {"destructive"})
    \/ Matches(r, {"deploy_production"}) /\ r.intent \in Acting

HasDeployAction(r) ==
    \/ Matches(r, {"deploy_now"})
    \/ Matches(r, {"deploy", "deploy_now"}) /\ r.intent \in Acting

ClassifyTask(r) ==
    LET aboutCode == Matches(r, {"code"})
        operational == r.intent # "explain" /\ Matches(r, {"tool"})
    IN  FirstMatch(<<
            <<r.taskHint # "none", r.taskHint>>,
            <<HasDestructiveIntent(r) \/ HasDeployAction(r), "deploy_or_destructive_action">>,
            <<r.intent \in {"plan", "explain"} /\ Matches(r, {"architecture"}), "planning_or_architecture">>,
            <<Matches(r, {"security"}), "security_or_secret">>,
            <<Matches(r, {"eval"}), "eval_or_benchmark">>,
            <<r.code, Pick(Matches(r, {"debug"}), "debugging", "coding_change")>>,
            <<Matches(r, {"debug"}) /\ (r.files \/ r.logs \/ aboutCode), "debugging">>,
            <<Matches(r, {"summary"}), "summarization">>,
            <<Matches(r, {"memory"}), "memory_question">>,
            <<Matches(r, {"architecture"}), "planning_or_architecture">>,
            <<aboutCode \/ operational \/ r.files \/ r.logs,
              Pick(r.intent \in Acting \/ Matches(r, {"mutation"}), "coding_change", "repo_question")>>,
            <<TRUE, "simple_chat">>>>)

WantsVerification(r) == r.verify /\ ~UserExplicitlyDisabledVerifier(r)

AssessRisk(task, r) ==
    FirstMatch(<<
        <<r.riskHint # "none", r.riskHint>>,
        <<HasDestructiveIntent(r), "critical">>,
        <<task = "deploy_or_destructive_action", Pick(r.intent \in Acting, "critical", "high")>>,
        <<task = "security_or_secret", "high">>,
        <<r.untrusted /\ task \in {"coding_change", "repo_question"}, "high">>,
        <<WantsVerification(r), "high">>,
        <<task \in CodeTasks \cup {"planning_or_architecture"}, "medium">>,
        <<TRUE, "low">>>>)

\* The tests of the function are made in another order than it makes them, which
\* overwrite one another: what is left in the end is stated.
ChoosePipeline(r) ==
    LET task == ClassifyTask(r)
        risk == AssessRisk(task, r)
        optOut == UserExplicitlyDisabledVerifier(r)
        doubtful == r.confidence < 55
        strict == risk \in HighRisks \/ doubtful
        memory == task \in MemoryTasks \cup SourceTasks
        tools == task \in SourceTasks \/ (task = "eval_or_benchmark" /\ (r.files \/ r.logs)) \/ r.fresh
        useWorker ==
            \/ task = "summarization" /\ r.tokens >= 4000
            \/ task # "simple_chat" /\ r.tokens >= 6000
            \/ task \in CodeTasks /\ (r.files \/ r.tokens >= 1500 \/ r.intent \in Acting)
        byRisk ==
            risk = "medium" /\ (r.verify \/ task \in CodeTasks \cup
                {"eval_or_benchmark", "security_or_secret", "deploy_or_destructive_action"})
        useVerifier ==
            ~optOut /\ (strict \/ byRisk \/ r.verify \/ task = "eval_or_benchmark")
        useBoss == risk = "critical" \/ doubtful \/ r.boss
    IN  [taskType |-> task, risk |-> risk,
         mode |-> FirstMatch(<<
            <<useBoss, "escalated_deep_path">>,
            <<~optOut /\ (strict \/ task = "eval_or_benchmark"), "verified_path">>,
            <<useWorker, "worker_compression_path">>,
            <<memory \/ (optOut /\ tools), "grounded_path">>,
            <<useVerifier, "verified_path">>,
            <<TRUE, "direct_fast_path">>>>),
         worker |-> Pick(useWorker, Pick(task \in CodeTasks, "standard", "cheap"), "none"),
         verifier |-> Pick(useVerifier, Pick(risk = "critical", "premium", "cheap"), "none"),
         memory |-> memory, tools |-> tools,
         useWorker |-> useWorker, useVerifier |-> useVerifier, useBoss |-> useBoss,
         escalates |-> strict \/ r.boss, approval |-> risk = "critical",
         calls |-> Pick(useWorker, Pick(r.tokens >= 6000, 2, 1), 0),
         revisions |-> Pick(useVerifier, 1, 0)]

-----------------------------------------------------------------------------
(* Who sets the roles *)

RoleMode(d, useWorker, useVerifier, useBoss) ==
    FirstMatch(<<<<useBoss, "escalated_deep_path">>,
                 <<useVerifier, "verified_path">>,
                 <<useWorker, "worker_compression_path">>,
                 <<d.tools \/ d.memory, "grounded_path">>,
                 <<TRUE, "direct_fast_path">>>>)

\* d with the roles; a tier it has is kept.
WithRoles(d, useWorker, useVerifier, useBoss, workerTier) ==
    [d EXCEPT
        !.mode = RoleMode(d, useWorker, useVerifier, useBoss),
        !.useWorker = useWorker, !.useVerifier = useVerifier, !.useBoss = useBoss,
        !.worker = Pick(useWorker, workerTier, "none"),
        !.verifier = Pick(useVerifier, Pick(@ = "none", "cheap", @), "none"),
        !.calls = Pick(useWorker, Larger(1, @), 0)]

\* lowTierEvidenceFor: shares compared without dividing.
LowTierReady(p) ==
    /\ p.samples >= Between(MinSamples, 30, 100)
    /\ 10 * p.successes >= 9 * p.samples
    /\ 20 * p.failures <= p.samples
    /\ 10 * p.backed >= 8 * p.samples
    /\ p.invalid = 0
    /\ 100 * p.accepted >= 85 * p.feedback

DecideLowTierRouting(d, r, mode, passport, selected) ==
    /\ d.taskType \in Approved \cap {"repo_question", "coding_change", "debugging"}
    /\ d.risk \in {"low", "medium"} /\ r.root /\ d.tools
    /\ \/ mode = "enabled"
       \/ mode = "canary" /\ LowTierReady(passport) /\ selected

\* Faulty: the revisions of the baseline are kept.
LedWithOldRevisions(d, r, useWorker) ==
    LET useVerifier == WantsVerification(r)
        useBoss == r.boss \/ d.approval \/ d.risk = "critical"
    IN  [WithRoles(d, useWorker, useVerifier, useBoss, "cheap") EXCEPT !.escalates = useBoss]

ApplyHostLedPolicy(d, r, useWorker) ==
    LET useVerifier == WantsVerification(r)
        useBoss == r.boss \/ d.approval \/ d.risk = "critical"
    IN  [WithRoles(d, useWorker, useVerifier, useBoss, "cheap") EXCEPT
            !.escalates = useBoss, !.revisions = Pick(useVerifier, Larger(1, @), 0)]

NeedsHostPlanning(r, d) ==
    \/ r.boss \/ r.verify
    \/ d.risk \in HighRisks \/ r.confidence < 72
    \/ d.useWorker \/ d.useBoss
    \/ d.taskType \in {"repo_question", "planning_or_architecture", "security_or_secret",
                       "deploy_or_destructive_action"}
    \/ d.tools /\ r.intent \in Acting

DeterministicWorkerFloor(d, r) ==
    /\ d.useWorker
    /\ d.taskType \in CodeTasks \/ (d.taskType = "summarization" /\ r.tokens >= 4000)

\* The roles the baseline requires, whatever a planning Host asks for.
RequiredVerifier(d, r) ==
    /\ ~UserExplicitlyDisabledVerifier(r)
    /\ d.useVerifier \/ r.verify \/ d.approval \/ d.risk \in HighRisks

RequiredBoss(d, r) == d.useBoss \/ r.boss \/ d.approval \/ d.risk = "critical"

StandardTier(d) == Pick(d.worker = "none", "standard", d.worker)

GatewayHostPlan == [useWorker : BOOLEAN, useVerifier : BOOLEAN, useBoss : BOOLEAN, unsure : BOOLEAN]

\* Faulty: a Host may plan the Verifier the user turned off.
PlanBeatsOptOut(d, plan, r) ==
    LET useVerifier == RequiredVerifier(d, r) \/ plan.useVerifier
        useBoss == RequiredBoss(d, r) \/ plan.useBoss
    IN  [WithRoles(d, DeterministicWorkerFloor(d, r) \/ plan.useWorker, useVerifier, useBoss,
                   StandardTier(d)) EXCEPT
            !.escalates = @ \/ useBoss \/ plan.unsure,
            !.revisions = Pick(useVerifier, Larger(1, @), 0)]

PipelineForHostPlan(d, plan, r) ==
    LET useVerifier == ~UserExplicitlyDisabledVerifier(r) /\ (RequiredVerifier(d, r) \/ plan.useVerifier)
        useBoss == RequiredBoss(d, r) \/ plan.useBoss
    IN  [WithRoles(d, DeterministicWorkerFloor(d, r) \/ plan.useWorker, useVerifier, useBoss,
                   StandardTier(d)) EXCEPT
            !.escalates = @ \/ useBoss \/ plan.unsure,
            !.revisions = Pick(useVerifier, Larger(1, @), 0)]

HostPlanningFallback(d, r) ==
    [WithRoles(d, DeterministicWorkerFloor(d, r), RequiredVerifier(d, r), RequiredBoss(d, r),
               StandardTier(d)) EXCEPT
        !.escalates = @ \/ RequiredBoss(d, r)]

-----------------------------------------------------------------------------
(* Unfinished coding work *)

\* preserveUnfinishedCodingContinuity: "unfinished" says that the earlier messages
\* show changed code and that the last word on it is not that it is finished.
Recovers(r) == ~r.code /\ Matches(r, {"follow_up"}) /\ r.unfinished

Resumed(r, confidence) ==
    [r EXCEPT !.files = TRUE, !.code = TRUE, !.verify = @ \/ verified,
              !.intent = Pick(@ = "execute", "execute", "mutate"),
              !.confidence = Larger(@, confidence)]

Recovered(r) ==
    IF Recovers(r) THEN [Resumed(r, 90) EXCEPT !.root = @ \/ r.named] ELSE r

ActiveCodingContinuationDecision(d, r) ==
    [d EXCEPT
        !.taskType = "coding_change", !.risk = "high",
        !.mode = Pick(r.boss, "escalated_deep_path", "grounded_path"),
        !.worker = "none", !.useWorker = FALSE, !.calls = 0,
        !.verifier = Pick(r.verify, "cheap", "none"), !.useVerifier = r.verify,
        !.useBoss = r.boss, !.escalates = r.boss, !.approval = FALSE,
        !.memory = TRUE, !.tools = TRUE,
        !.revisions = Pick(r.verify, Larger(1, @), 0)]

-----------------------------------------------------------------------------
(* Plans: shares of tokens are in two-hundredths, shares of time in thousandths *)

Rounded(numerator, denominator) == (2 * numerator + denominator) \div (2 * denominator)

TaskBase == [t \in TaskType |->
    CASE t = "simple_chat" -> 3500 [] t = "memory_question" -> 5000 [] t = "repo_question" -> 8000
      [] t = "coding_change" -> 14000 [] t = "debugging" -> 13000 [] t = "summarization" -> 9000
      [] t = "security_or_secret" -> 12000 [] t = "deploy_or_destructive_action" -> 10000
      [] OTHER -> 11000]

RiskMultiplier == [k \in RiskLevel |->
    CASE k = "critical" -> 155 [] k = "high" -> 130 [] k = "medium" -> 110 [] OTHER -> 90]

PriorityMultiplier == [economy |-> 72, balanced |-> 100, quality |-> 120]

\* What the roles of the decision may cost together at the least.
OrchestrationFloor(d) ==
    LET boss == d.useBoss \/ d.escalates
        floors == FirstMatch(<<
            <<d.useWorker /\ d.useVerifier /\ boss, <<32000, 26000>>>>,
            <<d.useVerifier /\ boss, <<24000, 20000>>>>,
            <<d.useWorker /\ d.useVerifier, <<20000, 16000>>>>,
            <<boss, <<16000, 13000>>>>,
            <<d.useVerifier, <<14000, 11000>>>>,
            <<TRUE, <<9000, 9000>>>>>>)
    IN  Pick(d.risk \in HighRisks, floors[1], floors[2])

\* Three failures weigh as much as more of them would.
PriorFailures == 0..3

TotalTokens(d, tokens, priority, failures) ==
    LET pressure == FirstMatch(<<<<tokens > 20000, 22>>, <<tokens > 6000, 21>>, <<TRUE, 20>>>>)
        retry == 25 + 2 * failures
        wanted == Rounded((TaskBase[d.taskType] \div 500) * RiskMultiplier[d.risk]
                            * PriorityMultiplier[priority] * pressure * retry, 10000)
    IN  Between(Larger(wanted, OrchestrationFloor(d)), 2500, 48000)

\* createTokenBudgetPlan: what one call of a role may take in and give out.
TokenBudgetPlan(d, tokens, priority, failures) ==
    LET total == TotalTokens(d, tokens, priority, failures)
        boss == d.useBoss \/ d.escalates
        share == [worker |-> Pick(d.useWorker, Pick(d.taskType = "summarization", 84, 68), 10),
                  verifier |-> Pick(d.useVerifier, 32, 6),
                  boss |-> Pick(boss, Pick(d.risk = "critical", 18, 11), 3),
                  reserve |-> Pick(d.risk = "critical", 40, 32)]
        host == Larger(36, 200 - share.worker - share.verifier - share.boss - share.reserve)
        RoleBudget(part, out, inMin, inMax, outMin, outMax) ==
            Between(Rounded(total * part * (100 - out), 20000), inMin, inMax)
                + Between(Rounded(total * part * out, 20000), outMin, outMax)
    IN  [total |-> total,
         worker |-> RoleBudget(share.worker, 28, 128, 12000, Pick(d.useWorker, 1600, 64), 2400),
         host |-> RoleBudget(host, 35, 128, 10000, 1600, 3200),
         verifier |-> RoleBudget(share.verifier, 45, 128, 5000, Pick(d.useVerifier, 2200, 64), 2600),
         boss |-> RoleBudget(share.boss, 55, Pick(boss, 1500, 128), 3500, Pick(boss, 1800, 64), 3200),
         reserve |-> Between(Rounded(total * share.reserve, 200), 0, 12000)]

TaskTime == [t \in TaskType |->
    CASE t = "simple_chat" -> 15000 [] t = "memory_question" -> 24000 [] t = "repo_question" -> 38000
      [] t \in CodeTasks -> 120000 [] t = "summarization" -> 55000
      [] t = "planning_or_architecture" -> 70000 [] t = "deploy_or_destructive_action" -> 100000
      [] OTHER -> 90000]

PipelineMinimum == [m \in PipelineMode |->
    CASE m = "direct_fast_path" -> 15000 [] m = "grounded_path" -> 30000
      [] m = "worker_compression_path" -> 55000 [] m = "verified_path" -> 75000 [] OTHER -> 100000]

LatencyPlan(d) ==
    LET boss == d.useBoss \/ d.escalates
        factor == FirstMatch(<<<<d.risk = "critical", 130>>, <<d.risk = "high", 118>>, <<TRUE, 100>>>>)
        total == (Larger(TaskTime[d.taskType], PipelineMinimum[d.mode]) * factor) \div 100
        share == [memory |-> Pick(d.memory, 120, 30), source |-> Pick(d.tools, 160, 30),
                  worker |-> Pick(d.useWorker, 280, 30), verifier |-> Pick(d.useVerifier, 180, 20),
                  boss |-> Pick(boss, 120, 20)]
        host == Larger(220, 880 - share.memory - share.source - share.worker
                                - share.verifier - share.boss)
        Time(part, least, most) == Between(Rounded(total * part, 1000), least, most)
    IN  [total |-> Between(total, 10000, 180000),
         host |-> Time(host, Pick(d.mode = "escalated_deep_path", 25000, 8000), 90000),
         worker |-> Time(share.worker, Pick(d.useWorker, 25000, 5000), 90000),
         verifier |-> Time(share.verifier, Pick(d.useVerifier, 20000, 5000), 60000),
         boss |-> Time(share.boss, Pick(boss, 20000, 5000), 60000)]

-----------------------------------------------------------------------------
(* The stages of a turn *)

NoRequest ==
    [text |-> {}, intent |-> "analyze", files |-> FALSE, logs |-> FALSE, code |-> FALSE,
     untrusted |-> FALSE, fresh |-> FALSE, verify |-> FALSE, boss |-> FALSE, tokens |-> 0,
     confidence |-> 75, taskHint |-> "none", riskHint |-> "none",
     root |-> FALSE, named |-> FALSE, unfinished |-> FALSE]

NoDecision == ChoosePipeline(NoRequest)

Init ==
    /\ hostLed \in BOOLEAN
    /\ stage = "idle"
    /\ request = NoRequest /\ continued = FALSE
    /\ decision = NoDecision /\ latency = LatencyPlan(NoDecision)
    /\ verified = FALSE /\ asked = FALSE /\ interrupted = FALSE

\* The first half of the preflight, up to the first ensureGatewaySession: active says
\* that the session has an active coding task.
Receive(r, active) ==
    LET recovered == Recovered(r)
        resumes == active /\ recovered.root
        q == IF resumes THEN Resumed(recovered, 95) ELSE recovered
        sticky == Recovers(r) \/ resumes
        carries == q.root /\ (active \/ Recovers(r))
        baseline == ChoosePipeline(q)
        resumed == ActiveCodingContinuationDecision(baseline, q)
    IN  /\ stage = "idle"
        /\ request' = q
        /\ continued' = carries
        /\ decision' = FirstMatch(<<
                <<~carries, baseline>>,
                <<hostLed, ApplyHostLedPolicy(resumed, q, FALSE)>>,
                <<TRUE, resumed>>>>)
        /\ latency' = LatencyPlan(decision')
        /\ verified' = decision'.useVerifier
        /\ asked' = (r.verify \/ (sticky /\ asked))
        /\ interrupted' = (sticky /\ interrupted)
        /\ stage' = "baseline"
        /\ UNCHANGED hostLed

\* What the next turn does not see is gone.
EndTurn ==
    /\ stage' = "idle"
    /\ request' = NoRequest /\ continued' = FALSE
    /\ decision' = NoDecision /\ latency' = LatencyPlan(NoDecision)
    /\ UNCHANGED <<hostLed, verified, asked>>

\* The process dies, or the preflight fails, before the roles are set: the session
\* keeps the baseline.
Interrupt == stage = "baseline" /\ EndTurn /\ interrupted' = TRUE

\* Answered, or abandoned by its Host.
Finish == stage \in {"decided", "answered"} /\ EndTurn /\ UNCHANGED interrupted

Lead(d) ==
    /\ stage = "baseline"
    /\ decision' = d /\ verified' = d.useVerifier
    /\ stage' = "decided"
    /\ UNCHANGED <<hostLed, request, continued, latency, asked, interrupted>>

LedByHost ==
    \E mode \in LowTierModes, p \in Passports, selected \in BOOLEAN :
        hostLed /\ Lead(ApplyHostLedPolicy(decision, request,
                            DecideLowTierRouting(decision, request, mode, p, selected)))

\* A continuation, or a request that needs no planning.
LedByPolicy == ~hostLed /\ (continued \/ ~NeedsHostPlanning(request, decision)) /\ Lead(decision)

LedByPlan ==
    /\ ~hostLed /\ ~continued /\ NeedsHostPlanning(request, decision)
    /\ \/ \E plan \in GatewayHostPlan : Lead(PipelineForHostPlan(decision, plan, request))
       \/ Lead(HostPlanningFallback(decision, request))

\* The postflight's input and decision after a code change; unresolved says that the
\* change is broken or not validated.
Changed(r, unresolved) ==
    [r EXCEPT !.files = TRUE, !.code = TRUE,
              !.verify = @ \/ (~hostLed /\ unresolved),
              !.intent = Pick(@ = "execute", "execute", "mutate"),
              !.confidence = Larger(@, 90)]

\* Faulty: the change is taken for a continuation of the coding task.
PostflightAsContinuation(r, useWorker) ==
    LET upgraded == ActiveCodingContinuationDecision(ChoosePipeline(r), r)
    IN  IF hostLed THEN ApplyHostLedPolicy(upgraded, r, useWorker) ELSE upgraded

PostflightDecision(r, useWorker) ==
    LET upgraded == ChoosePipeline(r)
    IN  IF hostLed
        THEN ApplyHostLedPolicy([upgraded EXCEPT !.tools = TRUE, !.memory = @ \/ decision.memory],
                                r, useWorker)
        ELSE [upgraded EXCEPT
                !.useWorker = decision.useWorker, !.worker = decision.worker, !.calls = decision.calls,
                !.mode = RoleMode(upgraded, FALSE, upgraded.useVerifier, upgraded.useBoss)]

\* Faulty: the latency plan of the preflight is kept.
AnswerOnOldPlan(d, r) ==
    /\ stage = "decided"
    /\ request' = r /\ decision' = d
    /\ stage' = "answered"
    /\ UNCHANGED <<hostLed, continued, latency, verified, asked, interrupted>>

Answer(d, r) ==
    /\ stage = "decided"
    /\ request' = r /\ decision' = d
    /\ latency' = IF d.mode = decision.mode THEN latency ELSE LatencyPlan(d)
    /\ stage' = "answered"
    /\ UNCHANGED <<hostLed, continued, verified, asked, interrupted>>

AnswerUnchanged == Answer(decision, request)

AnswerChanged ==
    \E unresolved \in BOOLEAN, mode \in LowTierModes, p \in Passports, selected \in BOOLEAN :
        LET r == Changed(request, unresolved)
            base == [ChoosePipeline(r) EXCEPT !.tools = TRUE]
        IN  Answer(PostflightDecision(r, DecideLowTierRouting(base, r, mode, p, selected)), r)

Next ==
    \/ \E r \in Requests, active \in BOOLEAN : Receive(r, active)
    \/ Interrupt \/ Finish
    \/ LedByHost \/ LedByPolicy \/ LedByPlan
    \/ AnswerUnchanged \/ AnswerChanged

Spec == Init /\ [][Next]_vars

-----------------------------------------------------------------------------
(* Correctness *)

\* The schema of a decision, whoever set its roles.
TypeOK ==
    /\ hostLed \in BOOLEAN /\ continued \in BOOLEAN
    /\ stage \in {"idle", "baseline", "decided", "answered"}
    /\ decision \in RouteDecision
    /\ latency \in [total : Within(10000, 180000), host : Within(8000, 90000), worker : Within(5000, 90000),
                    verifier : Within(5000, 60000), boss : Within(5000, 60000)]
    /\ verified \in BOOLEAN /\ asked \in BOOLEAN /\ interrupted \in BOOLEAN

\* After every rewriting of a decision its parts still agree: a role that is used has a
\* tier and calls or revisions of its own and one that is not used has none; the Boss
\* is used exactly on the escalated path, where escalation is allowed; and what needs
\* approval is critical and goes to the Boss.
RolesAgree ==
    /\ TypeOK
    /\ decision.useWorker <=> decision.worker # "none"
    /\ decision.useWorker <=> decision.calls > 0
    /\ decision.useVerifier <=> decision.verifier # "none"
    /\ decision.useVerifier <=> decision.revisions > 0
    /\ decision.useBoss <=> decision.mode = "escalated_deep_path"
    /\ decision.useBoss => decision.escalates
    /\ decision.approval => decision.useBoss /\ decision.risk = "critical"

\* A request that turns the independent Verifier off is not verified, neither by the
\* policy, nor by a planning Host, nor by its fallback, nor after a code change; an
\* unfinished coding task continued outside the Host-led mode is the exception.
OptOutWins ==
    UserExplicitlyDisabledVerifier(request) /\ (hostLed \/ ~continued) => ~decision.useVerifier

\* In the Host-led mode a turn with its roles set uses the Verifier only when its user,
\* or the user of a turn whose unfinished work it continues, asked for it; a turn that
\* died with the policy's baseline saved in the session is the exception.
VerifierAsked ==
    hostLed /\ stage \in {"decided", "answered"} /\ decision.useVerifier => asked \/ interrupted

\* Whether the independent Verifier is used is the user's choice.
WishesKept == OptOutWins /\ VerifierAsked

\* The postflight makes the decision anew after a code change: it does not drop the
\* approval the turn was started with, nor the Boss that goes with it.
AuthorityKept ==
    [][stage = "decided" /\ stage' = "answered" /\ decision.approval
        => decision'.approval /\ decision'.useBoss]_vars

\* "They keep mandatory later roles from being denied after an efficient Host call":
\* one call of the Host, of the Verifier and of the Boss at their caps are within the
\* total, whatever the priority and the failures before.
MandatoryFits ==
    \A priority \in DOMAIN PriorityMultiplier, failures \in PriorFailures :
        LET plan == TokenBudgetPlan(decision, request.tokens, priority, failures)
        IN  plan.host + Pick(decision.useVerifier, plan.verifier, 0)
                + Pick(decision.useBoss, plan.boss, 0) <= plan.total

\* The latency plan is made from the baseline and the roles are timed by it after the
\* Host-led policy, and the postflight, have set them anew: a Verifier or a Boss that
\* is used still has the twenty seconds of an active one.
ReviewersTimed ==
    hostLed /\ stage \in {"decided", "answered"} =>
        /\ decision.useVerifier => latency.verifier >= 20000
        /\ decision.useBoss => latency.boss >= 20000

\* The token and the latency plan have room for the roles of the decision.
PlansFit == MandatoryFits /\ ReviewersTimed

=============================================================================
