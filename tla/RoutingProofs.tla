---------------------------- MODULE RoutingProofs ----------------------------
(***************************************************************************)
(* Proofs about the routing of a turn: that the parts of a decision agree, *)
(* that the Verifier is the user's choice, that approval survives the      *)
(* postflight and that the plans have room for the roles.                  *)
(*                                                                         *)
(* A list of rules is handled through FirstMatchIs: the rule that applies  *)
(* exists because the last one always does.  Every function that makes or  *)
(* remakes a decision has a lemma that says what the others need of it;    *)
(* the step lemmas only combine them.                                      *)
(***************************************************************************)
EXTENDS Routing, WellFoundedInduction, TLAPS

-----------------------------------------------------------------------------
(* Rules *)

\* The rule that applies is one of the rules, and those before it do not.
LEMMA FirstMatchIs ==
    ASSUME NEW rules, NEW n \in Nat \ {0}, DOMAIN rules = 1..n, rules[n][1]
    PROVE  \E k \in 1..n : /\ rules[k][1] /\ FirstMatch(rules) = rules[k][2]
                           /\ \A j \in 1..(k - 1) : ~rules[j][1]
  <1> DEFINE T == {i \in 1..n : rules[i][1]}
             R == OpToRel(<, Nat)
  <1>1. PICK k \in T : \A j \in T : ~(<<j, k>> \in R)
    <2>1. IsWellFoundedOn(R, Nat)  BY NatLessThanWellFounded
    <2>2. T \subseteq Nat /\ n \in T  OBVIOUS
    <2> HIDE DEF T, R
    <2> QED  BY <2>1, <2>2, WFMin
  <1>2. k \in 1..n /\ rules[k][1]  OBVIOUS
  <1>3. \A j \in 1..n : rules[j][1] => ~(j < k)
    <2> TAKE j \in 1..n
    <2>1. j < k => <<j, k>> \in R  BY DEF OpToRel
    <2> QED  BY <1>1, <2>1
  <1>4. \A j \in 1..(k - 1) : ~rules[j][1]  BY <1>2, <1>3
  <1> DEFINE P(i) == i \in DOMAIN rules /\ rules[i][1] /\ \A j \in 1..(i - 1) : ~rules[j][1]
             c == CHOOSE i \in DOMAIN rules : rules[i][1] /\ \A j \in 1..(i - 1) : ~rules[j][1]
  <1>5. P(k)  BY <1>2, <1>4
  <1>6. P(c)  BY <1>5
  <1>7. c = k
    <2> HIDE DEF c
    <2> QED  BY <1>2, <1>3, <1>4, <1>6
  <1> QED  BY <1>2, <1>4, <1>7 DEF FirstMatch

LEMMA RoleModeIs ==
    ASSUME NEW d, NEW w \in BOOLEAN, NEW v \in BOOLEAN, NEW b \in BOOLEAN
    PROVE  /\ RoleMode(d, w, v, b) \in PipelineMode
           /\ RoleMode(d, w, v, b) = "escalated_deep_path" <=> b
  <1> DEFINE rules == <<<<b, "escalated_deep_path">>,
                 <<v, "verified_path">>,
                 <<w, "worker_compression_path">>,
                 <<d.tools \/ d.memory, "grounded_path">>,
                 <<TRUE, "direct_fast_path">>>>
             n == 5
  <1>1. DOMAIN rules = 1..n /\ rules[n][1] /\ n \in Nat \ {0}  OBVIOUS
  <1>2. /\ rules[1][1] = b /\ rules[1][2] = "escalated_deep_path"
        /\ rules[2][2] = "verified_path" /\ rules[3][2] = "worker_compression_path"
        /\ rules[4][2] = "grounded_path" /\ rules[5][2] = "direct_fast_path"
    OBVIOUS
  <1> HIDE DEF rules, n
  <1>3. PICK k \in 1..n : /\ rules[k][1] /\ FirstMatch(rules) = rules[k][2]
                          /\ \A j \in 1..(k - 1) : ~rules[j][1]
    BY <1>1, FirstMatchIs
  <1>4. k \in {1, 2, 3, 4, 5} /\ (k # 1 => ~b)  BY <1>2, <1>3 DEF n
  <1>5. RoleMode(d, w, v, b) = FirstMatch(rules)  BY DEF RoleMode, rules
  <1> QED  BY <1>2, <1>3, <1>4, <1>5 DEF PipelineMode

\* The fields of a request.
LEMMA RequestTyped ==
    ASSUME NEW r \in RuntimeContext
    PROVE  /\ r.text \in SUBSET STRING /\ r.intent \in RuntimeIntent
           /\ r.files \in BOOLEAN /\ r.logs \in BOOLEAN /\ r.code \in BOOLEAN
           /\ r.untrusted \in BOOLEAN /\ r.fresh \in BOOLEAN
           /\ r.verify \in BOOLEAN /\ r.boss \in BOOLEAN
           /\ r.tokens \in ContextTokens /\ r.confidence \in 0..100
           /\ r.taskHint \in TaskType \cup {"none"} /\ r.riskHint \in RiskLevel \cup {"none"}
           /\ r.root \in BOOLEAN /\ r.named \in BOOLEAN /\ r.unfinished \in BOOLEAN
  BY SMT DEF RuntimeContext

\* A task class is one of the schema's; a deployment is what is hinted at, or, without a
\* hint, what the text and the intent say.
LEMMA ClassifyIs ==
    ASSUME NEW r \in RuntimeContext
    PROVE  /\ ClassifyTask(r) \in TaskType
           /\ ClassifyTask(r) = "deploy_or_destructive_action" <=>
                \/ r.taskHint = "deploy_or_destructive_action"
                \/ r.taskHint = "none" /\ (HasDestructiveIntent(r) \/ HasDeployAction(r))
  <1> DEFINE aboutCode == Matches(r, {"code"})
             operational == r.intent # "explain" /\ Matches(r, {"tool"})
             c1 == r.taskHint # "none"
             c2 == HasDestructiveIntent(r) \/ HasDeployAction(r)
             c3 == r.intent \in {"plan", "explain"} /\ Matches(r, {"architecture"})
             c4 == Matches(r, {"security"})
             c5 == Matches(r, {"eval"})
             c7 == Matches(r, {"debug"}) /\ (r.files \/ r.logs \/ aboutCode)
             c8 == Matches(r, {"summary"})
             c9 == Matches(r, {"memory"})
             c10 == Matches(r, {"architecture"})
             c11 == aboutCode \/ operational \/ r.files \/ r.logs
             hint == r.taskHint
             v6 == Pick(Matches(r, {"debug"}), "debugging", "coding_change")
             v11 == Pick(r.intent \in Acting \/ Matches(r, {"mutation"}), "coding_change", "repo_question")
             rules == <<
            <<c1, hint>>,
            <<c2, "deploy_or_destructive_action">>,
            <<c3, "planning_or_architecture">>,
            <<c4, "security_or_secret">>,
            <<c5, "eval_or_benchmark">>,
            <<r.code, v6>>,
            <<c7, "debugging">>,
            <<c8, "summarization">>,
            <<c9, "memory_question">>,
            <<c10, "planning_or_architecture">>,
            <<c11, v11>>,
            <<TRUE, "simple_chat">>>>
             n == 12
  <1>1. ClassifyTask(r) = FirstMatch(rules)  BY Zenon DEF ClassifyTask
  <1>2. v6 \in {"debugging", "coding_change"}  BY DEF Pick
  <1>3. v11 \in {"coding_change", "repo_question"}  BY DEF Pick
  <1>4. hint \in TaskType \cup {"none"}  BY RequestTyped
  <1> HIDE DEF v6, v11
  <1>5. /\ DOMAIN rules = 1..n /\ rules[n][1] /\ n \in Nat \ {0}
        /\ rules[1][1] <=> c1
        /\ rules[2][1] <=> c2
        /\ rules[1][2] = hint
        /\ rules[2][2] = "deploy_or_destructive_action"
        /\ rules[3][2] = "planning_or_architecture"
        /\ rules[4][2] = "security_or_secret"
        /\ rules[5][2] = "eval_or_benchmark"
        /\ rules[6][2] = v6
        /\ rules[7][2] = "debugging"
        /\ rules[8][2] = "summarization"
        /\ rules[9][2] = "memory_question"
        /\ rules[10][2] = "planning_or_architecture"
        /\ rules[11][2] = v11
        /\ rules[12][2] = "simple_chat"
    <2> HIDE DEF c1, c2, c3, c4, c5, c7, c8, c9, c10, c11, hint
    <2> QED  BY SMT
  <1> HIDE DEF rules, n
  <1>8. PICK k \in 1..n : /\ rules[k][1] /\ FirstMatch(rules) = rules[k][2]
                          /\ \A j \in 1..(k - 1) : ~rules[j][1]
    BY <1>5, FirstMatchIs
  <1>9. k = 1 \/ k = 2 \/ k \in 3..12  BY <1>8 DEF n
  <1>10. CASE k = 1  BY <1>1, <1>4, <1>5, <1>8, <1>10
  <1>11. CASE k = 2
    <2>1. ~rules[1][1]  BY <1>8, <1>11
    <2> QED  BY <2>1, <1>1, <1>5, <1>8, <1>11 DEF TaskType
  <1>12. CASE k \in 3..12
    <2>1. ~rules[1][1] /\ ~rules[2][1]  BY <1>8, <1>12
    <2>2. k \in {3, 4, 5, 6, 7, 8, 9, 10, 11, 12}  BY <1>12
    <2>3. rules[k][2] \in TaskType \ {"deploy_or_destructive_action"}
      BY <2>2, <1>2, <1>3, <1>5 DEF TaskType, SourceTasks, CodeTasks, MemoryTasks
    <2> QED  BY <2>1, <2>3, <1>1, <1>4, <1>5, <1>8
  <1> QED  BY <1>9, <1>10, <1>11, <1>12

\* A risk is one of the schema's; it is critical when the hint says so, or, without a hint,
\* when something is to be destroyed or deployed by a request that acts.
LEMMA AssessRiskIs ==
    ASSUME NEW r \in RuntimeContext, NEW task
    PROVE  /\ AssessRisk(task, r) \in RiskLevel
           /\ AssessRisk(task, r) = "critical" <=>
                \/ r.riskHint = "critical"
                \/ /\ r.riskHint = "none"
                   /\ \/ HasDestructiveIntent(r)
                      \/ task = "deploy_or_destructive_action" /\ r.intent \in Acting
  <1> DEFINE c1 == r.riskHint # "none"
             c2 == HasDestructiveIntent(r)
             c3 == task = "deploy_or_destructive_action"
             c4 == task = "security_or_secret"
             c5 == r.untrusted /\ task \in {"coding_change", "repo_question"}
             c6 == WantsVerification(r)
             c7 == task \in CodeTasks \cup {"planning_or_architecture"}
             hint == r.riskHint
             v3 == Pick(r.intent \in Acting, "critical", "high")
             rules == <<<<c1, hint>>, <<c2, "critical">>, <<c3, v3>>, <<c4, "high">>, <<c5, "high">>,
                        <<c6, "high">>, <<c7, "medium">>, <<TRUE, "low">>>>
             n == 8
  <1>1. AssessRisk(task, r) = FirstMatch(rules)  BY Zenon DEF AssessRisk
  <1>2. v3 \in {"critical", "high"} /\ (v3 = "critical" <=> r.intent \in Acting)  BY DEF Pick
  <1>3. hint \in RiskLevel \cup {"none"}  BY RequestTyped
  <1> HIDE DEF v3
  <1>4. /\ DOMAIN rules = 1..n /\ rules[n][1] /\ n \in Nat \ {0}
        /\ rules[1][1] <=> c1
        /\ rules[2][1] <=> c2
        /\ rules[3][1] <=> c3
        /\ rules[1][2] = hint
        /\ rules[2][2] = "critical"
        /\ rules[3][2] = v3
        /\ rules[4][2] = "high"
        /\ rules[5][2] = "high"
        /\ rules[6][2] = "high"
        /\ rules[7][2] = "medium"
        /\ rules[8][2] = "low"
    <2> HIDE DEF c1, c2, c3, c4, c5, c6, c7, hint
    <2> QED  BY SMT
  <1> HIDE DEF rules, n
  <1>5. PICK k \in 1..n : /\ rules[k][1] /\ FirstMatch(rules) = rules[k][2]
                          /\ \A j \in 1..(k - 1) : ~rules[j][1]
    BY <1>4, FirstMatchIs
  <1>6. k = 1 \/ k = 2 \/ k = 3 \/ k \in 4..8  BY <1>5 DEF n
  <1>7. CASE k = 1  BY <1>1, <1>3, <1>4, <1>5, <1>7
  <1>8. CASE k = 2
    <2>1. ~rules[1][1]  BY <1>5, <1>8
    <2> QED  BY <2>1, <1>1, <1>4, <1>5, <1>8 DEF RiskLevel
  <1>9. CASE k = 3
    <2>1. ~rules[1][1] /\ ~rules[2][1]  BY <1>5, <1>9
    <2> QED  BY <2>1, <1>1, <1>2, <1>4, <1>5, <1>9 DEF RiskLevel
  <1>10. CASE k \in 4..8
    <2>1. ~rules[1][1] /\ ~rules[2][1] /\ ~rules[3][1]  BY <1>5, <1>10
    <2>2. k \in {4, 5, 6, 7, 8}  BY <1>10
    <2>3. rules[k][2] \in RiskLevel \ {"critical"}  BY <2>2, <1>4 DEF RiskLevel
    <2> QED  BY <2>1, <2>3, <1>1, <1>4, <1>5
  <1> QED  BY <1>6, <1>7, <1>8, <1>9, <1>10

-----------------------------------------------------------------------------
(* The policy's decision *)

\* RolesAgree for a decision that need not be in force.
Agrees(d) ==
    /\ d \in RouteDecision
    /\ d.useWorker <=> d.worker # "none"
    /\ d.useWorker <=> d.calls > 0
    /\ d.useVerifier <=> d.verifier # "none"
    /\ d.useVerifier <=> d.revisions > 0
    /\ d.useBoss <=> d.mode = "escalated_deep_path"
    /\ d.useBoss => d.escalates
    /\ d.approval => d.useBoss /\ d.risk = "critical"

\* A list of path rules that starts with the Boss's escalates for nobody else.
LEMMA PathIs ==
    ASSUME NEW rules, NEW n \in Nat \ {0}, DOMAIN rules = 1..n, rules[n][1],
           rules[1][2] = "escalated_deep_path",
           \A k \in 2..n : rules[k][2] \in PipelineMode \ {"escalated_deep_path"}
    PROVE  /\ FirstMatch(rules) \in PipelineMode
           /\ FirstMatch(rules) = "escalated_deep_path" <=> rules[1][1]
  <1>1. PICK k \in 1..n : /\ rules[k][1] /\ FirstMatch(rules) = rules[k][2]
                          /\ \A j \in 1..(k - 1) : ~rules[j][1]
    BY FirstMatchIs
  <1>2. CASE k = 1  BY <1>1, <1>2 DEF PipelineMode
  <1>3. CASE k # 1
    <2>1. ~rules[1][1] /\ k \in 2..n  BY <1>1, <1>3
    <2> QED  BY <2>1, <1>1
  <1> QED  BY <1>2, <1>3

\* The policy's decision is a decision whose parts agree, and what it takes from the request.
LEMMA PolicyIs ==
    ASSUME NEW r \in RuntimeContext
    PROVE  LET d == ChoosePipeline(r)
           IN  /\ Agrees(d)
               /\ d.taskType = ClassifyTask(r) /\ d.risk = AssessRisk(ClassifyTask(r), r)
               /\ d.approval <=> d.risk = "critical"
               /\ d.useVerifier => ~UserExplicitlyDisabledVerifier(r)
               /\ WantsVerification(r) => d.useVerifier
               /\ d.risk \in HighRisks /\ ~UserExplicitlyDisabledVerifier(r) => d.useVerifier
               /\ r.boss \/ d.risk = "critical" => d.useBoss
  <1> DEFINE task == ClassifyTask(r)
             risk == AssessRisk(task, r)
             optOut == UserExplicitlyDisabledVerifier(r)
             doubtful == r.confidence < 55
             strict == risk \in HighRisks \/ doubtful
             memory == task \in MemoryTasks \cup SourceTasks
             tools == task \in SourceTasks \/ (task = "eval_or_benchmark" /\ (r.files \/ r.logs)) \/ r.fresh
             useWorker ==
                \/ task = "summarization" /\ r.tokens >= 4000
                \/ task # "simple_chat" /\ r.tokens >= 6000
                \/ task \in CodeTasks /\ (r.files \/ r.tokens >= 1500 \/ r.intent \in Acting)
             byRisk ==
                risk = "medium" /\ (r.verify \/ task \in CodeTasks \cup
                    {"eval_or_benchmark", "security_or_secret", "deploy_or_destructive_action"})
             useVerifier ==
                ~optOut /\ (strict \/ byRisk \/ r.verify \/ task = "eval_or_benchmark")
             useBoss == risk = "critical" \/ doubtful \/ r.boss
             thorough == ~optOut /\ (strict \/ task = "eval_or_benchmark")
             grounded == memory \/ (optOut /\ tools)
             rules == <<<<useBoss, "escalated_deep_path">>,
                        <<thorough, "verified_path">>,
                        <<useWorker, "worker_compression_path">>,
                        <<grounded, "grounded_path">>,
                        <<useVerifier, "verified_path">>,
                        <<TRUE, "direct_fast_path">>>>
             mode == FirstMatch(rules)
             worker == Pick(useWorker, Pick(task \in CodeTasks, "standard", "cheap"), "none")
             verifier == Pick(useVerifier, Pick(risk = "critical", "premium", "cheap"), "none")
             escalates == strict \/ r.boss
             approval == risk = "critical"
             calls == Pick(useWorker, Pick(r.tokens >= 6000, 2, 1), 0)
             revisions == Pick(useVerifier, 1, 0)
             d == [taskType |-> task, risk |-> risk, mode |-> mode, worker |-> worker,
                   verifier |-> verifier, memory |-> memory, tools |-> tools,
                   useWorker |-> useWorker, useVerifier |-> useVerifier, useBoss |-> useBoss,
                   escalates |-> escalates, approval |-> approval,
                   calls |-> calls, revisions |-> revisions]
  <1>1. ChoosePipeline(r) = d  BY SMT DEF ChoosePipeline
  <1>2. task \in TaskType  BY ClassifyIs
  <1>3. risk \in RiskLevel  BY AssessRiskIs
  <1>4. /\ r.verify \in BOOLEAN /\ r.boss \in BOOLEAN /\ r.files \in BOOLEAN
        /\ r.logs \in BOOLEAN /\ r.fresh \in BOOLEAN
    BY RequestTyped
  <1>5. /\ memory \in BOOLEAN /\ tools \in BOOLEAN /\ useWorker \in BOOLEAN
        /\ useVerifier \in BOOLEAN /\ useBoss \in BOOLEAN /\ escalates \in BOOLEAN
        /\ approval \in BOOLEAN
    BY <1>4
  <1>6. /\ useBoss => escalates
        /\ approval => useBoss
        /\ approval <=> risk = "critical"
        /\ useVerifier => ~optOut
        /\ risk \in HighRisks /\ ~optOut => useVerifier
        /\ r.boss \/ risk = "critical" => useBoss
    BY DEF HighRisks
  <1>7. WantsVerification(r) => useVerifier  BY DEF WantsVerification
  <1>8. worker \in {"none", "cheap", "standard"} /\ (useWorker <=> worker # "none")
    BY DEF Pick
  <1>9. verifier \in {"none", "cheap", "premium"} /\ (useVerifier <=> verifier # "none")
    BY DEF Pick
  <1>10. calls \in 0..2 /\ (useWorker <=> calls > 0)
    <2> HIDE DEF useWorker
    <2> QED  BY DEF Pick
  <1>11. revisions \in 0..1 /\ (useVerifier <=> revisions > 0)
    <2> HIDE DEF useVerifier
    <2> QED  BY DEF Pick
  <1>12. mode \in PipelineMode /\ (mode = "escalated_deep_path" <=> useBoss)
    <2> HIDE DEF useBoss, thorough, useWorker, grounded, useVerifier
    <2> DEFINE n == 6
    <2>1. /\ DOMAIN rules = 1..n /\ rules[n][1] /\ n \in Nat \ {0}
          /\ rules[1][2] = "escalated_deep_path"
          /\ rules[1][1] <=> useBoss
          /\ rules[2][2] = "verified_path" /\ rules[3][2] = "worker_compression_path"
          /\ rules[4][2] = "grounded_path" /\ rules[5][2] = "verified_path"
          /\ rules[6][2] = "direct_fast_path"
      BY SMT
    <2> HIDE DEF rules, n
    <2>2. ASSUME NEW k \in 2..n PROVE rules[k][2] \in PipelineMode \ {"escalated_deep_path"}
      <3>1. k \in {2, 3, 4, 5, 6}  BY DEF n
      <3> QED  BY <2>1, <3>1 DEF PipelineMode
    <2> QED  BY <2>1, <2>2, PathIs
  <1> HIDE DEF task, risk, optOut, mode, worker, verifier, memory, tools, useWorker, useVerifier,
               useBoss, escalates, approval, calls, revisions
  <1>13. d \in RouteDecision
    BY <1>2, <1>3, <1>5, <1>8, <1>9, <1>10, <1>11, <1>12 DEF RouteDecision
  <1>14. Agrees(d)
    BY <1>13, <1>6, <1>8, <1>9, <1>10, <1>11, <1>12 DEF Agrees
  <1>15. d.taskType = task /\ d.risk = risk /\ d.approval = approval
         /\ d.useVerifier = useVerifier /\ d.useBoss = useBoss
    OBVIOUS
  <1> HIDE DEF d
  <1> QED  BY <1>1, <1>6, <1>7, <1>14, <1>15 DEF task, risk, optOut

-----------------------------------------------------------------------------
(* The roles set anew *)

\* The roles are set, with a tier, a path and calls that agree; the rest is kept.
LEMMA WithRolesIs ==
    ASSUME NEW d \in RouteDecision, NEW w \in BOOLEAN, NEW v \in BOOLEAN, NEW b \in BOOLEAN,
           NEW tier \in {"cheap", "standard"}
    PROVE  LET e == WithRoles(d, w, v, b, tier)
           IN  /\ e \in RouteDecision
               /\ e.useWorker = w /\ e.useVerifier = v /\ e.useBoss = b
               /\ w <=> e.worker # "none"
               /\ w <=> e.calls > 0
               /\ v <=> e.verifier # "none"
               /\ b <=> e.mode = "escalated_deep_path"
               /\ e.escalates = d.escalates /\ e.revisions = d.revisions
               /\ e.approval = d.approval /\ e.risk = d.risk
  <1> DEFINE mode == RoleMode(d, w, v, b)
             worker == Pick(w, tier, "none")
             verifier == Pick(v, Pick(d.verifier = "none", "cheap", d.verifier), "none")
             calls == Pick(w, Larger(1, d.calls), 0)
             e == [d EXCEPT !.mode = mode, !.useWorker = w, !.useVerifier = v, !.useBoss = b,
                            !.worker = worker, !.verifier = verifier, !.calls = calls]
  <1>1. WithRoles(d, w, v, b, tier) = e  BY Zenon DEF WithRoles
  <1>2. mode \in PipelineMode /\ (b <=> mode = "escalated_deep_path")  BY RoleModeIs
  <1>3. worker \in {"none", "cheap", "standard"} /\ (w <=> worker # "none")  BY DEF Pick
  <1>4. verifier \in {"none", "cheap", "premium"} /\ (v <=> verifier # "none")
    <2>1. d.verifier \in {"none", "cheap", "premium"}  BY DEF RouteDecision
    <2> QED  BY <2>1 DEF Pick
  <1>5. calls \in 0..2 /\ (w <=> calls > 0)
    <2>1. d.calls \in 0..2  BY DEF RouteDecision
    <2> QED  BY <2>1 DEF Pick, Larger
  <1> HIDE DEF mode, worker, verifier, calls
  <1>6. e \in RouteDecision  BY <1>2, <1>3, <1>4, <1>5 DEF RouteDecision
  <1>7. /\ e.useWorker = w /\ e.useVerifier = v /\ e.useBoss = b
        /\ e.worker = worker /\ e.calls = calls /\ e.verifier = verifier /\ e.mode = mode
        /\ e.escalates = d.escalates /\ e.revisions = d.revisions
        /\ e.approval = d.approval /\ e.risk = d.risk
    BY DEF RouteDecision
  <1> HIDE DEF e
  <1> QED  BY <1>1, <1>2, <1>3, <1>4, <1>5, <1>6, <1>7

LEMMA RequestWishes ==
    ASSUME NEW r \in RuntimeContext
    PROVE  /\ WantsVerification(r) \in BOOLEAN /\ UserExplicitlyDisabledVerifier(r) \in BOOLEAN
           /\ WantsVerification(r) <=> r.verify /\ ~UserExplicitlyDisabledVerifier(r)
           /\ r.boss \in BOOLEAN /\ r.verify \in BOOLEAN
  BY RequestTyped DEF WantsVerification, UserExplicitlyDisabledVerifier

\* The Host-led policy gives the Verifier to whom asks for it, and the Boss to whom asks
\* for it, to what needs approval and to what is critical.
LEMMA HostLedIs ==
    ASSUME NEW d, Agrees(d), NEW r \in RuntimeContext, NEW w \in BOOLEAN
    PROVE  LET e == ApplyHostLedPolicy(d, r, w)
           IN  /\ Agrees(e)
               /\ e.useVerifier <=> WantsVerification(r)
               /\ e.useBoss <=> r.boss \/ d.approval \/ d.risk = "critical"
               /\ e.approval = d.approval /\ e.risk = d.risk
  <1> DEFINE v == WantsVerification(r)
             b == r.boss \/ d.approval \/ d.risk = "critical"
             f == WithRoles(d, w, v, b, "cheap")
             revisions == Pick(v, Larger(1, f.revisions), 0)
             e == [f EXCEPT !.escalates = b, !.revisions = revisions]
  <1>1. ApplyHostLedPolicy(d, r, w) = e  BY Zenon DEF ApplyHostLedPolicy
  <1>2. d \in RouteDecision /\ (d.approval => d.risk = "critical")  BY DEF Agrees
  <1>3. v \in BOOLEAN  BY RequestWishes
  <1>4. b \in BOOLEAN
    <2>1. r.boss \in BOOLEAN /\ d.approval \in BOOLEAN  BY <1>2, RequestTyped DEF RouteDecision
    <2> QED  BY <2>1
  <1>5. d.approval \/ d.risk = "critical" => b  OBVIOUS
  <1> HIDE DEF v, b
  <1>6. /\ f \in RouteDecision
        /\ f.useWorker = w /\ f.useVerifier = v /\ f.useBoss = b
        /\ w <=> f.worker # "none"
        /\ w <=> f.calls > 0
        /\ v <=> f.verifier # "none"
        /\ b <=> f.mode = "escalated_deep_path"
        /\ f.approval = d.approval /\ f.risk = d.risk
    BY <1>2, <1>3, <1>4, WithRolesIs
  <1> HIDE DEF f
  <1>7. revisions \in 0..1 /\ (v <=> revisions > 0)
    <2>1. f.revisions \in 0..1  BY <1>6 DEF RouteDecision
    <2> QED  BY <2>1 DEF Pick, Larger
  <1> HIDE DEF revisions
  <1>8. e \in RouteDecision  BY <1>4, <1>6, <1>7 DEF RouteDecision
  <1>9. /\ e.useWorker = f.useWorker /\ e.useVerifier = f.useVerifier /\ e.useBoss = f.useBoss
        /\ e.worker = f.worker /\ e.calls = f.calls /\ e.verifier = f.verifier /\ e.mode = f.mode
        /\ e.escalates = b /\ e.revisions = revisions
        /\ e.approval = f.approval /\ e.risk = f.risk
    BY <1>6 DEF RouteDecision
  <1> HIDE DEF e
  <1>10. Agrees(e)
    BY <1>2, <1>5, <1>6, <1>7, <1>8, <1>9 DEF Agrees
  <1> QED  BY <1>1, <1>6, <1>9, <1>10 DEF v, b

\* A planning Host's roles agree, and neither the user's opt-out nor what needs approval
\* is the Host's to plan.
LEMMA PlannedIs ==
    ASSUME NEW d, Agrees(d), NEW r \in RuntimeContext, NEW plan \in GatewayHostPlan
    PROVE  LET e == PipelineForHostPlan(d, plan, r)
           IN  /\ Agrees(e)
               /\ e.useVerifier => ~UserExplicitlyDisabledVerifier(r)
               /\ e.approval = d.approval /\ e.risk = d.risk
  <1> DEFINE w == DeterministicWorkerFloor(d, r) \/ plan.useWorker
             v == ~UserExplicitlyDisabledVerifier(r) /\ (RequiredVerifier(d, r) \/ plan.useVerifier)
             b == RequiredBoss(d, r) \/ plan.useBoss
             tier == StandardTier(d)
             f == WithRoles(d, w, v, b, tier)
             escalates == f.escalates \/ b \/ plan.unsure
             revisions == Pick(v, Larger(1, f.revisions), 0)
             e == [f EXCEPT !.escalates = escalates, !.revisions = revisions]
  <1>1. PipelineForHostPlan(d, plan, r) = e  BY Zenon DEF PipelineForHostPlan
  <1>2. d \in RouteDecision /\ (d.approval => d.risk = "critical")  BY DEF Agrees
  <1>3. w \in BOOLEAN /\ v \in BOOLEAN /\ b \in BOOLEAN
    <2>1. plan.useWorker \in BOOLEAN /\ plan.useBoss \in BOOLEAN  BY DEF GatewayHostPlan
    <2> QED  BY <2>1
  <1>4. (d.approval => b) /\ (v => ~UserExplicitlyDisabledVerifier(r))  BY DEF RequiredBoss
  <1>5. tier \in {"cheap", "standard"}
    <2>1. d.worker \in {"none", "cheap", "standard"}  BY <1>2 DEF RouteDecision
    <2> QED  BY <2>1 DEF StandardTier, Pick
  <1> HIDE DEF w, v, b, tier
  <1>6. /\ f \in RouteDecision
        /\ f.useWorker = w /\ f.useVerifier = v /\ f.useBoss = b
        /\ w <=> f.worker # "none"
        /\ w <=> f.calls > 0
        /\ v <=> f.verifier # "none"
        /\ b <=> f.mode = "escalated_deep_path"
        /\ f.approval = d.approval /\ f.risk = d.risk
    <2>1. CASE tier = "cheap"  BY <2>1, <1>2, <1>3, WithRolesIs
    <2>2. CASE tier = "standard"  BY <2>2, <1>2, <1>3, WithRolesIs
    <2> QED  BY <2>1, <2>2, <1>5
  <1> HIDE DEF f
  <1>7. revisions \in 0..1 /\ (v <=> revisions > 0)
    <2>1. f.revisions \in 0..1  BY <1>6 DEF RouteDecision
    <2> QED  BY <2>1 DEF Pick, Larger
  <1>8. escalates \in BOOLEAN /\ (b => escalates)
    <2>1. f.escalates \in BOOLEAN /\ plan.unsure \in BOOLEAN  BY <1>6 DEF RouteDecision, GatewayHostPlan
    <2> QED  BY <2>1, <1>3
  <1> HIDE DEF revisions, escalates
  <1>9. e \in RouteDecision  BY <1>6, <1>7, <1>8 DEF RouteDecision
  <1>10. /\ e.useWorker = f.useWorker /\ e.useVerifier = f.useVerifier /\ e.useBoss = f.useBoss
         /\ e.worker = f.worker /\ e.calls = f.calls /\ e.verifier = f.verifier /\ e.mode = f.mode
         /\ e.escalates = escalates /\ e.revisions = revisions
         /\ e.approval = f.approval /\ e.risk = f.risk
    BY <1>6 DEF RouteDecision
  <1> HIDE DEF e
  <1>11. Agrees(e)
    BY <1>2, <1>4, <1>6, <1>7, <1>8, <1>9, <1>10 DEF Agrees
  <1> QED  BY <1>1, <1>4, <1>6, <1>10, <1>11

\* Without an answer of the planning Host the roles are those the policy requires.  The
\* revisions are not set anew: they agree because the decision is the policy's own.
LEMMA FallbackIs ==
    ASSUME NEW r \in RuntimeContext
    PROVE  LET d == ChoosePipeline(r)
               e == HostPlanningFallback(d, r)
           IN  /\ Agrees(e)
               /\ e.useVerifier => ~UserExplicitlyDisabledVerifier(r)
               /\ e.approval = d.approval /\ e.risk = d.risk
  <1> DEFINE d == ChoosePipeline(r)
             w == DeterministicWorkerFloor(d, r)
             v == RequiredVerifier(d, r)
             b == RequiredBoss(d, r)
             tier == StandardTier(d)
             f == WithRoles(d, w, v, b, tier)
             escalates == f.escalates \/ b
             e == [f EXCEPT !.escalates = escalates]
  <1>1. HostPlanningFallback(d, r) = e  BY Zenon DEF HostPlanningFallback
  <1>2. /\ Agrees(d)
        /\ d.approval <=> d.risk = "critical"
        /\ d.useVerifier => ~UserExplicitlyDisabledVerifier(r)
        /\ WantsVerification(r) => d.useVerifier
        /\ d.risk \in HighRisks /\ ~UserExplicitlyDisabledVerifier(r) => d.useVerifier
        /\ r.boss \/ d.risk = "critical" => d.useBoss
    <2> HIDE DEF d
    <2> QED  BY PolicyIs DEF d
  <1> HIDE DEF d
  <1>3. d \in RouteDecision  BY <1>2 DEF Agrees
  <1>4. w \in BOOLEAN  BY DEF DeterministicWorkerFloor
  <1>5. v \in BOOLEAN /\ (v <=> d.useVerifier)
    <2>1. "critical" \in HighRisks  BY DEF HighRisks
    <2>2. d.useVerifier \in BOOLEAN  BY <1>3 DEF RouteDecision
    <2> QED  BY <2>1, <2>2, <1>2, RequestWishes DEF RequiredVerifier
  <1>6. b \in BOOLEAN /\ (d.approval => b)
    <2>1. d.useBoss \in BOOLEAN /\ r.boss \in BOOLEAN /\ d.approval \in BOOLEAN
      BY <1>3, RequestTyped DEF RouteDecision
    <2> QED  BY <2>1 DEF RequiredBoss
  <1>7. tier \in {"cheap", "standard"}
    <2>1. d.worker \in {"none", "cheap", "standard"}  BY <1>3 DEF RouteDecision
    <2> QED  BY <2>1 DEF StandardTier, Pick
  <1> HIDE DEF w, v, b, tier
  <1>8. /\ f \in RouteDecision
        /\ f.useWorker = w /\ f.useVerifier = v /\ f.useBoss = b
        /\ w <=> f.worker # "none"
        /\ w <=> f.calls > 0
        /\ v <=> f.verifier # "none"
        /\ b <=> f.mode = "escalated_deep_path"
        /\ f.escalates = d.escalates /\ f.revisions = d.revisions
        /\ f.approval = d.approval /\ f.risk = d.risk
    <2>1. CASE tier = "cheap"  BY <2>1, <1>3, <1>4, <1>5, <1>6, WithRolesIs
    <2>2. CASE tier = "standard"  BY <2>2, <1>3, <1>4, <1>5, <1>6, WithRolesIs
    <2> QED  BY <2>1, <2>2, <1>7
  <1> HIDE DEF f
  <1>9. escalates \in BOOLEAN /\ (b => escalates)
    <2>1. f.escalates \in BOOLEAN  BY <1>8 DEF RouteDecision
    <2> QED  BY <2>1, <1>6
  <1> HIDE DEF escalates
  <1>10. e \in RouteDecision  BY <1>8, <1>9 DEF RouteDecision
  <1>11. /\ e.useWorker = f.useWorker /\ e.useVerifier = f.useVerifier /\ e.useBoss = f.useBoss
         /\ e.worker = f.worker /\ e.calls = f.calls /\ e.verifier = f.verifier /\ e.mode = f.mode
         /\ e.escalates = escalates /\ e.revisions = f.revisions
         /\ e.approval = f.approval /\ e.risk = f.risk
    BY <1>8 DEF RouteDecision
  <1>12. (d.useVerifier <=> d.revisions > 0) /\ (d.approval => d.risk = "critical")  BY <1>2 DEF Agrees
  <1> HIDE DEF e
  <1>13. Agrees(e)
    BY <1>5, <1>6, <1>8, <1>9, <1>10, <1>11, <1>12 DEF Agrees
  <1> QED  BY <1>1, <1>2, <1>5, <1>8, <1>11, <1>13 DEF d

\* A continuation of unfinished coding work: what the user asked for, and no approval.
LEMMA ContinuationIs ==
    ASSUME NEW d, Agrees(d), NEW r \in RuntimeContext
    PROVE  LET e == ActiveCodingContinuationDecision(d, r)
           IN  Agrees(e) /\ e.approval = FALSE /\ e.risk = "high"
  <1> DEFINE mode == Pick(r.boss, "escalated_deep_path", "grounded_path")
             verifier == Pick(r.verify, "cheap", "none")
             revisions == Pick(r.verify, Larger(1, d.revisions), 0)
             f == [d EXCEPT !.taskType = "coding_change", !.risk = "high", !.mode = mode,
                            !.worker = "none", !.useWorker = FALSE, !.calls = 0,
                            !.verifier = verifier]
             e == [f EXCEPT !.useVerifier = r.verify,
                            !.useBoss = r.boss, !.escalates = r.boss, !.approval = FALSE,
                            !.memory = TRUE, !.tools = TRUE, !.revisions = revisions]
  <1>1. ActiveCodingContinuationDecision(d, r) = e  BY DEF ActiveCodingContinuationDecision
  <1>2. d \in RouteDecision  BY DEF Agrees
  <1>3. r.boss \in BOOLEAN /\ r.verify \in BOOLEAN  BY RequestTyped
  <1>4. mode \in PipelineMode /\ (mode = "escalated_deep_path" <=> r.boss)
    BY <1>3 DEF Pick, PipelineMode
  <1>5. verifier \in {"none", "cheap", "premium"} /\ (verifier # "none" <=> r.verify)
    BY <1>3 DEF Pick
  <1>6. revisions \in 0..1 /\ (revisions > 0 <=> r.verify)
    <2>1. d.revisions \in 0..1  BY <1>2 DEF RouteDecision
    <2> QED  BY <2>1, <1>3 DEF Pick, Larger
  <1> HIDE DEF mode, verifier, revisions
  <1>7. "coding_change" \in TaskType /\ "high" \in RiskLevel /\ 0 \in 0..2
    BY DEF TaskType, SourceTasks, CodeTasks, RiskLevel
  <1>8. f \in RouteDecision  BY <1>2, <1>4, <1>5, <1>7 DEF RouteDecision
  <1>9. /\ f.useWorker = FALSE /\ f.worker = "none" /\ f.calls = 0
        /\ f.verifier = verifier /\ f.mode = mode /\ f.risk = "high"
    BY <1>2 DEF RouteDecision
  <1> HIDE DEF f
  <1>10. e \in RouteDecision  BY <1>3, <1>6, <1>8 DEF RouteDecision
  <1>11. /\ e.useWorker = f.useWorker /\ e.worker = f.worker /\ e.calls = f.calls
         /\ e.verifier = f.verifier /\ e.mode = f.mode /\ e.risk = f.risk
         /\ e.useVerifier = r.verify /\ e.revisions = revisions
         /\ e.useBoss = r.boss /\ e.escalates = r.boss /\ e.approval = FALSE
    BY <1>8 DEF RouteDecision
  <1> HIDE DEF e
  <1>12. Agrees(e)  BY <1>4, <1>5, <1>6, <1>9, <1>10, <1>11 DEF Agrees
  <1> QED  BY <1>1, <1>9, <1>11, <1>12

-----------------------------------------------------------------------------
(* Requests remade *)

\* A change the postflight observes makes a request that acts on code: what it says, and
\* what its user hinted at, stays, and so does whether it is critical.
LEMMA ChangedIs ==
    ASSUME NEW r \in RuntimeContext, NEW unresolved \in BOOLEAN, hostLed \in BOOLEAN
    PROVE  LET c == Changed(r, unresolved)
           IN  /\ c \in RuntimeContext
               /\ c.boss = r.boss
               /\ hostLed => c.verify = r.verify
               /\ UserExplicitlyDisabledVerifier(c) <=> UserExplicitlyDisabledVerifier(r)
               /\ AssessRisk(ClassifyTask(r), r) = "critical"
                    => AssessRisk(ClassifyTask(c), c) = "critical"
  <1> DEFINE verify == r.verify \/ (~hostLed /\ unresolved)
             intent == Pick(r.intent = "execute", "execute", "mutate")
             confidence == Larger(r.confidence, 90)
             yes == TRUE
             c == [r EXCEPT !.files = yes, !.code = yes, !.verify = verify, !.intent = intent,
                            !.confidence = confidence]
  <1>1. Changed(r, unresolved) = c  BY SMT DEF Changed
  <1>2. yes \in BOOLEAN  OBVIOUS
  <1>3. verify \in BOOLEAN /\ (hostLed => verify = r.verify)
    <2>1. r.verify \in BOOLEAN  BY RequestTyped
    <2> QED  BY <2>1
  <1>4. intent \in RuntimeIntent /\ intent \in Acting  BY DEF Pick, RuntimeIntent, Acting
  <1>5. confidence \in 0..100
    <2>1. r.confidence \in 0..100  BY RequestTyped
    <2> QED  BY <2>1 DEF Larger, Pick
  <1> HIDE DEF verify, intent, confidence, yes
  <1>6. c \in RuntimeContext  BY <1>2, <1>3, <1>4, <1>5 DEF RuntimeContext
  <1>7. /\ c.text = r.text /\ c.taskHint = r.taskHint /\ c.riskHint = r.riskHint
        /\ c.boss = r.boss /\ c.verify = verify /\ c.intent = intent
    BY SMT DEF RuntimeContext
  <1> HIDE DEF c
  <1>8. ASSUME NEW patterns PROVE Matches(c, patterns) <=> Matches(r, patterns)
    BY <1>7 DEF Matches
  <1>9. UserExplicitlyDisabledVerifier(c) <=> UserExplicitlyDisabledVerifier(r)
    BY <1>8 DEF UserExplicitlyDisabledVerifier
  <1>10. HasDestructiveIntent(r) => HasDestructiveIntent(c)
    BY <1>4, <1>7, <1>8 DEF HasDestructiveIntent
  <1>11. HasDeployAction(r) => HasDeployAction(c)
    BY <1>4, <1>7, <1>8 DEF HasDeployAction
  <1>12. ClassifyTask(r) = "deploy_or_destructive_action" => ClassifyTask(c) = "deploy_or_destructive_action"
    BY <1>6, <1>7, <1>10, <1>11, ClassifyIs
  <1>13. AssessRisk(ClassifyTask(r), r) = "critical" => AssessRisk(ClassifyTask(c), c) = "critical"
    <2>1. AssessRisk(ClassifyTask(r), r) = "critical" <=>
                \/ r.riskHint = "critical"
                \/ /\ r.riskHint = "none"
                   /\ \/ HasDestructiveIntent(r)
                      \/ ClassifyTask(r) = "deploy_or_destructive_action" /\ r.intent \in Acting
      BY AssessRiskIs
    <2>2. AssessRisk(ClassifyTask(c), c) = "critical" <=>
                \/ c.riskHint = "critical"
                \/ /\ c.riskHint = "none"
                   /\ \/ HasDestructiveIntent(c)
                      \/ ClassifyTask(c) = "deploy_or_destructive_action" /\ c.intent \in Acting
      BY <1>6, AssessRiskIs
    <2> QED  BY <2>1, <2>2, <1>4, <1>7, <1>10, <1>12
  <1> QED  BY <1>1, <1>3, <1>6, <1>7, <1>9, <1>13

\* A request that takes up unfinished work says what it said, and is verified when it asks
\* for it or the turn it takes up was.
LEMMA ResumedIs ==
    ASSUME NEW r \in RuntimeContext, NEW sure \in 0..100, verified \in BOOLEAN
    PROVE  LET q == Resumed(r, sure)
           IN  q \in RuntimeContext /\ (q.verify <=> r.verify \/ verified)
  <1> DEFINE verify == r.verify \/ verified
             intent == Pick(r.intent = "execute", "execute", "mutate")
             confidence == Larger(r.confidence, sure)
             yes == TRUE
             q == [r EXCEPT !.files = yes, !.code = yes, !.verify = verify, !.intent = intent,
                            !.confidence = confidence]
  <1>1. Resumed(r, sure) = q  BY SMT DEF Resumed
  <1>2. yes \in BOOLEAN  OBVIOUS
  <1>3. verify \in BOOLEAN
    <2>1. r.verify \in BOOLEAN  BY RequestTyped
    <2> QED  BY <2>1
  <1>4. intent \in RuntimeIntent  BY DEF Pick, RuntimeIntent
  <1>5. confidence \in 0..100
    <2>1. r.confidence \in 0..100  BY RequestTyped
    <2> QED  BY <2>1 DEF Larger, Pick
  <1>6. verify <=> r.verify \/ verified  OBVIOUS
  <1> HIDE DEF verify, intent, confidence, yes
  <1>7. q \in RuntimeContext  BY <1>2, <1>3, <1>4, <1>5 DEF RuntimeContext
  <1>8. q.verify = verify  BY SMT DEF RuntimeContext
  <1> HIDE DEF q
  <1> QED  BY <1>1, <1>6, <1>7, <1>8

LEMMA RecoveredIs ==
    ASSUME NEW r \in RuntimeContext, verified \in BOOLEAN
    PROVE  /\ Recovered(r) \in RuntimeContext
           /\ Recovered(r).verify <=> r.verify \/ (Recovers(r) /\ verified)
  <1> DEFINE q == Resumed(r, 90)
             root == q.root \/ r.named
             e == [q EXCEPT !.root = root]
  <1>1. CASE Recovers(r)
    <2>1. Recovered(r) = e  BY <1>1 DEF Recovered
    <2>2. q \in RuntimeContext /\ (q.verify <=> r.verify \/ verified)
      <3>1. 90 \in 0..100  OBVIOUS
      <3> QED  BY <3>1, ResumedIs
    <2> HIDE DEF q
    <2>3. root \in BOOLEAN
      <3>1. q.root \in BOOLEAN /\ r.named \in BOOLEAN  BY <2>2, RequestTyped
      <3> QED  BY <3>1
    <2> HIDE DEF root
    <2>4. e \in RuntimeContext  BY <2>2, <2>3 DEF RuntimeContext
    <2>5. e.verify = q.verify  BY SMT, <2>2 DEF RuntimeContext
    <2> QED  BY <1>1, <2>1, <2>2, <2>4, <2>5
  <1>2. CASE ~Recovers(r)  BY <1>2 DEF Recovered
  <1> QED  BY <1>1, <1>2

\* The decision made anew after a change agrees, keeps the user's opt-out, and needs
\* approval, and the Boss, when what is asked for is critical.
LEMMA PostflightIs ==
    ASSUME hostLed \in BOOLEAN, Agrees(decision), NEW r \in RuntimeContext, NEW w \in BOOLEAN
    PROVE  LET e == PostflightDecision(r, w)
           IN  /\ Agrees(e)
               /\ e.useVerifier => ~UserExplicitlyDisabledVerifier(r)
               /\ hostLed => (e.useVerifier <=> WantsVerification(r))
               /\ AssessRisk(ClassifyTask(r), r) = "critical" => e.approval
  <1> DEFINE u == ChoosePipeline(r)
  <1>1. /\ Agrees(u)
        /\ u.risk = AssessRisk(ClassifyTask(r), r)
        /\ u.approval <=> u.risk = "critical"
        /\ u.useVerifier => ~UserExplicitlyDisabledVerifier(r)
    <2> HIDE DEF u
    <2> QED  BY PolicyIs DEF u
  <1>2. decision \in RouteDecision /\ u \in RouteDecision  BY <1>1 DEF Agrees
  <1> HIDE DEF u
  <1>3. CASE hostLed
    <2> DEFINE memory == u.memory \/ decision.memory
               yes == TRUE
               base == [u EXCEPT !.tools = yes, !.memory = memory]
               e == ApplyHostLedPolicy(base, r, w)
    <2>1. PostflightDecision(r, w) = e  BY <1>3 DEF PostflightDecision, u
    <2>2. memory \in BOOLEAN /\ yes \in BOOLEAN
      <3>1. u.memory \in BOOLEAN /\ decision.memory \in BOOLEAN  BY <1>2 DEF RouteDecision
      <3> QED  BY <3>1
    <2> HIDE DEF memory, yes
    <2>3. base \in RouteDecision  BY <1>2, <2>2 DEF RouteDecision
    <2>4. /\ base.useWorker = u.useWorker /\ base.worker = u.worker /\ base.calls = u.calls
          /\ base.useVerifier = u.useVerifier /\ base.verifier = u.verifier
          /\ base.revisions = u.revisions /\ base.useBoss = u.useBoss /\ base.mode = u.mode
          /\ base.escalates = u.escalates /\ base.approval = u.approval /\ base.risk = u.risk
      BY <1>2 DEF RouteDecision
    <2> HIDE DEF base
    <2>5. Agrees(base)  BY <1>1, <2>3, <2>4 DEF Agrees
    <2>6. /\ Agrees(e)
          /\ e.useVerifier <=> WantsVerification(r)
          /\ e.approval = base.approval
      <3> HIDE DEF e
      <3> QED  BY <2>5, HostLedIs DEF e
    <2> HIDE DEF e
    <2> QED  BY <1>1, <1>3, <2>1, <2>4, <2>6, RequestWishes
  <1>4. CASE ~hostLed
    <2> DEFINE mode == RoleMode(u, FALSE, u.useVerifier, u.useBoss)
               e == [u EXCEPT !.useWorker = decision.useWorker, !.worker = decision.worker,
                              !.calls = decision.calls, !.mode = mode]
    <2>1. PostflightDecision(r, w) = e  BY <1>4 DEF PostflightDecision, u
    <2>2. /\ decision.useWorker \in BOOLEAN /\ decision.worker \in {"none", "cheap", "standard"}
          /\ decision.calls \in 0..2
      BY <1>2 DEF RouteDecision
    <2>3. mode \in PipelineMode /\ (mode = "escalated_deep_path" <=> u.useBoss)
      <3>1. u.useVerifier \in BOOLEAN /\ u.useBoss \in BOOLEAN  BY <1>2 DEF RouteDecision
      <3> HIDE DEF mode
      <3> QED  BY <3>1, RoleModeIs DEF mode
    <2> HIDE DEF mode
    <2>4. e \in RouteDecision  BY <1>2, <2>2, <2>3 DEF RouteDecision
    <2>5. /\ e.useWorker = decision.useWorker /\ e.worker = decision.worker
          /\ e.calls = decision.calls /\ e.mode = mode
          /\ e.useVerifier = u.useVerifier /\ e.verifier = u.verifier
          /\ e.revisions = u.revisions /\ e.useBoss = u.useBoss
          /\ e.escalates = u.escalates /\ e.approval = u.approval /\ e.risk = u.risk
      BY <1>2 DEF RouteDecision
    <2> HIDE DEF e
    <2>6. Agrees(e)  BY <1>1, <2>3, <2>4, <2>5 DEF Agrees
    <2> QED  BY <1>1, <1>4, <2>1, <2>5, <2>6
  <1> QED  BY <1>3, <1>4

-----------------------------------------------------------------------------
(* The latency plan *)

LEMMA BetweenIs ==
    ASSUME NEW value \in Int, NEW least \in Int, NEW most \in Int, least <= most
    PROVE  /\ Between(value, least, most) \in Within(least, most)
           /\ least <= Between(value, least, most)
  BY DEF Between, Within, Larger, Pick

LEMMA WithinIs ==
    ASSUME NEW value \in Int, NEW least \in Int, NEW most \in Int, least <= value, value <= most
    PROVE  value \in Within(least, most)
  BY DEF Within

\* Half of the denominator is what rounding adds at most.
LEMMA RoundedIs ==
    ASSUME NEW n \in Nat, NEW m \in Nat \ {0}
    PROVE  /\ Rounded(n, m) \in Nat
           /\ 2 * m * Rounded(n, m) <= 2 * n + m
  BY DEF Rounded

\* The latencies a plan may give.
Latencies == [total : Within(10000, 180000), host : Within(8000, 90000), worker : Within(5000, 90000),
              verifier : Within(5000, 60000), boss : Within(5000, 60000)]

LEMMA TaskTimeIs == \A t \in TaskType : TaskTime[t] \in Nat
  BY SMT DEF TaskTime

LEMMA PipelineMinimumIs == \A m \in PipelineMode : PipelineMinimum[m] \in Nat
  BY SMT DEF PipelineMinimum

\* A plan keeps to its limits, and gives an active reviewer twenty seconds.
LEMMA LatencyPlanIs ==
    ASSUME NEW d \in RouteDecision
    PROVE  LET plan == LatencyPlan(d)
           IN  /\ plan \in Latencies
               /\ d.useVerifier => plan.verifier >= 20000
               /\ d.useBoss => plan.boss >= 20000
  <1> DEFINE boss == d.useBoss \/ d.escalates
             factors == <<<<d.risk = "critical", 130>>, <<d.risk = "high", 118>>, <<TRUE, 100>>>>
             factor == FirstMatch(factors)
             total == (Larger(TaskTime[d.taskType], PipelineMinimum[d.mode]) * factor) \div 100
             share == [memory |-> Pick(d.memory, 120, 30), source |-> Pick(d.tools, 160, 30),
                       worker |-> Pick(d.useWorker, 280, 30), verifier |-> Pick(d.useVerifier, 180, 20),
                       boss |-> Pick(boss, 120, 20)]
             host == Larger(220, 880 - share.memory - share.source - share.worker
                                - share.verifier - share.boss)
             Part(s) == Rounded(total * s, 1000)
             inAll == Between(total, 10000, 180000)
             forHost == Between(Part(host), Pick(d.mode = "escalated_deep_path", 25000, 8000), 90000)
             forWorker == Between(Part(share.worker), Pick(d.useWorker, 25000, 5000), 90000)
             forVerifier == Between(Part(share.verifier), Pick(d.useVerifier, 20000, 5000), 60000)
             forBoss == Between(Part(share.boss), Pick(boss, 20000, 5000), 60000)
             plan == [total |-> inAll, host |-> forHost, worker |-> forWorker,
                      verifier |-> forVerifier, boss |-> forBoss]
  <1>1. LatencyPlan(d) = plan  BY SMT DEF LatencyPlan
  <1>2. factor \in Nat
    <2> DEFINE n == 3
    <2>1. /\ DOMAIN factors = 1..n /\ factors[n][1] /\ n \in Nat \ {0}
          /\ factors[1][2] = 130 /\ factors[2][2] = 118 /\ factors[3][2] = 100
      BY SMT
    <2> HIDE DEF factors, n
    <2>2. PICK k \in 1..n :
             /\ factors[k][1] /\ FirstMatch(factors) = factors[k][2]
             /\ \A j \in 1..(k - 1) : ~factors[j][1]
      BY <2>1, FirstMatchIs
    <2>3. k \in {1, 2, 3}  BY <2>2 DEF n
    <2> QED  BY SMT, <2>1, <2>2, <2>3
  <1> HIDE DEF factor
  <1>3. total \in Nat
    <2>1. TaskTime[d.taskType] \in Nat /\ PipelineMinimum[d.mode] \in Nat
      BY TaskTimeIs, PipelineMinimumIs DEF RouteDecision
    <2> DEFINE longer == Larger(TaskTime[d.taskType], PipelineMinimum[d.mode])
    <2>2. longer \in Nat  BY <2>1 DEF Larger, Pick
    <2> HIDE DEF longer
    <2>3. longer * factor \in Nat  BY <1>2, <2>2
    <2>4. (longer * factor) \div 100 \in Nat
      <3> DEFINE product == longer * factor
      <3>1. product \in Nat  BY <2>3
      <3> HIDE DEF product
      <3>2. product \div 100 \in Nat  BY SMT, <3>1
      <3> QED  BY <3>2 DEF product
    <2> QED  BY <2>4 DEF longer
  <1> HIDE DEF total
  <1>4. /\ share.worker \in Nat /\ share.verifier \in Nat /\ share.boss \in Nat
        /\ host \in Nat
    BY SMT DEF Pick, Larger
  <1> HIDE DEF share, host
  <1>5. ASSUME NEW s \in Nat PROVE Part(s) \in Int
    <2>1. total * s \in Nat  BY <1>3
    <2>2. 1000 \in Nat \ {0}  BY SMT
    <2> HIDE DEF total
    <2> QED  BY SMT, <2>1, <2>2, RoundedIs
  <1>6. /\ Part(host) \in Int /\ Part(share.worker) \in Int
        /\ Part(share.verifier) \in Int /\ Part(share.boss) \in Int
    BY <1>4, <1>5
  <1> HIDE DEF Part
  <1>7. inAll \in Within(10000, 180000)
    <2>1. inAll \in Int /\ 10000 <= inAll /\ inAll <= 180000
      BY SMT, <1>3 DEF Between, Larger, Pick
    <2> HIDE DEF inAll
    <2> QED  BY SMT, <2>1, WithinIs
  <1>8. forHost \in Within(8000, 90000)
    <2>1. forHost \in Int /\ 8000 <= forHost /\ forHost <= 90000
      BY SMT, <1>6 DEF Between, Larger, Pick
    <2> HIDE DEF forHost
    <2> QED  BY SMT, <2>1, WithinIs
  <1>9. forWorker \in Within(5000, 90000)
    <2>1. forWorker \in Int /\ 5000 <= forWorker /\ forWorker <= 90000
      BY SMT, <1>6 DEF Between, Larger, Pick
    <2> HIDE DEF forWorker
    <2> QED  BY SMT, <2>1, WithinIs
  <1>10. forVerifier \in Within(5000, 60000) /\ (d.useVerifier => forVerifier >= 20000)
    <2>1. /\ forVerifier \in Int /\ 5000 <= forVerifier /\ forVerifier <= 60000
          /\ d.useVerifier => forVerifier >= 20000
      BY SMT, <1>6 DEF Between, Larger, Pick
    <2> HIDE DEF forVerifier
    <2> QED  BY SMT, <2>1, WithinIs
  <1>11. forBoss \in Within(5000, 60000) /\ (d.useBoss => forBoss >= 20000)
    <2>1. /\ forBoss \in Int /\ 5000 <= forBoss /\ forBoss <= 60000
          /\ d.useBoss => forBoss >= 20000
      BY SMT, <1>6 DEF Between, Larger, Pick
    <2> HIDE DEF forBoss
    <2> QED  BY SMT, <2>1, WithinIs
  <1> HIDE DEF inAll, forHost, forWorker, forVerifier, forBoss
  <1>12. plan \in Latencies /\ plan.verifier = forVerifier /\ plan.boss = forBoss
    BY SMT, <1>7, <1>8, <1>9, <1>10, <1>11 DEF Latencies
  <1> HIDE DEF plan
  <1> QED  BY SMT, <1>1, <1>10, <1>11, <1>12

-----------------------------------------------------------------------------
(* The token plan *)

\* What the roles of a decision may cost at the least is enough for its mandatory calls.
LEMMA FloorIs ==
    ASSUME NEW d \in RouteDecision
    PROVE  LET floor == OrchestrationFloor(d)
           IN  /\ floor \in Nat /\ 9000 <= floor /\ floor <= 32000
               /\ d.useVerifier => 11000 <= floor
               /\ d.useBoss => 13000 <= floor
               /\ d.useVerifier /\ d.useBoss => 20000 <= floor
  <1> DEFINE boss == d.useBoss \/ d.escalates
             c1 == d.useWorker /\ d.useVerifier /\ boss
             c2 == d.useVerifier /\ boss
             c3 == d.useWorker /\ d.useVerifier
             v1 == <<32000, 26000>>
             v2 == <<24000, 20000>>
             v3 == <<20000, 16000>>
             v4 == <<16000, 13000>>
             v5 == <<14000, 11000>>
             v6 == <<9000, 9000>>
             rules == <<<<c1, v1>>, <<c2, v2>>, <<c3, v3>>, <<boss, v4>>, <<d.useVerifier, v5>>, <<TRUE, v6>>>>
             floors == FirstMatch(rules)
             n == 6
  <1>1. OrchestrationFloor(d) = Pick(d.risk \in HighRisks, floors[1], floors[2])
    BY SMT DEF OrchestrationFloor
  <1>2. /\ v1[1] = 32000 /\ v1[2] = 26000 /\ v2[1] = 24000 /\ v2[2] = 20000
        /\ v3[1] = 20000 /\ v3[2] = 16000 /\ v4[1] = 16000 /\ v4[2] = 13000
        /\ v5[1] = 14000 /\ v5[2] = 11000 /\ v6[1] = 9000 /\ v6[2] = 9000
    BY SMT
  <1> HIDE DEF v1, v2, v3, v4, v5, v6
  <1>3. /\ DOMAIN rules = 1..n /\ rules[n][1] /\ n \in Nat \ {0}
        /\ rules[1][1] <=> c1
        /\ rules[2][1] <=> c2
        /\ rules[4][1] <=> boss
        /\ rules[5][1] <=> d.useVerifier
        /\ rules[1][2] = v1 /\ rules[2][2] = v2 /\ rules[3][2] = v3
        /\ rules[4][2] = v4 /\ rules[5][2] = v5 /\ rules[6][2] = v6
    <2> HIDE DEF c1, c2, c3, boss
    <2> QED  BY SMT
  <1>4. /\ d.useVerifier /\ d.useBoss => c2
        /\ d.useBoss => boss
    OBVIOUS
  <1> HIDE DEF rules, n, boss, c1, c2, c3
  <1>5. PICK k \in 1..n : /\ rules[k][1] /\ FirstMatch(rules) = rules[k][2]
                          /\ \A j \in 1..(k - 1) : ~rules[j][1]
    BY SMT, <1>3, FirstMatchIs
  <1>6. /\ k \in {1, 2, 3, 4, 5, 6}
        /\ d.useVerifier /\ d.useBoss => k <= 2
        /\ d.useBoss => k <= 4
        /\ d.useVerifier => k <= 5
    BY SMT, <1>3, <1>4, <1>5 DEF n
  <1>7. floors \in {v1, v2, v3, v4, v5, v6}
        /\ (d.useVerifier /\ d.useBoss => floors \in {v1, v2})
        /\ (d.useBoss => floors \in {v1, v2, v3, v4})
        /\ (d.useVerifier => floors \in {v1, v2, v3, v4, v5})
    BY SMT, <1>3, <1>5, <1>6
  <1> HIDE DEF floors
  <1> QED  BY SMT, <1>1, <1>2, <1>7 DEF Pick

LEMMA TaskBaseIs == \A t \in TaskType : TaskBase[t] \in Nat
  BY SMT DEF TaskBase

LEMMA RiskMultiplierIs == \A k \in RiskLevel : RiskMultiplier[k] \in Nat
  BY SMT DEF RiskMultiplier

LEMMA PriorityMultiplierIs ==
    \A p \in DOMAIN PriorityMultiplier : PriorityMultiplier[p] \in Nat
  BY SMT DEF PriorityMultiplier

LEMMA TotalTokensIs ==
    ASSUME NEW d \in RouteDecision, NEW tokens, NEW priority \in DOMAIN PriorityMultiplier,
           NEW failures \in PriorFailures
    PROVE  LET total == TotalTokens(d, tokens, priority, failures)
           IN  total \in Nat /\ OrchestrationFloor(d) <= total /\ total <= 48000
  <1> DEFINE c1 == tokens > 20000
             c2 == tokens > 6000
             rules == <<<<c1, 22>>, <<c2, 21>>, <<TRUE, 20>>>>
             pressure == FirstMatch(rules)
             n == 3
             retry == 25 + 2 * failures
             base == TaskBase[d.taskType] \div 500
             risk == RiskMultiplier[d.risk]
             weight == PriorityMultiplier[priority]
             product == base * risk * weight * pressure * retry
             wanted == Rounded(product, 10000)
             floor == OrchestrationFloor(d)
  <1>1. TotalTokens(d, tokens, priority, failures) = Between(Larger(wanted, floor), 2500, 48000)
    BY SMT DEF TotalTokens
  <1>2. pressure \in Nat
    <2> HIDE DEF c1, c2
    <2>1. /\ DOMAIN rules = 1..n /\ rules[n][1] /\ n \in Nat \ {0}
          /\ rules[1][2] = 22 /\ rules[2][2] = 21 /\ rules[3][2] = 20
      BY SMT
    <2> HIDE DEF rules, n
    <2>2. PICK k \in 1..n : FirstMatch(rules) = rules[k][2]  BY <2>1, FirstMatchIs
    <2>3. k \in {1, 2, 3}  BY <2>2 DEF n
    <2> QED  BY SMT, <2>1, <2>2, <2>3
  <1>3. base \in Nat
    <2>1. TaskBase[d.taskType] \in Nat  BY TaskBaseIs DEF RouteDecision
    <2> QED  BY SMT, <2>1
  <1>4. risk \in Nat  BY RiskMultiplierIs DEF RouteDecision
  <1>5. weight \in Nat  BY PriorityMultiplierIs
  <1>11. retry \in Nat  BY SMT DEF PriorFailures
  <1> HIDE DEF pressure, base, risk, weight, retry
  <1>6. product \in Nat
    <2>1. base * risk \in Nat  BY <1>3, <1>4
    <2>2. base * risk * weight \in Nat  BY <2>1, <1>5
    <2>3. base * risk * weight * pressure \in Nat  BY <2>2, <1>2
    <2> QED  BY <2>3, <1>11
  <1> HIDE DEF product
  <1>7. wanted \in Nat
    <2>1. 10000 \in Nat \ {0}  BY SMT
    <2> QED  BY SMT, <2>1, <1>6, RoundedIs
  <1> HIDE DEF wanted
  <1>8. floor \in Nat /\ 9000 <= floor /\ floor <= 32000
    <2> HIDE DEF floor
    <2> QED  BY SMT, FloorIs DEF floor
  <1> HIDE DEF floor
  <1>9. /\ Between(Larger(wanted, floor), 2500, 48000) \in Nat
        /\ floor <= Between(Larger(wanted, floor), 2500, 48000)
        /\ Between(Larger(wanted, floor), 2500, 48000) <= 48000
    BY SMT, <1>7, <1>8 DEF Between, Larger, Pick
  <1> QED  BY SMT, <1>1, <1>9 DEF floor

\* A share of an amount, in twenty-thousandths, within its limits.
Share(amount, percent, least, top) == Between(Rounded(amount * percent, 20000), least, top)

LEMMA ShareIs ==
    ASSUME NEW amount \in Nat, NEW percent \in Nat, NEW least \in Nat, NEW top \in Nat, least <= top
    PROVE  /\ Share(amount, percent, least, top) \in Nat
           /\ Share(amount, percent, least, top) <= top
           /\ \/ Share(amount, percent, least, top) <= least
              \/ 40000 * Share(amount, percent, least, top) <= 2 * (amount * percent) + 20000
  <1> DEFINE n == amount * percent
             rounded == Rounded(n, 20000)
             share == Between(rounded, least, top)
  <1>1. n \in Nat  OBVIOUS
  <1> HIDE DEF n
  <1>2. rounded \in Nat /\ 40000 * rounded <= 2 * n + 20000
    <2>1. 20000 \in Nat \ {0}  BY SMT
    <2>2. rounded \in Nat /\ 2 * 20000 * rounded <= 2 * n + 20000
      BY SMT, <2>1, <1>1, RoundedIs
    <2> HIDE DEF rounded
    <2> QED  BY SMT, <2>2
  <1> HIDE DEF rounded
  <1>3. share \in Nat /\ share <= top /\ (share <= least \/ share <= rounded)
    BY SMT, <1>2 DEF Between, Larger, Pick
  <1> HIDE DEF share
  <1>4. share <= rounded => 40000 * share <= 2 * n + 20000
    BY SMT, <1>1, <1>2, <1>3
  <1>5. Share(amount, percent, least, top) = share  BY SMT DEF Share, share, rounded, n
  <1> QED  BY SMT, <1>3, <1>4, <1>5 DEF n

\* One call of the Host and of each reviewer at their caps are within the total.
LEMMA TokenPlanFits ==
    ASSUME NEW d \in RouteDecision, NEW tokens, NEW priority \in DOMAIN PriorityMultiplier,
           NEW failures \in PriorFailures
    PROVE  LET plan == TokenBudgetPlan(d, tokens, priority, failures)
           IN  plan.host + Pick(d.useVerifier, plan.verifier, 0)
                   + Pick(d.useBoss, plan.boss, 0) <= plan.total
  <1> DEFINE total == TotalTokens(d, tokens, priority, failures)
             boss == d.useBoss \/ d.escalates
             share == [worker |-> Pick(d.useWorker, Pick(d.taskType = "summarization", 84, 68), 10),
                       verifier |-> Pick(d.useVerifier, 32, 6),
                       boss |-> Pick(boss, Pick(d.risk = "critical", 18, 11), 3),
                       reserve |-> Pick(d.risk = "critical", 40, 32)]
             host == Larger(36, 200 - share.worker - share.verifier - share.boss - share.reserve)
             RoleBudget(part, out, inMin, inMax, outMin, outMax) ==
                Between(Rounded(total * part * (100 - out), 20000), inMin, inMax)
                    + Between(Rounded(total * part * out, 20000), outMin, outMax)
             forHost == RoleBudget(host, 35, 128, 10000, 1600, 3200)
             forVerifier == RoleBudget(share.verifier, 45, 128, 5000, Pick(d.useVerifier, 2200, 64), 2600)
             forBoss == RoleBudget(share.boss, 55, Pick(boss, 1500, 128), 3500, Pick(boss, 1800, 64), 3200)
             plan == [total |-> total,
                      worker |-> RoleBudget(share.worker, 28, 128, 12000, Pick(d.useWorker, 1600, 64), 2400),
                      host |-> forHost, verifier |-> forVerifier, boss |-> forBoss,
                      reserve |-> Between(Rounded(total * share.reserve, 200), 0, 12000)]
  <1>1. TokenBudgetPlan(d, tokens, priority, failures) = plan  BY SMT DEF TokenBudgetPlan
  <1>2. /\ plan.total = total /\ plan.host = forHost /\ plan.verifier = forVerifier
        /\ plan.boss = forBoss
    <2> HIDE DEF total, forHost, forVerifier, forBoss
    <2> QED  BY SMT
  <1>3. /\ total \in Nat /\ 9000 <= total /\ total <= 48000
        /\ d.useVerifier => 11000 <= total
        /\ d.useBoss => 13000 <= total
        /\ d.useVerifier /\ d.useBoss => 20000 <= total
    <2> HIDE DEF total
    <2>1. total \in Nat /\ OrchestrationFloor(d) <= total /\ total <= 48000
      BY SMT, TotalTokensIs DEF total
    <2> DEFINE floor == OrchestrationFloor(d)
    <2> HIDE DEF floor
    <2>2. /\ floor \in Nat /\ 9000 <= floor
          /\ d.useVerifier => 11000 <= floor
          /\ d.useBoss => 13000 <= floor
          /\ d.useVerifier /\ d.useBoss => 20000 <= floor
      BY SMT, FloorIs DEF floor
    <2> QED  BY SMT, <2>1, <2>2 DEF floor
  <1>4. /\ host \in Nat /\ host <= 149
        /\ d.useVerifier => host <= 123
        /\ d.useBoss => host <= 141
        /\ d.useVerifier /\ d.useBoss => host <= 115
    BY SMT DEF Pick, Larger
  <1>5. /\ share.verifier \in Nat /\ share.verifier <= 32
        /\ share.boss \in Nat /\ share.boss <= 18
    BY SMT DEF Pick
  <1> DEFINE ofHost == total * host
             ofVerifier == total * share.verifier
             ofBoss == total * share.boss
             hostIn == Share(ofHost, 65, 128, 10000)
             hostOut == Share(ofHost, 35, 1600, 3200)
             verifierIn == Share(ofVerifier, 55, 128, 5000)
             verifierOut == Share(ofVerifier, 45, 2200, 2600)
             bossIn == Share(ofBoss, 45, 1500, 3500)
             bossOut == Share(ofBoss, 55, 1800, 3200)
  <1>6. /\ forHost = hostIn + hostOut
        /\ d.useVerifier => forVerifier = verifierIn + verifierOut
        /\ d.useBoss => forBoss = bossIn + bossOut
    <2> HIDE DEF total, share, host
    <2> QED  BY SMT DEF Share, Pick
  <1> HIDE DEF total, share, host
  <1>7. /\ ofHost \in Nat /\ ofVerifier \in Nat /\ ofBoss \in Nat
        /\ ofHost <= 149 * total
        /\ d.useVerifier => ofHost <= 123 * total
        /\ d.useBoss => ofHost <= 141 * total
        /\ d.useVerifier /\ d.useBoss => ofHost <= 115 * total
        /\ ofVerifier <= 32 * total
        /\ ofBoss <= 18 * total
    <2>1. ASSUME NEW x \in Nat, NEW y \in Nat, x <= y PROVE total * x \in Nat /\ total * x <= y * total
      BY SMT, <1>3, <2>1
    <2>2. 149 \in Nat /\ 123 \in Nat /\ 141 \in Nat /\ 115 \in Nat /\ 32 \in Nat /\ 18 \in Nat
      BY SMT
    <2> QED  BY SMT, <2>1, <2>2, <1>4, <1>5
  <1> HIDE DEF ofHost, ofVerifier, ofBoss, forHost, forVerifier, forBoss, plan
  <1>8. /\ hostIn \in Nat /\ (hostIn <= 128 \/ 40000 * hostIn <= 2 * (ofHost * 65) + 20000)
        /\ hostOut \in Nat /\ hostOut <= 3200
        /\ hostOut <= 1600 \/ 40000 * hostOut <= 2 * (ofHost * 35) + 20000
        /\ verifierIn \in Nat /\ (verifierIn <= 128 \/ 40000 * verifierIn <= 2 * (ofVerifier * 55) + 20000)
        /\ verifierOut \in Nat /\ verifierOut <= 2600
        /\ bossIn \in Nat /\ (bossIn <= 1500 \/ 40000 * bossIn <= 2 * (ofBoss * 45) + 20000)
        /\ bossOut \in Nat /\ (bossOut <= 1800 \/ 40000 * bossOut <= 2 * (ofBoss * 55) + 20000)
    <2>7. ofHost \in Nat /\ ofVerifier \in Nat /\ ofBoss \in Nat  BY <1>7
    <2>1. /\ hostIn \in Nat
          /\ hostIn <= 128 \/ 40000 * hostIn <= 2 * (ofHost * 65) + 20000
      <3>1. 65 \in Nat /\ 128 \in Nat /\ 10000 \in Nat /\ 128 <= 10000  BY SMT
      <3> QED  BY SMT, <2>7, <3>1, ShareIs
    <2>2. /\ hostOut \in Nat /\ hostOut <= 3200
          /\ hostOut <= 1600 \/ 40000 * hostOut <= 2 * (ofHost * 35) + 20000
      <3>1. 35 \in Nat /\ 1600 \in Nat /\ 3200 \in Nat /\ 1600 <= 3200  BY SMT
      <3> QED  BY SMT, <2>7, <3>1, ShareIs
    <2>3. /\ verifierIn \in Nat
          /\ verifierIn <= 128 \/ 40000 * verifierIn <= 2 * (ofVerifier * 55) + 20000
      <3>1. 55 \in Nat /\ 128 \in Nat /\ 5000 \in Nat /\ 128 <= 5000  BY SMT
      <3> QED  BY SMT, <2>7, <3>1, ShareIs
    <2>4. verifierOut \in Nat /\ verifierOut <= 2600
      <3>1. 45 \in Nat /\ 2200 \in Nat /\ 2600 \in Nat /\ 2200 <= 2600  BY SMT
      <3> QED  BY SMT, <2>7, <3>1, ShareIs
    <2>5. /\ bossIn \in Nat
          /\ bossIn <= 1500 \/ 40000 * bossIn <= 2 * (ofBoss * 45) + 20000
      <3>1. 45 \in Nat /\ 1500 \in Nat /\ 3500 \in Nat /\ 1500 <= 3500  BY SMT
      <3> QED  BY SMT, <2>7, <3>1, ShareIs
    <2>6. /\ bossOut \in Nat
          /\ bossOut <= 1800 \/ 40000 * bossOut <= 2 * (ofBoss * 55) + 20000
      <3>1. 55 \in Nat /\ 1800 \in Nat /\ 3200 \in Nat /\ 1800 <= 3200  BY SMT
      <3> QED  BY SMT, <2>7, <3>1, ShareIs
    <2> HIDE DEF hostIn, hostOut, verifierIn, verifierOut, bossIn, bossOut
    <2> QED  BY SMT, <2>1, <2>2, <2>3, <2>4, <2>5, <2>6
  <1> HIDE DEF hostIn, hostOut, verifierIn, verifierOut, bossIn, bossOut
  <1>9. CASE d.useVerifier /\ d.useBoss
    BY SMT, <1>1, <1>2, <1>3, <1>6, <1>7, <1>8, <1>9 DEF Pick
  <1>10. CASE d.useVerifier /\ ~d.useBoss
    BY SMT, <1>1, <1>2, <1>3, <1>6, <1>7, <1>8, <1>10 DEF Pick
  <1>11. CASE ~d.useVerifier /\ d.useBoss
    BY SMT, <1>1, <1>2, <1>3, <1>6, <1>7, <1>8, <1>11 DEF Pick
  <1>12. CASE ~d.useVerifier /\ ~d.useBoss
    BY SMT, <1>1, <1>2, <1>3, <1>6, <1>7, <1>8, <1>12 DEF Pick
  <1> QED  BY <1>9, <1>10, <1>11, <1>12

-----------------------------------------------------------------------------
(* The inductive invariant *)

Typed == TypeOK /\ request \in RuntimeContext

\* Where a baseline comes from, who asked for the Verifier, and that the session's own
\* record of it speaks for the same user.
Wished ==
    /\ stage = "baseline" /\ ~continued => decision = ChoosePipeline(request)
    /\ hostLed /\ stage # "idle" /\ request.verify => asked \/ interrupted
    /\ hostLed /\ stage # "baseline" /\ verified => asked \/ interrupted
    /\ hostLed /\ stage \in {"decided", "answered"} =>
            (decision.useVerifier <=> WantsVerification(request))

\* What needs approval before the answer is still asked for by a critical request.
Authorised ==
    stage \in {"baseline", "decided"} /\ decision.approval
        => AssessRisk(ClassifyTask(request), request) = "critical"

\* The latency plan of the baseline has time for the reviewers the Host-led policy may use.
BaselineTimed ==
    hostLed /\ stage = "baseline" =>
        /\ WantsVerification(request) => latency.verifier >= 20000
        /\ request.boss \/ decision.approval \/ decision.risk = "critical" => latency.boss >= 20000

Inv == Typed /\ Agrees(decision) /\ OptOutWins /\ Wished /\ Authorised /\ BaselineTimed /\ ReviewersTimed

LEMMA NoRequestIs == NoRequest \in RuntimeContext
  <1>1. {} \in SUBSET STRING /\ "analyze" \in RuntimeIntent /\ 75 \in 0..100
    BY DEF RuntimeIntent
  <1>2. 0 \in ContextTokens
    <2>1. 0 \in Int /\ 2000000 \in Int /\ 0 <= 0 /\ 0 <= 2000000  BY SMT
    <2> QED  BY SMT, <2>1, WithinIs DEF ContextTokens
  <1> QED  BY SMT, <1>1, <1>2 DEF NoRequest, RuntimeContext

\* Between two turns there is no request and the decision is the policy's for none.
LEMMA NoTurnIs ==
    /\ Agrees(NoDecision) /\ NoDecision \in RouteDecision
    /\ NoDecision.useVerifier => ~UserExplicitlyDisabledVerifier(NoRequest)
    /\ LatencyPlan(NoDecision) \in Latencies
  <1>1. /\ Agrees(NoDecision)
        /\ NoDecision.useVerifier => ~UserExplicitlyDisabledVerifier(NoRequest)
    BY NoRequestIs, PolicyIs DEF NoDecision
  <1>2. NoDecision \in RouteDecision  BY <1>1 DEF Agrees
  <1> QED  BY <1>1, <1>2, LatencyPlanIs

LEMMA InitInv == Init => Inv
  <1> SUFFICES ASSUME Init PROVE Inv  OBVIOUS
  <1>1. /\ hostLed \in BOOLEAN /\ stage = "idle" /\ request = NoRequest /\ continued = FALSE
        /\ decision = NoDecision /\ latency = LatencyPlan(NoDecision)
        /\ verified = FALSE /\ asked = FALSE /\ interrupted = FALSE
    BY DEF Init
  <1>2. Typed
    <2>1. /\ decision \in RouteDecision /\ request \in RuntimeContext
          /\ stage \in {"idle", "baseline", "decided", "answered"}
          /\ continued \in BOOLEAN /\ verified \in BOOLEAN /\ asked \in BOOLEAN /\ interrupted \in BOOLEAN
      BY <1>1, NoTurnIs, NoRequestIs
    <2>2. latency \in Latencies  BY <1>1, NoTurnIs
    <2> QED  BY SMT, <2>1, <2>2, <1>1 DEF Typed, TypeOK, Latencies
  <1>3. OptOutWins  BY <1>1, NoTurnIs DEF OptOutWins
  <1>4. Wished /\ Authorised /\ BaselineTimed /\ ReviewersTimed
    BY SMT, <1>1 DEF Wished, Authorised, BaselineTimed, ReviewersTimed
  <1> QED  BY <1>1, <1>2, <1>3, <1>4, NoTurnIs DEF Inv

LEMMA EndTurnStep ==
    ASSUME Inv, EndTurn, interrupted' \in BOOLEAN,
           hostLed /\ verified => asked \/ interrupted'
    PROVE  Inv'
  <1>1. /\ stage' = "idle" /\ request' = NoRequest /\ continued' = FALSE
        /\ decision' = NoDecision /\ latency' = LatencyPlan(NoDecision)
        /\ hostLed' = hostLed /\ verified' = verified /\ asked' = asked
    BY DEF EndTurn
  <1>2. hostLed \in BOOLEAN /\ verified \in BOOLEAN /\ asked \in BOOLEAN  BY DEF Inv, Typed, TypeOK
  <1>3. Typed'
    <2>1. /\ decision' \in RouteDecision /\ request' \in RuntimeContext
          /\ stage' \in {"idle", "baseline", "decided", "answered"}
          /\ continued' \in BOOLEAN /\ verified' \in BOOLEAN /\ asked' \in BOOLEAN
      BY <1>1, <1>2, NoTurnIs, NoRequestIs
    <2>2. latency' \in Latencies  BY <1>1, NoTurnIs
    <2> QED  BY SMT, <2>1, <2>2, <1>1, <1>2 DEF Typed, TypeOK, Latencies
  <1>4. OptOutWins'  BY <1>1, NoTurnIs DEF OptOutWins
  <1>5. Wished' /\ Authorised' /\ BaselineTimed' /\ ReviewersTimed'
    BY SMT, <1>1 DEF Wished, Authorised, BaselineTimed, ReviewersTimed
  <1> QED  BY <1>1, <1>3, <1>4, <1>5, NoTurnIs DEF Inv

LEMMA LeadStep ==
    ASSUME Inv, NEW d, Lead(d), Agrees(d),
           d.approval = decision.approval, d.risk = decision.risk,
           UserExplicitlyDisabledVerifier(request) /\ (hostLed \/ ~continued) => ~d.useVerifier,
           hostLed => (d.useVerifier <=> WantsVerification(request)),
           hostLed /\ d.useBoss => request.boss \/ decision.approval \/ decision.risk = "critical"
    PROVE  Inv'
  <1>1. /\ stage = "baseline" /\ stage' = "decided" /\ decision' = d /\ verified' = d.useVerifier
        /\ hostLed' = hostLed /\ request' = request /\ continued' = continued
        /\ latency' = latency /\ asked' = asked /\ interrupted' = interrupted
    BY DEF Lead
  <1>2. d \in RouteDecision /\ d.useVerifier \in BOOLEAN  BY DEF Agrees, RouteDecision
  <1>3. Typed'
    <2>1. Typed  BY DEF Inv
    <2> QED  BY SMT, <2>1, <1>1, <1>2 DEF Typed, TypeOK
  <1>4. OptOutWins'  BY <1>1 DEF OptOutWins, UserExplicitlyDisabledVerifier, Matches
  <1>5. Wished'
    <2>1. WantsVerification(request) => request.verify  BY DEF WantsVerification
    <2>2. hostLed /\ request.verify => asked \/ interrupted  BY SMT, <1>1 DEF Inv, Wished
    <2> QED  BY SMT, <2>1, <2>2, <1>1 DEF Wished
  <1>6. Authorised'
    <2>1. decision.approval => AssessRisk(ClassifyTask(request), request) = "critical"
      BY SMT, <1>1 DEF Inv, Authorised
    <2> QED  BY SMT, <2>1, <1>1 DEF Authorised
  <1>7. BaselineTimed'  BY SMT, <1>1 DEF BaselineTimed
  <1>8. ReviewersTimed'
    <2>1. BaselineTimed  BY DEF Inv
    <2> QED  BY SMT, <2>1, <1>1 DEF BaselineTimed, ReviewersTimed
  <1>9. Agrees(decision)'  BY <1>1 DEF Agrees
  <1> QED  BY <1>3, <1>4, <1>5, <1>6, <1>7, <1>8, <1>9 DEF Inv

LEMMA AnswerStep ==
    ASSUME Inv, NEW d, NEW r \in RuntimeContext, Answer(d, r), Agrees(d),
           UserExplicitlyDisabledVerifier(r) /\ (hostLed \/ ~continued) => ~d.useVerifier,
           hostLed => (d.useVerifier <=> WantsVerification(r)),
           hostLed => (WantsVerification(r) <=> WantsVerification(request)),
           hostLed => r.verify = request.verify
    PROVE  Inv'
  <1>1. /\ stage = "decided" /\ stage' = "answered" /\ decision' = d /\ request' = r
        /\ latency' = IF d.mode = decision.mode THEN latency ELSE LatencyPlan(d)
        /\ hostLed' = hostLed /\ continued' = continued /\ verified' = verified
        /\ asked' = asked /\ interrupted' = interrupted
    BY DEF Answer
  <1>2. /\ Typed /\ Agrees(decision) /\ Wished /\ ReviewersTimed
    BY DEF Inv
  <1>3. d \in RouteDecision /\ (d.useBoss <=> d.mode = "escalated_deep_path")  BY DEF Agrees
  <1>4. decision.useBoss <=> decision.mode = "escalated_deep_path"  BY <1>2 DEF Agrees
  <1>5. /\ LatencyPlan(d) \in Latencies
        /\ d.useVerifier => LatencyPlan(d).verifier >= 20000
        /\ d.useBoss => LatencyPlan(d).boss >= 20000
    BY SMT, <1>3, LatencyPlanIs
  <1>6. Typed'
    <2>1. latency \in Latencies  BY SMT, <1>2 DEF Typed, TypeOK, Latencies
    <2>2. latency' \in Latencies  BY SMT, <2>1, <1>1, <1>5
    <2> QED  BY SMT, <2>2, <1>1, <1>2, <1>3 DEF Typed, TypeOK, Latencies
  <1>7. OptOutWins'  BY <1>1 DEF OptOutWins, UserExplicitlyDisabledVerifier, Matches
  <1>8. Wished'  BY SMT, <1>1, <1>2 DEF Wished
  <1>9. Authorised' /\ BaselineTimed'  BY SMT, <1>1 DEF Authorised, BaselineTimed
  <1>10. ReviewersTimed'
    <2>1. CASE d.mode = decision.mode
      <3>1. hostLed /\ d.useVerifier => decision.useVerifier  BY SMT, <1>1, <1>2 DEF Wished
      <3> QED  BY SMT, <3>1, <2>1, <1>1, <1>2, <1>3, <1>4 DEF ReviewersTimed
    <2>2. CASE d.mode # decision.mode  BY SMT, <2>2, <1>1, <1>5 DEF ReviewersTimed
    <2> QED  BY <2>1, <2>2
  <1>11. Agrees(decision)'  BY <1>1 DEF Agrees
  <1> QED  BY <1>6, <1>7, <1>8, <1>9, <1>10, <1>11 DEF Inv

LEMMA ReceiveStep ==
    ASSUME Inv, NEW r \in Requests, NEW active \in BOOLEAN, Receive(r, active)
    PROVE  Inv'
  <1> DEFINE recovered == Recovered(r)
             resumes == active /\ recovered.root
             q == IF resumes THEN Resumed(recovered, 95) ELSE recovered
             sticky == Recovers(r) \/ resumes
             carries == q.root /\ (active \/ Recovers(r))
             baseline == ChoosePipeline(q)
             resumed == ActiveCodingContinuationDecision(baseline, q)
             led == ApplyHostLedPolicy(resumed, q, FALSE)
             rules == <<<<~carries, baseline>>, <<hostLed, led>>, <<TRUE, resumed>>>>
  <1>1. /\ stage = "idle" /\ stage' = "baseline"
        /\ request' = q /\ continued' = carries
        /\ decision' = FirstMatch(rules)
        /\ latency' = LatencyPlan(decision')
        /\ verified' = decision'.useVerifier
        /\ asked' = (r.verify \/ (sticky /\ asked))
        /\ interrupted' = (sticky /\ interrupted)
        /\ hostLed' = hostLed
    BY DEF Receive
  <1>2. r \in RuntimeContext  BY RequestsAssumption
  <1>3. /\ hostLed \in BOOLEAN /\ verified \in BOOLEAN /\ asked \in BOOLEAN /\ interrupted \in BOOLEAN
    BY DEF Inv, Typed, TypeOK
  <1>4. /\ recovered \in RuntimeContext
        /\ recovered.verify <=> r.verify \/ (Recovers(r) /\ verified)
    BY <1>2, <1>3, RecoveredIs
  <1>5. q \in RuntimeContext /\ (q.verify <=> r.verify \/ (sticky /\ verified))
    <2> HIDE DEF recovered
    <2>1. CASE resumes
      <3>1. 95 \in 0..100  OBVIOUS
      <3>2. Resumed(recovered, 95) \in RuntimeContext
            /\ (Resumed(recovered, 95).verify <=> recovered.verify \/ verified)
        BY <3>1, <1>3, <1>4, ResumedIs
      <3> QED  BY <3>2, <2>1, <1>4
    <2>2. CASE ~resumes  BY <2>2, <1>4
    <2> QED  BY <2>1, <2>2
  <1>6. carries \in BOOLEAN
    <2>1. q.root \in BOOLEAN  BY <1>5, RequestTyped
    <2> QED  BY <2>1
  <1>7. sticky \in BOOLEAN  BY DEF Recovers
  <1> HIDE DEF recovered, resumes, q, sticky, carries
  <1>8. /\ Agrees(baseline)
        /\ baseline.risk = AssessRisk(ClassifyTask(q), q)
        /\ baseline.approval <=> baseline.risk = "critical"
        /\ baseline.useVerifier => ~UserExplicitlyDisabledVerifier(q)
        /\ WantsVerification(q) => baseline.useVerifier
        /\ q.boss \/ baseline.risk = "critical" => baseline.useBoss
    <2> HIDE DEF baseline
    <2> QED  BY <1>5, PolicyIs DEF baseline
  <1> HIDE DEF baseline
  <1>9. Agrees(resumed) /\ resumed.approval = FALSE /\ resumed.risk = "high"
    <2> HIDE DEF resumed
    <2> QED  BY <1>5, <1>8, ContinuationIs DEF resumed
  <1> HIDE DEF resumed
  <1>10. /\ Agrees(led)
         /\ led.useVerifier <=> WantsVerification(q)
         /\ led.useBoss <=> q.boss \/ resumed.approval \/ resumed.risk = "critical"
         /\ led.approval = resumed.approval /\ led.risk = resumed.risk
    <2> HIDE DEF led
    <2>1. FALSE \in BOOLEAN  OBVIOUS
    <2> QED  BY <2>1, <1>5, <1>9, HostLedIs DEF led
  <1> HIDE DEF led
  <1>11. /\ ~carries => decision' = baseline
         /\ carries /\ hostLed => decision' = led
         /\ carries /\ ~hostLed => decision' = resumed
    <2> DEFINE n == 3
    <2>1. /\ DOMAIN rules = 1..n /\ rules[n][1] /\ n \in Nat \ {0}
          /\ rules[1][1] <=> ~carries
          /\ rules[2][1] <=> hostLed
          /\ rules[1][2] = baseline /\ rules[2][2] = led /\ rules[3][2] = resumed
      <3> DEFINE c1 == ~carries c2 == hostLed
      <3>1. rules = <<<<c1, baseline>>, <<c2, led>>, <<TRUE, resumed>>>>  OBVIOUS
      <3> HIDE DEF c1, c2, rules
      <3>2. DOMAIN rules = 1..n  BY <3>1
      <3>3. rules[1] = <<c1, baseline>> /\ rules[2] = <<c2, led>> /\ rules[3] = <<TRUE, resumed>>  BY <3>1
      <3>4. (rules[1][1] <=> c1) /\ (rules[2][1] <=> c2) /\ rules[3][1]  BY <3>3
      <3>5. rules[1][2] = baseline /\ rules[2][2] = led /\ rules[3][2] = resumed  BY <3>3
      <3> QED  BY <3>2, <3>4, <3>5 DEF c1, c2
    <2> HIDE DEF rules, n
    <2>2. PICK k \in 1..n : /\ rules[k][1] /\ FirstMatch(rules) = rules[k][2]
                            /\ \A j \in 1..(k - 1) : ~rules[j][1]
      BY <2>1, FirstMatchIs
    <2>3. k \in {1, 2, 3} /\ (k # 1 => ~rules[1][1]) /\ (k = 3 => ~rules[2][1])
      BY <2>2 DEF n
    <2> QED  BY <2>1, <2>2, <2>3, <1>1
  <1>12. /\ Agrees(decision')
         /\ UserExplicitlyDisabledVerifier(q) /\ (hostLed \/ ~carries) => ~decision'.useVerifier
         /\ decision'.approval => AssessRisk(ClassifyTask(q), q) = "critical"
         /\ hostLed /\ WantsVerification(q) => decision'.useVerifier
         /\ hostLed /\ (q.boss \/ decision'.approval \/ decision'.risk = "critical") => decision'.useBoss
    <2>1. CASE ~carries  BY <2>1, <1>8, <1>11
    <2>2. CASE carries /\ hostLed
      <3>1. WantsVerification(q) => ~UserExplicitlyDisabledVerifier(q)  BY DEF WantsVerification
      <3> QED  BY <3>1, <2>2, <1>9, <1>10, <1>11
    <2>3. CASE carries /\ ~hostLed  BY <2>3, <1>9, <1>11
    <2> QED  BY <2>1, <2>2, <2>3
  <1>13. decision' \in RouteDecision /\ decision'.useVerifier \in BOOLEAN
    BY <1>12 DEF Agrees, RouteDecision
  <1>14. /\ latency' \in Latencies
         /\ decision'.useVerifier => latency'.verifier >= 20000
         /\ decision'.useBoss => latency'.boss >= 20000
    BY SMT, <1>1, <1>13, LatencyPlanIs
  <1>15. Typed'
    <2>1. asked' \in BOOLEAN /\ interrupted' \in BOOLEAN /\ verified' \in BOOLEAN
      <3>1. r.verify \in BOOLEAN  BY <1>2, RequestTyped
      <3> QED  BY <3>1, <1>1, <1>13
    <2>2. stage' \in {"idle", "baseline", "decided", "answered"}  BY <1>1
    <2>3. continued' \in BOOLEAN /\ hostLed' \in BOOLEAN /\ request' \in RuntimeContext
      BY <1>1, <1>3, <1>5, <1>6
    <2> QED  BY SMT, <2>1, <2>2, <2>3, <1>13, <1>14 DEF Typed, TypeOK, Latencies
  <1>16. OptOutWins'
    BY <1>1, <1>12 DEF OptOutWins, UserExplicitlyDisabledVerifier, Matches
  <1>17. Wished'
    <2>1. stage' = "baseline" /\ ~continued' => decision' = ChoosePipeline(request')
      BY <1>1, <1>11 DEF baseline
    <2>2. hostLed /\ verified => asked \/ interrupted  BY <1>1 DEF Inv, Wished
    <2>3. hostLed' /\ stage' # "idle" /\ request'.verify => asked' \/ interrupted'
      BY <2>2, <1>1, <1>5
    <2> QED  BY <2>1, <2>3, <1>1 DEF Wished
  <1>18. Authorised'  BY <1>1, <1>12 DEF Authorised
  <1>19. BaselineTimed'  BY SMT, <1>1, <1>12, <1>14 DEF BaselineTimed
  <1>20. ReviewersTimed'  BY SMT, <1>1 DEF ReviewersTimed
  <1>21. Agrees(decision)'  BY <1>12 DEF Agrees
  <1> QED  BY <1>15, <1>16, <1>17, <1>18, <1>19, <1>20, <1>21 DEF Inv

LEMMA LowTierIs ==
    ASSUME NEW d, NEW r, NEW mode, NEW p, NEW selected
    PROVE  DecideLowTierRouting(d, r, mode, p, selected) \in BOOLEAN
  BY SMT DEF DecideLowTierRouting

\* The request of the answer is of the turn's user.
LEMMA ChangedWishes ==
    ASSUME Inv, NEW unresolved \in BOOLEAN
    PROVE  LET c == Changed(request, unresolved)
           IN  /\ c \in RuntimeContext
               /\ hostLed => c.verify = request.verify
               /\ hostLed => (WantsVerification(c) <=> WantsVerification(request))
               /\ AssessRisk(ClassifyTask(request), request) = "critical"
                    => AssessRisk(ClassifyTask(c), c) = "critical"
  <1> DEFINE c == Changed(request, unresolved)
  <1>1. request \in RuntimeContext /\ hostLed \in BOOLEAN  BY DEF Inv, Typed, TypeOK
  <1>2. /\ c \in RuntimeContext
        /\ hostLed => c.verify = request.verify
        /\ UserExplicitlyDisabledVerifier(c) <=> UserExplicitlyDisabledVerifier(request)
        /\ AssessRisk(ClassifyTask(request), request) = "critical"
                    => AssessRisk(ClassifyTask(c), c) = "critical"
    <2> HIDE DEF c
    <2> QED  BY <1>1, ChangedIs DEF c
  <1> HIDE DEF c
  <1> QED  BY <1>2 DEF WantsVerification, c

LEMMA InvStep == Inv /\ [Next]_vars => Inv'
  <1> SUFFICES ASSUME Inv, [Next]_vars PROVE Inv'  OBVIOUS
  <1>1. /\ hostLed \in BOOLEAN /\ request \in RuntimeContext /\ interrupted \in BOOLEAN
        /\ Agrees(decision)
    BY DEF Inv, Typed, TypeOK
  <1>2. ASSUME NEW r \in Requests, NEW active \in BOOLEAN, Receive(r, active) PROVE Inv'
    BY <1>2, ReceiveStep
  <1>3. CASE Interrupt
    <2>1. EndTurn /\ interrupted' = TRUE  BY <1>3 DEF Interrupt
    <2> QED  BY <2>1, EndTurnStep
  <1>4. CASE Finish
    <2>1. EndTurn /\ interrupted' = interrupted /\ stage # "baseline"  BY <1>4 DEF Finish
    <2>2. hostLed /\ verified => asked \/ interrupted  BY <2>1 DEF Inv, Wished
    <2> QED  BY <2>1, <2>2, <1>1, EndTurnStep
  <1>5. CASE LedByHost
    <2>1. PICK mode \in LowTierModes, p \in Passports, selected \in BOOLEAN :
            hostLed /\ Lead(ApplyHostLedPolicy(decision, request,
                                DecideLowTierRouting(decision, request, mode, p, selected)))
      BY <1>5 DEF LedByHost
    <2> DEFINE w == DecideLowTierRouting(decision, request, mode, p, selected)
               d == ApplyHostLedPolicy(decision, request, w)
    <2>2. w \in BOOLEAN  BY LowTierIs
    <2>3. hostLed /\ Lead(d)  BY <2>1
    <2> HIDE DEF w
    <2>4. /\ Agrees(d)
          /\ d.useVerifier <=> WantsVerification(request)
          /\ d.useBoss <=> request.boss \/ decision.approval \/ decision.risk = "critical"
          /\ d.approval = decision.approval /\ d.risk = decision.risk
      <3> HIDE DEF d
      <3> QED  BY <2>2, <1>1, HostLedIs DEF d
    <2> HIDE DEF d
    <2>5. WantsVerification(request) => ~UserExplicitlyDisabledVerifier(request)
      BY DEF WantsVerification
    <2> QED  BY <2>3, <2>4, <2>5, LeadStep
  <1>6. CASE LedByPolicy
    <2>1. ~hostLed /\ Lead(decision)  BY <1>6 DEF LedByPolicy
    <2>2. UserExplicitlyDisabledVerifier(request) /\ (hostLed \/ ~continued) => ~decision.useVerifier
      BY DEF Inv, OptOutWins
    <2> QED  BY <2>1, <2>2, <1>1, LeadStep
  <1>7. CASE LedByPlan
    <2>1. ~hostLed /\ ~continued  BY <1>7 DEF LedByPlan
    <2>2. ASSUME NEW plan \in GatewayHostPlan, Lead(PipelineForHostPlan(decision, plan, request))
          PROVE  Inv'
      <3> DEFINE d == PipelineForHostPlan(decision, plan, request)
      <3>1. /\ Agrees(d)
            /\ d.useVerifier => ~UserExplicitlyDisabledVerifier(request)
            /\ d.approval = decision.approval /\ d.risk = decision.risk
        <4> HIDE DEF d
        <4> QED  BY <1>1, PlannedIs DEF d
      <3>2. Lead(d)  BY <2>2
      <3> HIDE DEF d
      <3> QED  BY <3>1, <3>2, <2>1, LeadStep
    <2>3. ASSUME Lead(HostPlanningFallback(decision, request)) PROVE Inv'
      <3> DEFINE d == HostPlanningFallback(decision, request)
      <3>1. stage = "baseline"  BY <2>3 DEF Lead
      <3>2. decision = ChoosePipeline(request)  BY <3>1, <2>1 DEF Inv, Wished
      <3>3. /\ Agrees(d)
            /\ d.useVerifier => ~UserExplicitlyDisabledVerifier(request)
            /\ d.approval = decision.approval /\ d.risk = decision.risk
        <4> HIDE DEF d
        <4> QED  BY <3>2, <1>1, FallbackIs DEF d
      <3>4. Lead(d)  BY <2>3
      <3> HIDE DEF d
      <3> QED  BY <3>3, <3>4, <2>1, LeadStep
    <2> QED  BY <2>2, <2>3, <1>7 DEF LedByPlan
  <1>8. CASE AnswerUnchanged
    <2>1. Answer(decision, request) /\ stage = "decided"  BY <1>8 DEF AnswerUnchanged, Answer
    <2>2. UserExplicitlyDisabledVerifier(request) /\ (hostLed \/ ~continued) => ~decision.useVerifier
      BY DEF Inv, OptOutWins
    <2>3. hostLed => (decision.useVerifier <=> WantsVerification(request))
      BY <2>1 DEF Inv, Wished
    <2> QED  BY <2>1, <2>2, <2>3, <1>1, AnswerStep
  <1>9. CASE AnswerChanged
    <2>1. PICK unresolved \in BOOLEAN, mode \in LowTierModes, p \in Passports, selected \in BOOLEAN :
            LET r == Changed(request, unresolved)
                base == [ChoosePipeline(r) EXCEPT !.tools = TRUE]
            IN  Answer(PostflightDecision(r, DecideLowTierRouting(base, r, mode, p, selected)), r)
      BY <1>9 DEF AnswerChanged
    <2> DEFINE r == Changed(request, unresolved)
               base == [ChoosePipeline(r) EXCEPT !.tools = TRUE]
               w == DecideLowTierRouting(base, r, mode, p, selected)
               d == PostflightDecision(r, w)
    <2>2. Answer(d, r)  BY <2>1
    <2>3. w \in BOOLEAN  BY LowTierIs
    <2> HIDE DEF base, w
    <2>4. /\ r \in RuntimeContext
          /\ hostLed => r.verify = request.verify
          /\ hostLed => (WantsVerification(r) <=> WantsVerification(request))
      <3> HIDE DEF r
      <3> QED  BY ChangedWishes DEF r
    <2> HIDE DEF r
    <2>5. /\ Agrees(d)
          /\ d.useVerifier => ~UserExplicitlyDisabledVerifier(r)
          /\ hostLed => (d.useVerifier <=> WantsVerification(r))
      <3> HIDE DEF d
      <3> QED  BY <2>3, <2>4, <1>1, PostflightIs DEF d
    <2> HIDE DEF d
    <2> QED  BY <2>2, <2>4, <2>5, AnswerStep
  <1>10. CASE UNCHANGED vars
    <2>1. /\ hostLed' = hostLed /\ stage' = stage /\ request' = request /\ continued' = continued
          /\ decision' = decision /\ latency' = latency /\ verified' = verified
          /\ asked' = asked /\ interrupted' = interrupted
      BY <1>10 DEF vars
    <2>2. Typed'
      <3>1. Typed  BY DEF Inv
      <3> QED  BY SMT, <3>1, <2>1 DEF Typed, TypeOK
    <2>3. Agrees(decision)'  BY <2>1, <1>1 DEF Agrees
    <2>4. OptOutWins'  BY <2>1 DEF Inv, OptOutWins, UserExplicitlyDisabledVerifier, Matches
    <2>5. Wished' /\ Authorised'  BY <2>1 DEF Inv, Wished, Authorised
    <2>6. BaselineTimed' /\ ReviewersTimed'
      BY SMT, <2>1 DEF Inv, BaselineTimed, ReviewersTimed
    <2> QED  BY <2>2, <2>3, <2>4, <2>5, <2>6 DEF Inv
  <1> QED
    BY <1>2, <1>3, <1>4, <1>5, <1>6, <1>7, <1>8, <1>9, <1>10 DEF Next

LEMMA InvHolds == Spec => []Inv
  BY InitInv, InvStep, PTL DEF Spec

-----------------------------------------------------------------------------
(* The theorems *)

\* Whatever the request, the Host's plan, the low-tier evidence and the change observed,
\* the parts of a decision agree after every rewriting of it: choosePipeline, the Host-led
\* policy, a planning Host, its fallback, a continuation and the postflight.
THEOREM RolesAgreeHolds == Spec => []RolesAgree
  <1>1. Inv => RolesAgree
    <2> SUFFICES ASSUME Inv PROVE RolesAgree  OBVIOUS
    <2>1. TypeOK  BY DEF Inv, Typed
    <2>2. Agrees(decision)  BY DEF Inv
    <2> QED  BY <2>1, <2>2 DEF RolesAgree, Agrees
  <1> QED  BY <1>1, InvHolds, PTL

\* Whether the independent Verifier is used is the user's choice: an opt-out wins over the
\* policy, a planning Host and a code change, and in the Host-led mode nobody is verified
\* who did not ask for it, in this turn or in one it continues.
THEOREM WishesKeptHolds == Spec => []WishesKept
  <1>1. Inv => WishesKept
    <2> SUFFICES ASSUME Inv PROVE WishesKept  OBVIOUS
    <2>1. OptOutWins  BY DEF Inv
    <2>2. VerifierAsked
      <3>1. WantsVerification(request) => request.verify  BY DEF WantsVerification
      <3> QED  BY <3>1 DEF Inv, Wished, VerifierAsked
    <2> QED  BY <2>1, <2>2 DEF WishesKept
  <1> QED  BY <1>1, InvHolds, PTL

\* The token plan of any decision in force has room for one call of the Host and of each
\* mandatory reviewer, and the latency plan for the reviewers the decision uses, although it
\* may have been made from the baseline.
THEOREM PlansFitHolds == Spec => []PlansFit
  <1>1. Inv => PlansFit
    <2> SUFFICES ASSUME Inv PROVE PlansFit  OBVIOUS
    <2>1. decision \in RouteDecision  BY DEF Inv, Agrees
    <2>2. MandatoryFits  BY <2>1, TokenPlanFits DEF MandatoryFits
    <2>3. ReviewersTimed  BY DEF Inv
    <2> QED  BY <2>2, <2>3 DEF PlansFit
  <1> QED  BY <1>1, InvHolds, PTL

\* A decision made anew after a code change does not drop the approval, nor the Boss, the
\* turn was started with: what made the request critical is still in it.
THEOREM AuthorityKeptHolds == Spec => AuthorityKept
  <1>1. Inv /\ [Next]_vars
            => [stage = "decided" /\ stage' = "answered" /\ decision.approval
                    => decision'.approval /\ decision'.useBoss]_vars
    <2> SUFFICES ASSUME Inv, [Next]_vars, vars' # vars,
                        stage = "decided", stage' = "answered", decision.approval
                 PROVE  decision'.approval /\ decision'.useBoss
      OBVIOUS
    <2>1. Agrees(decision) /\ hostLed \in BOOLEAN  BY DEF Inv, Typed, TypeOK
    <2>2. Next  OBVIOUS
    <2>3. CASE AnswerUnchanged
      <3>1. decision' = decision  BY <2>3 DEF AnswerUnchanged, Answer
      <3> QED  BY <3>1, <2>1 DEF Agrees
    <2>4. CASE AnswerChanged
      <3>1. PICK unresolved \in BOOLEAN, mode \in LowTierModes, p \in Passports, selected \in BOOLEAN :
              LET r == Changed(request, unresolved)
                  base == [ChoosePipeline(r) EXCEPT !.tools = TRUE]
              IN  Answer(PostflightDecision(r, DecideLowTierRouting(base, r, mode, p, selected)), r)
        BY <2>4 DEF AnswerChanged
      <3> DEFINE r == Changed(request, unresolved)
                 base == [ChoosePipeline(r) EXCEPT !.tools = TRUE]
                 w == DecideLowTierRouting(base, r, mode, p, selected)
                 d == PostflightDecision(r, w)
      <3>2. decision' = d  BY <3>1 DEF Answer
      <3>3. w \in BOOLEAN  BY LowTierIs
      <3> HIDE DEF base, w
      <3>4. AssessRisk(ClassifyTask(request), request) = "critical"  BY DEF Inv, Authorised
      <3>5. r \in RuntimeContext /\ AssessRisk(ClassifyTask(r), r) = "critical"
        <4> HIDE DEF r
        <4> QED  BY <3>4, ChangedWishes DEF r
      <3> HIDE DEF r
      <3>6. Agrees(d) /\ d.approval
        <4> HIDE DEF d
        <4> QED  BY <3>3, <3>5, <2>1, PostflightIs DEF d
      <3> HIDE DEF d
      <3> QED  BY <3>2, <3>6 DEF Agrees
    <2>5. ASSUME NEW r \in Requests, NEW active \in BOOLEAN, Receive(r, active) PROVE FALSE
      BY <2>5 DEF Receive
    <2>6. ~Interrupt /\ ~Finish  BY DEF Interrupt, Finish, EndTurn
    <2>7. ~LedByHost /\ ~LedByPolicy /\ ~LedByPlan  BY DEF LedByHost, LedByPolicy, LedByPlan, Lead
    <2> QED  BY <2>2, <2>3, <2>4, <2>5, <2>6, <2>7 DEF Next
  <1> QED  BY <1>1, InvHolds, PTL DEF Spec, AuthorityKept

=============================================================================
