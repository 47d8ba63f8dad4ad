------------------------------ MODULE MCRouting ------------------------------
(* Requests in slices: every pair of patterns with every intent, the hints with *)
(* the user's wishes, the sizes and kinds of evidence, and the continuations.    *)
EXTENDS Routing, FiniteSets

Patterns == {"destructive", "deploy_production", "deploy_now", "deploy", "architecture",
             "security", "eval", "debug", "summary", "memory", "code", "tool", "mutation"}

ByText ==
    {[NoRequest EXCEPT !.text = t, !.intent = i, !.code = c, !.root = TRUE] :
        t \in {x \cup y : x, y \in {{}} \cup {{p} : p \in Patterns}},
        i \in {"explain", "analyze", "execute"}, c \in BOOLEAN}

ByWish ==
    {[NoRequest EXCEPT !.taskHint = h, !.riskHint = k, !.text = t, !.verify = v, !.boss = b,
                       !.confidence = s] :
        h \in {"none", "eval_or_benchmark", "coding_change", "planning_or_architecture", "summarization"},
        k \in {"none", "low", "medium", "critical"}, t \in {{}, {"opt_out"}, {"opt_out", "keep_verifier"}},
        v \in BOOLEAN, b \in BOOLEAN, s \in {20, 60, 100}}

BySize ==
    {[NoRequest EXCEPT !.taskHint = h, !.tokens = n, !.files = f, !.untrusted = f, !.fresh = s,
                       !.intent = i, !.root = s] :
        h \in TaskType, n \in {0, 2000, 4500, 8000, 30000}, f \in BOOLEAN, s \in BOOLEAN,
        i \in {"analyze", "mutate"}}

ByContinuity ==
    {[NoRequest EXCEPT !.text = t \cup {"follow_up"}, !.code = c, !.verify = v, !.boss = b,
                       !.root = q, !.named = n, !.unfinished = u] :
        t \in {{}, {"destructive"}, {"opt_out"}}, c \in BOOLEAN, v \in BOOLEAN, b \in BOOLEAN,
        q \in BOOLEAN, n \in BOOLEAN, u \in BOOLEAN}

MCRequests == ByText \cup ByWish \cup BySize \cup ByContinuity

\* Enough outcomes, one too few, and one failure too many.
MCPassports ==
    {[samples |-> n, successes |-> 28, failures |-> f, backed |-> 28, invalid |-> 0,
      feedback |-> 20, accepted |-> 17] : n \in {29, 30}, f \in {1, 2}}

\* The routing regression suite of the readiness report, each request as the patterns
\* its text matches, with what is expected of its decision.
BaseRuntimeEvalCases == {
    <<NoRequest,
      [taskType |-> "simple_chat", mode |-> "direct_fast_path", useWorker |-> FALSE, useVerifier |-> FALSE]>>,
    <<[NoRequest EXCEPT !.text = {"memory", "architecture"}],
      [taskType |-> "memory_question", memory |-> TRUE]>>,
    <<[NoRequest EXCEPT !.text = {"summary"}, !.tokens = 10000],
      [taskType |-> "summarization", useWorker |-> TRUE, worker |-> "cheap"]>>,
    <<[NoRequest EXCEPT !.text = {"debug", "code", "mutation"}, !.files = TRUE, !.code = TRUE, !.intent = "mutate"],
      [taskType |-> "debugging", tools |-> TRUE, useWorker |-> TRUE]>>,
    <<[NoRequest EXCEPT !.text = {"debug"}, !.logs = TRUE],
      [taskType |-> "debugging", tools |-> TRUE, risk |-> "medium"]>>,
    <<[NoRequest EXCEPT !.text = {"security"}, !.files = TRUE],
      [taskType |-> "security_or_secret", risk |-> "high", useVerifier |-> TRUE]>>,
    <<[NoRequest EXCEPT !.text = {"architecture"}, !.intent = "explain"],
      [taskType |-> "planning_or_architecture", risk |-> "medium", approval |-> FALSE]>>,
    <<[NoRequest EXCEPT !.text = {"deploy_production", "mutation", "deploy_now", "deploy"}, !.intent = "execute"],
      [taskType |-> "deploy_or_destructive_action", risk |-> "critical", useBoss |-> TRUE, approval |-> TRUE]>>,
    <<[NoRequest EXCEPT !.text = {"architecture", "deploy_production", "mutation", "deploy"}, !.intent = "plan"],
      [taskType |-> "planning_or_architecture", risk |-> "medium", approval |-> FALSE]>>,
    <<[NoRequest EXCEPT !.text = {"destructive"}, !.intent = "execute"],
      [taskType |-> "deploy_or_destructive_action", risk |-> "critical", useBoss |-> TRUE]>>,
    <<[NoRequest EXCEPT !.text = {"architecture"}],
      [taskType |-> "planning_or_architecture", memory |-> TRUE]>>,
    <<[NoRequest EXCEPT !.text = {"eval"}],
      [taskType |-> "eval_or_benchmark", useVerifier |-> TRUE]>>,
    <<[NoRequest EXCEPT !.text = {"code"}, !.files = TRUE, !.intent = "explain"],
      [taskType |-> "repo_question", risk |-> "low", tools |-> TRUE]>>,
    <<[NoRequest EXCEPT !.taskHint = "security_or_secret"],
      [taskType |-> "security_or_secret", risk |-> "high"]>>,
    <<[NoRequest EXCEPT !.text = {"architecture"}, !.riskHint = "critical"],
      [risk |-> "critical", useBoss |-> TRUE]>>,
    <<[NoRequest EXCEPT !.confidence = 20],
      [useVerifier |-> TRUE, useBoss |-> TRUE, mode |-> "escalated_deep_path"]>>,
    <<[NoRequest EXCEPT !.verify = TRUE],
      [useVerifier |-> TRUE]>>,
    <<[NoRequest EXCEPT !.fresh = TRUE],
      [tools |-> TRUE]>>,
    <<[NoRequest EXCEPT !.text = {"tool"}, !.intent = "analyze"],
      [taskType |-> "repo_question", tools |-> TRUE]>>,
    <<[NoRequest EXCEPT !.text = {"code"}, !.files = TRUE, !.untrusted = TRUE],
      [risk |-> "high", useVerifier |-> TRUE]>>,
    <<[NoRequest EXCEPT !.text = {"summary"}, !.tokens = 500],
      [taskType |-> "summarization", useWorker |-> FALSE]>>,
    <<[NoRequest EXCEPT !.text = {"code", "tool", "mutation"}, !.intent = "mutate"],
      [taskType |-> "coding_change", tools |-> TRUE, useWorker |-> TRUE]>>,
    <<[NoRequest EXCEPT !.text = {"debug", "code", "mutation"}, !.intent = "mutate"],
      [taskType |-> "debugging", tools |-> TRUE, useWorker |-> TRUE]>>,
    <<[NoRequest EXCEPT !.text = {"code", "mutation"}, !.intent = "mutate"],
      [taskType |-> "coding_change", tools |-> TRUE]>>,
    <<[NoRequest EXCEPT !.text = {"mutation"}, !.intent = "mutate"],
      [taskType |-> "simple_chat", tools |-> FALSE]>>,
    <<[NoRequest EXCEPT !.text = {"deploy_production", "mutation", "deploy"}, !.intent = "analyze"],
      [taskType |-> "simple_chat", approval |-> FALSE]>>}

RunRuntimeEval ==
    \A case \in BaseRuntimeEvalCases :
        \A key \in DOMAIN case[2] : ChoosePipeline(case[1])[key] = case[2][key]

ASSUME RunRuntimeEval

=============================================================================
