----------------------------- MODULE MCGatewayTurn -----------------------------
(* The turns of both orchestration modes, with the decisions Routing makes for *)
(* their requests, and what a Host reports: talk, code changes with every kind *)
(* of evidence, and a failure.                                                 *)
EXTENDS GatewayTurn

None == {}
R(h, d) == INSTANCE Routing WITH
    Requests <- None, Passports <- None, LowTierModes <- None, Approved <- None, MinSamples <- 30,
    hostLed <- h, decision <- d, stage <- "idle", request <- None, continued <- FALSE,
    latency <- None, verified <- FALSE, asked <- FALSE, interrupted <- FALSE

Request == [R(TRUE, None)!NoRequest EXCEPT !.root = TRUE]

\* What the postflight reads of a decision.
Roles(d) == [taskType |-> d.taskType, risk |-> d.risk, tools |-> d.tools,
             useVerifier |-> d.useVerifier, useBoss |-> d.useBoss, approval |-> d.approval]

\* The turn of request q in the Host-led mode, or in the other one.
TurnOf(h, q, d) ==
    [decision |-> Roles(d), verify |-> q.verify, boss |-> q.boss, code |-> q.code,
     changed |-> [u \in BOOLEAN |->
        LET r == R(h, d)!Changed(q, u)
        IN  [decision |-> Roles(R(h, d)!PostflightDecision(r, FALSE)), verify |-> r.verify]],
     workspace |-> TRUE, before |-> "w0", coding |-> FALSE, approved |-> FALSE,
     irreversible |-> FALSE, reuse |-> FALSE, executes |-> FALSE]

Led(q) == TurnOf(TRUE, q, R(TRUE, None)!ApplyHostLedPolicy(R(TRUE, None)!ChoosePipeline(q), q, FALSE))
Legacy(q) == TurnOf(FALSE, q, R(TRUE, None)!HostPlanningFallback(R(TRUE, None)!ChoosePipeline(q), q))

\* A continuation of coding work.
Resumes(q) ==
    LET d == R(TRUE, None)!ActiveCodingContinuationDecision(R(TRUE, None)!ChoosePipeline(q), q)
    IN  [TurnOf(TRUE, q, R(TRUE, None)!ApplyHostLedPolicy(d, q, FALSE)) EXCEPT !.coding = TRUE, !.reuse = TRUE]

Code == [Request EXCEPT !.text = {"code", "mutation"}, !.code = TRUE, !.files = TRUE, !.intent = "mutate"]
Destructive == [Request EXCEPT !.text = {"destructive"}, !.intent = "execute"]

Chat == Led(Request)
Resumed == Resumes([Code EXCEPT !.confidence = 95])
AutoCoding == [Led(Code) EXCEPT !.coding = TRUE, !.approved = TRUE, !.executes = TRUE]
VerifiedCoding == [Led([Code EXCEPT !.verify = TRUE]) EXCEPT !.coding = TRUE]
Question == Legacy([Request EXCEPT !.text = {"code"}, !.files = TRUE, !.confidence = 60])
Summary == Led([Request EXCEPT !.text = {"summary"}, !.boss = TRUE])

MCSessions == {
    {AutoCoding, Resumed, Chat},
    {VerifiedCoding, Resumes([Code EXCEPT !.verify = TRUE]), Chat},
    {[Led(Destructive) EXCEPT !.irreversible = TRUE], [Chat EXCEPT !.workspace = FALSE, !.before = "none"],
     [Legacy([Destructive EXCEPT !.verify = TRUE]) EXCEPT !.approved = TRUE]},
    {Question, [Summary EXCEPT !.before = "none"]}}

Talk == [NoReport EXCEPT !.draft = {"words"}]
Passed(kind, files, says) == [kind |-> kind, status |-> "passed", files |-> files, says |-> says]
Source == {"code", "absolute", "inside"}
Edit == Passed("tool", {Source}, {"mutating"})
Test == Passed("validation", {}, {"validates"})

MCReports == {
    NoReport,
    Talk,
    [Talk EXCEPT !.draft = {"words", "asks"}],
    [Talk EXCEPT !.draft = {"words", "stops"}, !.receipts = {Test}, !.workspace = "w0"],
    [Talk EXCEPT !.failed = TRUE],
    [Talk EXCEPT !.receipts = {Edit, Test}, !.workspace = "w1", !.overBudget = TRUE],
    [Talk EXCEPT !.receipts = {Edit}, !.workspace = "w1", !.overBudget = TRUE],
    [Talk EXCEPT !.receipts = {Edit}, !.draft = {"words", "asks"}, !.workspace = "w1"],
    [Talk EXCEPT !.receipts = {Edit, [Test EXCEPT !.status = "failed"]}, !.workspace = "w1"],
    [Talk EXCEPT !.receipts = {Edit, [Test EXCEPT !.status = "unknown"]}],
    [Talk EXCEPT !.receipts = {Passed("workspace", {}, {"moved"})}, !.workspace = "w0"],
    [Talk EXCEPT !.receipts = {[Passed("artifact", {{"scratch", "code", "absolute"}}, {}) EXCEPT !.status = "failed"]}],
    [Talk EXCEPT !.summary = {"check", "success", "artifact", "edited"}, !.workspace = "w1"],
    [Talk EXCEPT !.summary = {"check", "error", "broken", "mutating", "exhausted"}, !.workspace = "w1"]}

=============================================================================
