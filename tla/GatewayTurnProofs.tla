-------------------------- MODULE GatewayTurnProofs --------------------------
(***************************************************************************)
(* Theorems about GatewayTurn, for any turns a session may have, any       *)
(* reports of their Hosts and any budgets of cycles: the rows a postflight *)
(* leaves agree, a task is completed on evidence for all of it, and the    *)
(* reviewers are heard and obeyed.                                         *)
(*                                                                         *)
(* A turn is settled by what its earlier stages left: the inductive        *)
(* invariant says, stage by stage, what the rows of an open turn are, what *)
(* the weighed evidence says of the checks, and what the reviewers that    *)
(* were passed have answered.                                              *)
(***************************************************************************)
EXTENDS GatewayTurn, TLAPS

Reviewed == {"revise", "boss", "bossRevise", "final", "settle"}
Ruled == {"bossRevise", "final", "settle"}
Weighed == {"verify"} \cup Reviewed
InTurn == {"opened", "code", "advice", "host", "weigh"} \cup Weighed

\* The task is a row of four columns.
TaskForm ==
    task = [status |-> task.status, cycle |-> task.cycle, max |-> task.max, checks |-> task.checks]

\* The rows of a turn that is not settled.
OpenRows ==
    /\ continuation => stage = "ended"
    /\ stage \in InTurn =>
        /\ run = "running" /\ session = "working" /\ budget # "closed"
        /\ task.status \in {"active", "waiting_for_user"}
        /\ Blocking(turn) \/ task.status = "active"

\* What the evidence of the report says of the validation of the task.
EvidenceWeighed ==
    stage \in Weighed =>
        /\ unvalidated => UnresolvedCodingMutation \/ Validation # "passed"
        /\ \A c \in DOMAIN task.checks :
              c[2] = "validation" /\ task.checks[c] = "passed" => Validation = "passed"

\* What the Verifier said, once it had its turn, and the Boss.
VerifierHeard ==
    stage \in Reviewed =>
        /\ Decision.useVerifier /\ VerifierMandatory => verdict # "none"
        /\ verdict = "block" /\ ruling = "none" => answer = "blocked"

BossHeard ==
    stage \in Ruled =>
        /\ Decision.approval => ruling # "none"
        /\ ruling = "block" => answer = "blocked"
        /\ verdict = "escalate" => ruling # "none" \/ answer # "draft"

\* No verdict and no ruling is that of an earlier turn.
Unheard ==
    /\ stage \in InTurn \ Reviewed => verdict = "none"
    /\ stage \in InTurn \ Ruled => ruling = "none"

Reviews == VerifierHeard /\ BossHeard /\ Unheard

Inv ==
    /\ RowsAgree /\ TaskForm /\ OpenRows
    /\ EvidenceWeighed /\ CompletedOnEvidence
    /\ Reviews /\ BlockedNotDelivered

-----------------------------------------------------------------------------
(* The evidence stays what it was *)

LEMMA SameMutation ==
    ASSUME UNCHANGED <<turn, outcome, report>>
    PROVE  Mutated' = Mutated /\ Broken' = Broken /\ TextMutation' = TextMutation
  <1>1. PreflightCodingIntent' = PreflightCodingIntent  BY DEF PreflightCodingIntent
  <1>2. ASSUME NEW file PROVE IsRepositoryCodeArtifact(file)' = IsRepositoryCodeArtifact(file)
    BY DEF IsRepositoryCodeArtifact
  <1>3. TextMutation' = TextMutation  BY <1>1, <1>2 DEF TextMutation
  <1>4. WorkspaceMutationObserved' = WorkspaceMutationObserved  BY DEF WorkspaceMutationObserved
  <1>5. Mutated' = Mutated  BY <1>3, <1>4 DEF Mutated
  <1>6. Broken' = Broken  BY <1>1, <1>3 DEF Broken
  <1> QED  BY <1>3, <1>5, <1>6

LEMMA SameEvidence ==
    ASSUME UNCHANGED <<turn, outcome, report>>
    PROVE  /\ Validation' = Validation /\ UnresolvedCodingMutation' = UnresolvedCodingMutation
           /\ Decision' = Decision /\ VerifierMandatory' = VerifierMandatory
  <1>1. Mutated' = Mutated /\ Broken' = Broken  BY SameMutation
  <1>2. Validation' = Validation  BY DEF Validation, AutonomousDone
  <1>3. MissingWorkspaceEvidence' = MissingWorkspaceEvidence
    BY <1>1 DEF MissingWorkspaceEvidence
  <1>4. UnresolvedCodingMutation' = UnresolvedCodingMutation
    BY <1>1, <1>2, <1>3 DEF UnresolvedCodingMutation
  <1>5. Revised' = Revised  BY <1>4 DEF Revised
  <1>6. Decision' = Decision /\ Asked' = Asked  BY <1>1, <1>5 DEF Decision, Asked
  <1>7. VerifierMandatory' = VerifierMandatory  BY <1>4, <1>6 DEF VerifierMandatory
  <1> QED  BY <1>2, <1>4, <1>6, <1>7

LEMMA ValidationIs == Validation \in {"failed", "passed", "unknown"}
  BY DEF Validation, DeterministicValidationState

LEMMA CheckStatusIs ==
    ASSUME NEW kind, NEW old \in {"pending", "passed", "failed"}
    PROVE  CheckStatus(kind, old) \in {"pending", "passed", "failed"}
  BY ValidationIs DEF CheckStatus

LEMMA ValidationCheck ==
    ASSUME NEW old, ~report.failed, CheckStatus("validation", old) = "passed"
    PROVE  Validation = "passed"
  BY DEF CheckStatus

-----------------------------------------------------------------------------
(* Steps that settle nothing *)

\* What is said of a settled turn says nothing of another.
LEMMA Unsettled ==
    ASSUME TypeOK', stage' # "ended"
    PROVE  RowsAgree' /\ CompletedOnEvidence' /\ BlockedNotDelivered'
  BY DEF RowsAgree, CompletedOnEvidence, AcceptedWhenDone, MutationsValidated, BlockedNotDelivered

LEMMA Typed == ASSUME Inv PROVE TypeOK  BY DEF Inv, RowsAgree

\* A step before the evidence is weighed, or one that drops the turn.
LEMMA EarlyStep ==
    ASSUME Inv, stage \in InTurn, stage' \in {"code", "advice", "host", "weigh", "dropped"},
           stage \in Weighed => stage' = "dropped",
           advice' \in BossVerdicts \cup {"none"},
           UNCHANGED <<turn, verdict, ruling, answer, task, run, session, budget, continuation,
                       passport, unvalidated>>
    PROVE  Inv'
  <1>1. TypeOK'  BY Typed DEF TypeOK, After, Rest
  <1>2. stage' # "ended" /\ stage # "ended" /\ stage' \notin Weighed
    BY DEF InTurn, Weighed, Reviewed
  <1>3. TaskForm'  BY DEF Inv, TaskForm
  <1>4. OpenRows'  BY <1>2 DEF Inv, OpenRows, Blocking, InTurn, Weighed, Reviewed
  <1>5. EvidenceWeighed'  BY <1>2 DEF EvidenceWeighed
  <1>6. Reviews'
    BY <1>2 DEF Inv, Reviews, VerifierHeard, BossHeard, Unheard, Weighed, Reviewed, Ruled, InTurn
  <1> QED  BY <1>1, <1>2, <1>3, <1>4, <1>5, <1>6, Unsettled DEF Inv

\* A step of the reviews.
LEMMA ReviewStep ==
    ASSUME Inv, stage \in Weighed, stage' \in Reviewed,
           verdict' \in VerifierVerdicts \cup {"none"}, ruling' \in BossVerdicts \cup {"none"},
           answer' \in {"draft", "revised", "question", "blocked"},
           UNCHANGED <<turn, outcome, advice, report, task, unvalidated, run, session, budget,
                       continuation, passport>>,
           VerifierHeard', BossHeard', Unheard'
    PROVE  Inv'
  <1>1. TypeOK'  BY Typed DEF TypeOK, After, Rest, Reviewed
  <1>2. stage' # "ended" /\ stage # "ended" /\ stage \in InTurn /\ stage' \in InTurn
    BY DEF InTurn, Weighed, Reviewed
  <1>3. TaskForm'  BY DEF Inv, TaskForm
  <1>4. OpenRows'  BY <1>2 DEF Inv, OpenRows, Blocking
  <1>5. EvidenceWeighed'
    <2>1. Validation' = Validation /\ UnresolvedCodingMutation' = UnresolvedCodingMutation
      BY SameEvidence
    <2>2. \A c \in DOMAIN task.checks :
             c[2] = "validation" /\ task.checks[c] = "passed" => Validation = "passed"
      BY DEF Inv, EvidenceWeighed
    <2>3. unvalidated => UnresolvedCodingMutation \/ Validation # "passed"
      BY DEF Inv, EvidenceWeighed
    <2> QED  BY <2>1, <2>2, <2>3 DEF EvidenceWeighed
  <1>6. Reviews'  BY DEF Reviews
  <1> QED  BY <1>1, <1>2, <1>3, <1>4, <1>5, <1>6, Unsettled DEF Inv

-----------------------------------------------------------------------------
(* The preflight *)

LEMMA Afterwards ==
    /\ After["opened"] = "code" /\ After["code"] = "advice" /\ After["advice"] = "host"
    /\ After["verify"] = "revise" /\ After["revise"] = "boss" /\ After["boss"] = "bossRevise"
    /\ After["bossRevise"] = "final" /\ After["final"] = "settle"
    /\ DOMAIN After = {"opened", "code", "advice", "verify", "revise", "boss", "bossRevise", "final"}
  BY DEF After

LEMMA AuthorizeHostStep == ASSUME Inv, AuthorizeHost PROVE Inv'
  <1>1. stage = "opened" /\ stage' = "code"  BY Afterwards DEF AuthorizeHost
  <1>2. advice' \in BossVerdicts \cup {"none"}  BY Typed DEF AuthorizeHost, TypeOK
  <1> QED  BY <1>1, <1>2, EarlyStep DEF AuthorizeHost, Unmoved, InTurn, Weighed, Reviewed

LEMMA DenyHostStep == ASSUME Inv, DenyHost PROVE Inv'
  <1>1. stage = "opened" /\ stage' = "dropped"  BY DEF DenyHost
  <1>2. advice' \in BossVerdicts \cup {"none"}  BY Typed DEF DenyHost, TypeOK
  <1> QED  BY <1>1, <1>2, EarlyStep DEF DenyHost, Unmoved, InTurn, Weighed, Reviewed

LEMMA RunAutonomousCodingLoopStep == ASSUME Inv, RunAutonomousCodingLoop PROVE Inv'
  <1>1. stage = "code" /\ stage' = "advice"  BY Afterwards DEF RunAutonomousCodingLoop, Reach
  <1>2. advice' \in BossVerdicts \cup {"none"}  BY Typed DEF RunAutonomousCodingLoop, TypeOK
  <1> QED  BY <1>1, <1>2, EarlyStep DEF RunAutonomousCodingLoop, Unmoved, InTurn, Weighed, Reviewed

LEMMA BossPreflightStep == ASSUME Inv, BossPreflight PROVE Inv'
  <1>1. stage = "advice" /\ stage' = "host"  BY Afterwards DEF BossPreflight, Reach
  <1>2. advice' \in BossVerdicts \cup {"none"}  BY DEF BossPreflight, BossAnswers
  <1> QED  BY <1>1, <1>2, EarlyStep DEF BossPreflight, Unmoved, InTurn, Weighed, Reviewed

LEMMA AbandonTurnStep == ASSUME Inv, AbandonTurn PROVE Inv'
  <1>1. stage = "host" /\ stage' = "dropped"  BY DEF AbandonTurn
  <1>2. advice' \in BossVerdicts \cup {"none"}  BY Typed DEF AbandonTurn, TypeOK
  <1> QED  BY <1>1, <1>2, EarlyStep DEF AbandonTurn, Unmoved, InTurn, Weighed, Reviewed

LEMMA ReceiveReportStep == ASSUME Inv, NEW r \in Reports, ReceiveReport(r) PROVE Inv'
  <1>1. stage = "host" /\ stage' = "weigh"  BY DEF ReceiveReport
  <1>2. advice' \in BossVerdicts \cup {"none"}  BY Typed DEF ReceiveReport, Verdicts, TypeOK
  <1> QED  BY <1>1, <1>2, EarlyStep DEF ReceiveReport, Verdicts, Rows, InTurn, Weighed, Reviewed

LEMMA OpenStep == ASSUME Inv, NEW t, Open(t) PROVE Inv'
  <1>1. /\ stage' = "opened" /\ turn' = t
        /\ advice' = "none" /\ verdict' = "none" /\ ruling' = "none" /\ answer' = "draft"
        /\ session' = "working" /\ run' = "running"
        /\ task' = PrepareCognitiveTask(t)
        /\ budget' \in {"used", "fresh"}
        /\ continuation' = FALSE /\ passport' = "none"
        /\ unvalidated' = (unvalidated /\ Reuses(t))
    BY DEF Open, EnsureGatewaySession
  <1> DEFINE status == IF Reuses(t) /\ task.status = "active" THEN "active" ELSE StatusFor(t)
             cycle == IF Reuses(t) THEN task.cycle ELSE 0
             limit == IF Reuses(t) /\ task.max > CyclesFor(t) THEN task.max ELSE CyclesFor(t)
             old == IF Reuses(t) THEN task.checks ELSE NoChecks
             checks == Merged(old, AcceptanceCriteriaFor(t))
  <1>2. task' = [status |-> status, cycle |-> cycle, max |-> limit, checks |-> checks]
    BY <1>1 DEF PrepareCognitiveTask
  <1>3. status \in {"active", "waiting_for_user"} /\ (Blocking(t) \/ status = "active")
    BY DEF StatusFor
  <1>4. limit \in 0..ToolCycles /\ cycle \in 0..limit
    <2>1. CyclesFor(t) \in 0..ToolCycles  BY CyclesAssumption DEF CyclesFor
    <2>2. task.cycle \in 0..task.max /\ task.max \in 0..ToolCycles  BY Typed DEF TypeOK
    <2> QED  BY <2>1, <2>2, CyclesAssumption
  <1>5. \A c \in DOMAIN checks : checks[c] \in {"pending", "passed", "failed"}
    <2>1. \A c \in DOMAIN old : old[c] \in {"pending", "passed", "failed"}
      BY Typed DEF TypeOK, NoChecks
    <2> HIDE DEF old
    <2> QED  BY <2>1 DEF Merged
  <1> HIDE DEF status, cycle, limit, checks
  <1>6. TypeOK'
    <2>1. unvalidated' \in BOOLEAN
      <3>1. (unvalidated /\ Reuses(t)) \in BOOLEAN  BY DEF Reuses
      <3> QED  BY <1>1, <3>1
    <2>2. /\ task'.status = status /\ task'.cycle = cycle /\ task'.max = limit
          /\ task'.checks = checks
      BY <1>2
    <2>3. stage' \in Rest \cup DOMAIN After \cup {"host", "weigh", "settle"}
      BY <1>1, Afterwards
    <2> QED  BY <1>1, <1>3, <1>4, <1>5, <2>1, <2>2, <2>3 DEF TypeOK
  <1>7. TaskForm'  BY <1>2 DEF TaskForm
  <1>8. OpenRows'  BY <1>1, <1>2, <1>3 DEF OpenRows, Blocking
  <1>9. stage' \notin Weighed /\ stage' # "ended"  BY <1>1 DEF Weighed, Reviewed
  <1>10. EvidenceWeighed'  BY <1>9 DEF EvidenceWeighed
  <1>11. Reviews'
    BY <1>1, <1>9 DEF Reviews, VerifierHeard, BossHeard, Unheard, Weighed, Reviewed, Ruled
  <1> QED  BY <1>6, <1>7, <1>8, <1>9, <1>10, <1>11, Unsettled DEF Inv

-----------------------------------------------------------------------------
(* The postflight *)

\* A verdict of the Verifier's, and a ruling of the Boss's.
LEMMA AnswersType ==
    /\ \A mandatory : VerifierAnswers(mandatory) \subseteq VerifierVerdicts \cup {"none"}
    /\ \A mandatory : BossAnswers(mandatory) \subseteq BossVerdicts \cup {"none"}
    /\ \A mandatory : mandatory => "none" \notin VerifierAnswers(mandatory)
    /\ \A mandatory : mandatory => "none" \notin BossAnswers(mandatory)
  BY DEF VerifierAnswers, BossAnswers, VerifierVerdicts, BossVerdicts

\* What the Verifier has to be called for.
LEMMA MandatoryIsCalled ==
    Decision.useVerifier /\ VerifierMandatory => VerifierCalled
  BY DEF VerifierCalled, ValidationReplacesVerifier

\* What the invariant says of the reviews, in the state after.
LEMMA HeardAfter ==
    ASSUME UNCHANGED <<turn, outcome, report>>,
           stage' \in Reviewed =>
               /\ Decision.useVerifier /\ VerifierMandatory => verdict' # "none"
               /\ verdict' = "block" /\ ruling' = "none" => answer' = "blocked",
           stage' \in Ruled =>
               /\ Decision.approval => ruling' # "none"
               /\ ruling' = "block" => answer' = "blocked"
               /\ verdict' = "escalate" => ruling' # "none" \/ answer' # "draft"
    PROVE  VerifierHeard' /\ BossHeard'
  <1>1. Decision' = Decision /\ VerifierMandatory' = VerifierMandatory  BY SameEvidence
  <1>2. VerifierHeard'
    <2>1. Decision'.useVerifier = Decision.useVerifier  BY <1>1
    <2> QED  BY <1>1, <2>1 DEF VerifierHeard
  <1>3. BossHeard'
    <2>1. Decision'.approval = Decision.approval  BY <1>1
    <2> QED  BY <2>1 DEF BossHeard
  <1> QED  BY <1>2, <1>3

LEMMA WeighEvidenceStep == ASSUME Inv, WeighEvidence PROVE Inv'
  <1> DEFINE checks == AcceptanceChecksFromEvidence(task.checks)
  <1>1. /\ stage = "weigh" /\ ~report.failed /\ stage' = "verify"
        /\ task' = [task EXCEPT !.checks = checks]
        /\ unvalidated' = (UnresolvedCodingMutation \/ (unvalidated /\ Validation # "passed"))
        /\ UNCHANGED <<turn, outcome, report, answer, advice, verdict, ruling,
                       run, session, budget, continuation, passport>>
    BY DEF WeighEvidence, Verdicts, Rows
  <1>2. /\ DOMAIN checks = DOMAIN task.checks
        /\ \A c \in DOMAIN checks : checks[c] = CheckStatus(c[2], task.checks[c])
    BY DEF AcceptanceChecksFromEvidence
  <1>3. \A c \in DOMAIN checks : checks[c] \in {"pending", "passed", "failed"}
    BY <1>2, CheckStatusIs, Typed DEF TypeOK
  <1>4. \A c \in DOMAIN checks : c[2] = "validation" /\ checks[c] = "passed" => Validation = "passed"
    BY <1>1, <1>2, ValidationCheck
  <1> HIDE DEF checks
  <1>5. task' = [status |-> task.status, cycle |-> task.cycle, max |-> task.max, checks |-> checks]
    BY <1>1 DEF Inv, TaskForm
  <1>6. TypeOK'
    <2>1. unvalidated' \in BOOLEAN
      <3>1. (UnresolvedCodingMutation \/ (unvalidated /\ Validation # "passed")) \in BOOLEAN
        BY DEF UnresolvedCodingMutation
      <3> QED  BY <1>1, <3>1
    <2>2. /\ task'.status = task.status /\ task'.cycle = task.cycle /\ task'.max = task.max
          /\ task'.checks = checks
      BY <1>5
    <2>3. stage' \in Rest \cup DOMAIN After \cup {"host", "weigh", "settle"}
      BY <1>1, Afterwards
    <2> QED  BY <1>1, <1>3, <2>1, <2>2, <2>3, Typed DEF TypeOK
  <1>7. stage \in InTurn /\ stage' \in Weighed /\ stage' # "ended"
        /\ stage \notin Ruled /\ stage \notin Reviewed
    BY <1>1 DEF InTurn, Weighed, Reviewed, Ruled
  <1>8. TaskForm'  BY <1>5 DEF TaskForm
  <1>9. OpenRows'
    <2>1. task'.status = task.status  BY <1>5
    <2> QED  BY <1>1, <1>7, <2>1 DEF Inv, OpenRows, Blocking
  <1>10. EvidenceWeighed'
    <2>1. Validation' = Validation /\ UnresolvedCodingMutation' = UnresolvedCodingMutation
      BY <1>1, SameEvidence
    <2>2. unvalidated' => UnresolvedCodingMutation \/ Validation # "passed"  BY <1>1
    <2>3. task'.checks = checks  BY <1>5
    <2> QED  BY <1>4, <2>1, <2>2, <2>3 DEF EvidenceWeighed
  <1>11. Reviews'
    BY <1>1, <1>7 DEF Inv, Reviews, VerifierHeard, BossHeard, Unheard, Reviewed, Ruled
  <1> QED  BY <1>6, <1>7, <1>8, <1>9, <1>10, <1>11, Unsettled DEF Inv

\* What the reviews leave as it is.
Reviewing == <<turn, outcome, advice, report, task, unvalidated, run, session, budget,
               continuation, passport>>

LEMMA SkipReview == ASSUME Inv, Skip, stage \in Weighed PROVE Inv'
  <1>1. /\ stage \in DOMAIN After /\ ~Needed(stage) /\ stage' = After[stage]
        /\ UNCHANGED Reviewing /\ UNCHANGED <<verdict, ruling, answer>>
    BY DEF Skip, Unmoved, Reviewing
  <1>2. stage \in {"verify", "revise", "boss", "bossRevise", "final"}
    BY <1>1, Afterwards DEF Weighed, Reviewed
  <1>3. stage' \in Reviewed  BY <1>1, <1>2, Afterwards DEF Reviewed
  <1>4. stage = "verify" => ~VerifierCalled  BY <1>1 DEF Needed
  <1>5. stage = "boss" => ~Decision.approval /\ verdict # "escalate"  BY <1>1 DEF Needed
  <1>6. stage = "verify" => verdict = "none" /\ ruling = "none"
    BY DEF Inv, Reviews, Unheard, InTurn, Weighed, Reviewed, Ruled
  <1>7. stage = "boss" => ruling = "none"
    BY DEF Inv, Reviews, Unheard, InTurn, Weighed, Reviewed, Ruled
  <1>8. /\ Decision.useVerifier /\ VerifierMandatory => verdict' # "none"
        /\ verdict' = "block" /\ ruling' = "none" => answer' = "blocked"
    <2>1. CASE stage = "verify"  BY <1>1, <1>4, <1>6, <2>1, MandatoryIsCalled
    <2>2. CASE stage \in Reviewed  BY <1>1, <2>2 DEF Inv, Reviews, VerifierHeard
    <2> QED  BY <1>2, <2>1, <2>2 DEF Reviewed
  <1>9. stage' \in Ruled =>
            /\ Decision.approval => ruling' # "none"
            /\ ruling' = "block" => answer' = "blocked"
            /\ verdict' = "escalate" => ruling' # "none" \/ answer' # "draft"
    <2>1. CASE stage \in {"verify", "revise"}
      BY <1>1, <2>1, Afterwards DEF Ruled
    <2>2. CASE stage = "boss"  BY <1>1, <1>5, <1>7, <2>2
    <2>3. CASE stage \in Ruled  BY <1>1, <2>3 DEF Inv, Reviews, BossHeard
    <2> QED  BY <1>2, <2>1, <2>2, <2>3 DEF Ruled
  <1>10. VerifierHeard' /\ BossHeard'  BY <1>1, <1>8, <1>9, HeardAfter DEF Reviewing
  <1>11. Unheard'
    <2>1. stage' \notin Ruled => stage \notin Ruled
      BY <1>1, <1>2, Afterwards DEF Ruled
    <2>2. stage \in InTurn  BY DEF InTurn
    <2> QED  BY <1>1, <1>3, <2>1, <2>2 DEF Inv, Reviews, Unheard
  <1> QED
    BY <1>1, <1>3, <1>10, <1>11, ReviewStep, Typed DEF Reviewing, TypeOK

LEMMA SkipStep == ASSUME Inv, Skip PROVE Inv'
  <1>1. stage \in DOMAIN After /\ ~Needed(stage) /\ stage' = After[stage]  BY DEF Skip
  <1>2. stage # "opened"  BY <1>1 DEF Needed
  <1>3. CASE stage \in {"code", "advice"}
    <2>1. stage' \in {"advice", "host"}  BY <1>1, <1>3, Afterwards
    <2>2. advice' \in BossVerdicts \cup {"none"}  BY Typed DEF Skip, TypeOK
    <2> QED  BY <1>3, <2>1, <2>2, EarlyStep DEF Skip, Unmoved, InTurn, Weighed, Reviewed
  <1>4. CASE stage \in Weighed  BY <1>4, SkipReview
  <1> QED  BY <1>1, <1>2, <1>3, <1>4, Afterwards DEF Weighed, Reviewed

LEMMA VerifyStep == ASSUME Inv, Verify PROVE Inv'
  <1>1. /\ stage = "verify" /\ stage' = "revise" /\ verdict' \in VerifierAnswers(VerifierMandatory)
        /\ answer' = IF verdict' = "block" THEN "blocked" ELSE answer
        /\ UNCHANGED ruling /\ UNCHANGED Reviewing
    BY Afterwards DEF Verify, Reach, Rows, Reviewing
  <1>2. stage \in Weighed /\ stage' \in Reviewed /\ stage' \notin Ruled /\ stage \notin Ruled
        /\ stage \in InTurn
    BY <1>1 DEF Weighed, Reviewed, Ruled, InTurn
  <1>3. verdict' \in VerifierVerdicts \cup {"none"} /\ (VerifierMandatory => verdict' # "none")
    BY <1>1, AnswersType
  <1>4. VerifierHeard' /\ BossHeard'  BY <1>1, <1>2, <1>3, HeardAfter DEF Reviewing
  <1>5. Unheard'  BY <1>1, <1>2 DEF Inv, Reviews, Unheard
  <1>6. answer' \in {"draft", "revised", "question", "blocked"}  BY <1>1, Typed DEF TypeOK
  <1>7. ruling' \in BossVerdicts \cup {"none"}  BY <1>1, Typed DEF TypeOK
  <1> QED  BY <1>1, <1>2, <1>3, <1>4, <1>5, <1>6, <1>7, ReviewStep DEF Reviewing

LEMMA ReviseDraftStep == ASSUME Inv, ReviseDraft PROVE Inv'
  <1>1. /\ \/ stage = "revise" /\ stage' = "boss" /\ verdict = "revise"
           \/ stage = "bossRevise" /\ stage' = "final" /\ ruling = "revise"
        /\ answer' \in {answer, "revised", "draft"}
        /\ UNCHANGED <<verdict, ruling>> /\ UNCHANGED Reviewing
    BY Afterwards DEF ReviseDraft, Reach, Needed, Rows, Verdicts, Reviewing
  <1>2. stage \in Weighed /\ stage' \in Reviewed /\ stage \in InTurn /\ stage \in Reviewed
    BY <1>1 DEF Weighed, Reviewed, InTurn
  <1>3. stage' \in Ruled => stage \in Ruled /\ ruling = "revise"  BY <1>1 DEF Ruled
  <1>4. /\ Decision.useVerifier /\ VerifierMandatory => verdict' # "none"
        /\ verdict' = "block" /\ ruling' = "none" => answer' = "blocked"
    BY <1>1, <1>2 DEF Inv, Reviews, VerifierHeard
  <1>5. stage' \in Ruled =>
            /\ Decision.approval => ruling' # "none"
            /\ ruling' = "block" => answer' = "blocked"
            /\ verdict' = "escalate" => ruling' # "none" \/ answer' # "draft"
    BY <1>1, <1>3
  <1>6. VerifierHeard' /\ BossHeard'  BY <1>1, <1>4, <1>5, HeardAfter DEF Reviewing
  <1>7. Unheard'
    <2>1. stage' \notin Ruled => stage \notin Ruled  BY <1>1 DEF Ruled
    <2> QED  BY <1>1, <1>2, <2>1 DEF Inv, Reviews, Unheard
  <1>8. answer' \in {"draft", "revised", "question", "blocked"}  BY <1>1, Typed DEF TypeOK
  <1>9. ruling' \in BossVerdicts \cup {"none"} /\ verdict' \in VerifierVerdicts \cup {"none"}
    BY <1>1, Typed DEF TypeOK
  <1> QED  BY <1>1, <1>2, <1>6, <1>7, <1>8, <1>9, ReviewStep DEF Reviewing

LEMMA BossPostflightStep == ASSUME Inv, BossPostflight PROVE Inv'
  <1> DEFINE mandatory == Decision.approval \/ verdict = "escalate"
  <1>1. /\ stage = "boss" /\ stage' = "bossRevise" /\ ruling' \in BossAnswers(mandatory)
        /\ ruling' = "block" => answer' = "blocked"
        /\ ruling' = "none" => answer' = answer
        /\ answer' \in {answer, "blocked", "question"}
        /\ UNCHANGED verdict /\ UNCHANGED Reviewing
    BY Afterwards DEF BossPostflight, Reach, Rows, Reviewing
  <1>2. ruling' \in BossVerdicts \cup {"none"} /\ (mandatory => ruling' # "none")
    BY <1>1, AnswersType
  <1>3. stage \in Weighed /\ stage \in Reviewed /\ stage' \in Reviewed /\ stage' \in Ruled
        /\ stage \in InTurn /\ stage \notin Ruled
    BY <1>1 DEF Weighed, Reviewed, Ruled, InTurn
  <1>4. ruling = "none"  BY <1>3 DEF Inv, Reviews, Unheard
  <1>5. /\ Decision.useVerifier /\ VerifierMandatory => verdict' # "none"
        /\ verdict' = "block" /\ ruling' = "none" => answer' = "blocked"
    BY <1>1, <1>3, <1>4 DEF Inv, Reviews, VerifierHeard
  <1>6. VerifierHeard' /\ BossHeard'  BY <1>1, <1>2, <1>5, HeardAfter DEF Reviewing
  <1>7. Unheard'  BY <1>3 DEF Unheard
  <1>8. answer' \in {"draft", "revised", "question", "blocked"}  BY <1>1, Typed DEF TypeOK
  <1>9. verdict' \in VerifierVerdicts \cup {"none"}  BY <1>1, Typed DEF TypeOK
  <1> QED  BY <1>1, <1>2, <1>3, <1>6, <1>7, <1>8, <1>9, ReviewStep DEF Reviewing

LEMMA VerifyRevisionStep == ASSUME Inv, VerifyRevision PROVE Inv'
  <1>1. PICK v \in VerifierAnswers(Decision.risk = "critical") :
           /\ verdict' = IF v = "none" THEN verdict ELSE v
           /\ answer' = IF v = "block" THEN "blocked" ELSE answer
    BY DEF VerifyRevision
  <1>2. /\ stage = "final" /\ stage' = "settle" /\ answer # "draft"
        /\ UNCHANGED ruling /\ UNCHANGED Reviewing
    BY Afterwards DEF VerifyRevision, Reach, Needed, Rows, Reviewing
  <1>3. v \in VerifierVerdicts \cup {"none"}  BY AnswersType
  <1>4. stage \in Weighed /\ stage \in Reviewed /\ stage' \in Reviewed /\ stage' \in Ruled
        /\ stage \in InTurn /\ stage \in Ruled
    BY <1>2 DEF Weighed, Reviewed, Ruled, InTurn
  <1>5. /\ Decision.useVerifier /\ VerifierMandatory => verdict' # "none"
        /\ verdict' = "block" /\ ruling' = "none" => answer' = "blocked"
    BY <1>1, <1>2, <1>4 DEF Inv, Reviews, VerifierHeard
  <1>6. /\ Decision.approval => ruling' # "none"
        /\ ruling' = "block" => answer' = "blocked"
        /\ answer' # "draft"
    BY <1>1, <1>2, <1>4 DEF Inv, Reviews, BossHeard
  <1>7. VerifierHeard' /\ BossHeard'  BY <1>2, <1>5, <1>6, HeardAfter DEF Reviewing
  <1>8. Unheard'  BY <1>4 DEF Unheard
  <1>9. answer' \in {"draft", "revised", "question", "blocked"}  BY <1>1, Typed DEF TypeOK
  <1>10. verdict' \in VerifierVerdicts \cup {"none"} /\ ruling' \in BossVerdicts \cup {"none"}
    BY <1>1, <1>2, <1>3, Typed DEF TypeOK
  <1> QED  BY <1>2, <1>4, <1>7, <1>8, <1>9, <1>10, ReviewStep DEF Reviewing

-----------------------------------------------------------------------------
(* How a turn is settled *)

LEMMA AcceptanceSatisfiedIs ==
    ASSUME AcceptanceCriteriaSatisfied
    PROVE  \A c \in DOMAIN task.checks : task.checks[c] = "passed"
  BY DEF AcceptanceCriteriaSatisfied

\* A settled turn says nothing more of its reviews and its evidence.
LEMMA Settled ==
    ASSUME TypeOK', TaskForm', RowsAgree', CompletedOnEvidence', BlockedNotDelivered',
           stage' = "ended"
    PROVE  Inv'
  <1>1. stage' \notin InTurn /\ stage' \notin Weighed /\ stage' \notin Reviewed /\ stage' \notin Ruled
    BY DEF InTurn, Weighed, Reviewed, Ruled
  <1>2. OpenRows' /\ EvidenceWeighed'  BY <1>1 DEF OpenRows, EvidenceWeighed
  <1>3. Reviews'  BY <1>1 DEF Reviews, VerifierHeard, BossHeard, Unheard
  <1> QED  BY <1>2, <1>3 DEF Inv

\* The task gets another status, or another cycle.
LEMMA TaskAfter ==
    ASSUME Inv, NEW status \in {"none", "active", "waiting_for_user", "completed", "failed"},
           NEW cycle \in 0..task.max,
           task' = [task EXCEPT !.cycle = cycle, !.status = status]
    PROVE  /\ TaskForm' /\ task'.status = status /\ task'.cycle = cycle /\ task'.max = task.max
           /\ task'.checks = task.checks
  <1>1. task' = [status |-> status, cycle |-> cycle, max |-> task.max, checks |-> task.checks]
    BY DEF Inv, TaskForm
  <1> QED  BY <1>1 DEF TaskForm

LEMMA FailTurnStep == ASSUME Inv, FailTurn PROVE Inv'
  <1> DEFINE checks == AcceptanceChecksFromEvidence(task.checks)
  <1>1. /\ stage = "weigh" /\ report.failed /\ stage' = "ended"
        /\ task' = [task EXCEPT !.status = "failed", !.checks = checks]
        /\ run' = "failed" /\ session' = "failed" /\ budget' = "closed" /\ passport' = "failed"
        /\ UNCHANGED <<turn, outcome, report, answer, continuation, unvalidated,
                       advice, verdict, ruling>>
    BY DEF FailTurn, Verdicts
  <1>2. \A c \in DOMAIN checks : checks[c] \in {"pending", "passed", "failed"}
    <2>1. \A c \in DOMAIN checks : checks[c] = CheckStatus(c[2], task.checks[c])
                                   /\ c \in DOMAIN task.checks
      BY DEF AcceptanceChecksFromEvidence
    <2> HIDE DEF checks
    <2> QED  BY <2>1, CheckStatusIs, Typed DEF TypeOK
  <1> HIDE DEF checks
  <1>3. task' = [status |-> "failed", cycle |-> task.cycle, max |-> task.max, checks |-> checks]
    BY <1>1 DEF Inv, TaskForm
  <1>4. TaskForm' /\ task'.status = "failed" /\ task'.cycle = task.cycle /\ task'.max = task.max
        /\ task'.checks = checks
    BY <1>3 DEF TaskForm
  <1>5. TypeOK'
    <2>1. stage' \in Rest  BY <1>1 DEF Rest
    <2> QED  BY <1>1, <1>2, <1>4, <2>1, Typed DEF TypeOK
  <1>6. ~continuation'  BY <1>1 DEF Inv, OpenRows
  <1>7. RowsAgree'  BY <1>1, <1>4, <1>5, <1>6 DEF RowsAgree
  <1>8. CompletedOnEvidence'
    BY <1>4 DEF CompletedOnEvidence, AcceptedWhenDone, MutationsValidated
  <1>9. BlockedNotDelivered'  BY <1>1 DEF BlockedNotDelivered
  <1> QED  BY <1>1, <1>4, <1>5, <1>7, <1>8, <1>9, Settled

\* What is known of a turn that is about to be settled.
LEMMA AtSettle ==
    ASSUME Inv, stage = "settle"
    PROVE  /\ ~continuation /\ session = "working" /\ budget # "closed"
           /\ Blocking(turn) \/ task.status = "active"
           /\ unvalidated => UnresolvedCodingMutation \/ Validation # "passed"
           /\ \A c \in DOMAIN task.checks :
                 c[2] = "validation" /\ task.checks[c] = "passed" => Validation = "passed"
           /\ verdict = "block" /\ ruling = "none" => answer = "blocked"
           /\ ruling = "block" => answer = "blocked"
           /\ task.status \in {"active", "waiting_for_user"}
  <1>1. stage \in InTurn /\ stage \in Weighed /\ stage \in Reviewed /\ stage \in Ruled
    BY DEF InTurn, Weighed, Reviewed, Ruled
  <1>2. OpenRows /\ EvidenceWeighed /\ VerifierHeard /\ BossHeard  BY DEF Inv, Reviews
  <1> QED  BY <1>1, <1>2 DEF OpenRows, EvidenceWeighed, VerifierHeard, BossHeard

LEMMA RefuseContinuationStep == ASSUME Inv, RefuseContinuation PROVE Inv'
  <1> DEFINE cycle == task.cycle + 1
  <1>1. /\ stage = "settle" /\ stage' = "dropped" /\ task.cycle < task.max
        /\ task' = [task EXCEPT !.cycle = cycle, !.status = "waiting_for_user"]
        /\ UNCHANGED <<turn, outcome, report, answer, advice, verdict, ruling, unvalidated,
                       run, session, budget, continuation, passport>>
    BY DEF RefuseContinuation, ContinuationEligible, PerTurn, Verdicts, Rows
  <1>2. cycle \in 0..task.max
    BY <1>1, CyclesAssumption, Typed DEF TypeOK
  <1> HIDE DEF cycle
  <1>3. /\ TaskForm' /\ task'.status = "waiting_for_user" /\ task'.cycle = cycle
        /\ task'.max = task.max /\ task'.checks = task.checks
    BY <1>1, <1>2, TaskAfter
  <1>4. stage' \in Rest /\ stage' # "ended" /\ stage' \notin InTurn /\ stage' \notin Weighed
        /\ stage' \notin Reviewed /\ stage' \notin Ruled
    BY <1>1 DEF Rest, InTurn, Weighed, Reviewed, Ruled
  <1>5. TypeOK'  BY <1>1, <1>2, <1>3, <1>4, Typed DEF TypeOK
  <1>6. ~continuation'  BY <1>1, AtSettle
  <1>7. OpenRows' /\ EvidenceWeighed'  BY <1>4, <1>6 DEF OpenRows, EvidenceWeighed
  <1>8. Reviews'  BY <1>4 DEF Reviews, VerifierHeard, BossHeard, Unheard
  <1> QED  BY <1>3, <1>4, <1>5, <1>7, <1>8, Unsettled DEF Inv

LEMMA ScheduleContinuationStep == ASSUME Inv, ScheduleContinuation PROVE Inv'
  <1> DEFINE cycle == task.cycle + 1
             status == IF Blocked THEN "failed" ELSE task.status
  <1>1. /\ stage = "settle" /\ stage' = "ended" /\ task.cycle < task.max /\ task.status = "active"
        /\ task' = [task EXCEPT !.cycle = cycle, !.status = status]
        /\ answer' = "draft" /\ continuation' = TRUE
        /\ run' = (IF Blocked THEN "blocked" ELSE "done") /\ session' = "working"
        /\ passport' = OutcomeVerdict(FALSE, "draft", TRUE)
        /\ UNCHANGED <<turn, outcome, report, advice, verdict, ruling, unvalidated, budget>>
    BY DEF ScheduleContinuation, ContinuationEligible, PerTurn, Verdicts, RunStatus
  <1>2. passport' = IF Blocked THEN "blocked" ELSE "revised"  BY <1>1 DEF OutcomeVerdict
  <1>3. cycle \in 0..task.max /\ cycle > 0
    BY <1>1, CyclesAssumption, Typed DEF TypeOK
  <1>4. status \in {"none", "active", "waiting_for_user", "completed", "failed"}
        /\ (Blocked => status = "failed") /\ (~Blocked => status = "active")
        /\ status # "completed"
    BY <1>1
  <1> HIDE DEF cycle, status
  <1>5. /\ TaskForm' /\ task'.status = status /\ task'.cycle = cycle
        /\ task'.max = task.max /\ task'.checks = task.checks
    BY <1>1, <1>3, <1>4, TaskAfter
  <1>6. TypeOK'
    <2>1. stage' \in Rest  BY <1>1 DEF Rest
    <2> QED  BY <1>1, <1>2, <1>3, <1>4, <1>5, <2>1, Typed DEF TypeOK
  <1>7. budget' # "closed"  BY <1>1, AtSettle
  <1>8. RowsAgree'
    <2>1. CASE Blocked  BY <1>1, <1>2, <1>4, <1>5, <1>6, <2>1 DEF RowsAgree
    <2>2. CASE ~Blocked  BY <1>1, <1>2, <1>3, <1>4, <1>5, <1>6, <1>7, <2>2 DEF RowsAgree
    <2> QED  BY <2>1, <2>2
  <1>9. CompletedOnEvidence'
    BY <1>4, <1>5 DEF CompletedOnEvidence, AcceptedWhenDone, MutationsValidated
  <1>10. BlockedNotDelivered'  BY <1>1 DEF BlockedNotDelivered
  <1> QED  BY <1>1, <1>5, <1>6, <1>8, <1>9, <1>10, Settled

LEMMA ConcludeStep == ASSUME Inv, Conclude PROVE Inv'
  <1> DEFINE status == TaskStatus(Unfinished)
             cycle == task.cycle
  <1>1. /\ stage = "settle" /\ stage' = "ended"
        /\ answer' = IF Unfinished THEN "blocked" ELSE answer
        /\ task' = [task EXCEPT !.status = status]
        /\ run' = RunStatus(Unfinished) /\ session' = SessionStatus(Unfinished)
        /\ passport' = OutcomeVerdict(Unfinished, answer', FALSE)
        /\ budget' = "closed"
        /\ UNCHANGED <<turn, outcome, report, advice, verdict, ruling, unvalidated, continuation>>
    BY DEF Conclude, PerTurn, Verdicts
  <1>2. /\ status \in {"waiting_for_user", "completed", "failed"}
        /\ status = "failed" <=> Unfinished \/ Blocked
        /\ status = "completed" <=> ~Unfinished /\ ~Blocked /\ ~GenuineUserBlocker
    BY DEF TaskStatus
  <1> HIDE DEF status
  <1>3. cycle \in 0..task.max /\ task' = [task EXCEPT !.cycle = cycle, !.status = status]
    <2>1. task = [status |-> task.status, cycle |-> task.cycle, max |-> task.max, checks |-> task.checks]
      BY DEF Inv, TaskForm
    <2>2. task.cycle \in 0..task.max  BY Typed DEF TypeOK
    <2> QED  BY <1>1, <2>1, <2>2
  <1> HIDE DEF cycle
  <1>4. /\ TaskForm' /\ task'.status = status /\ task'.cycle = cycle
        /\ task'.max = task.max /\ task'.checks = task.checks
    BY <1>2, <1>3, TaskAfter
  <1>5. ~continuation'  BY <1>1, AtSettle
  <1>6. /\ run' \in {"failed", "blocked", "done"}
        /\ run' = "failed" <=> Unfinished
        /\ run' = "blocked" <=> ~Unfinished /\ Blocked
    BY <1>1 DEF RunStatus
  <1>7. /\ session' \in {"failed", "paused", "done"}
        /\ session' = "failed" <=> Unfinished
        /\ session' = "paused" <=> ~Unfinished /\ GenuineUserBlocker
    BY <1>1 DEF SessionStatus
  <1>8. /\ passport' \in {"failed", "blocked", "revised", "success"}
        /\ passport' = "failed" <=> Unfinished
        /\ passport' = "blocked" <=> ~Unfinished /\ Blocked
        /\ passport' = "success" => answer' = "draft"
    BY <1>1 DEF OutcomeVerdict
  <1>9. TypeOK'
    <2>1. stage' \in Rest  BY <1>1 DEF Rest
    <2>2. answer' \in {"draft", "revised", "question", "blocked"}  BY <1>1, Typed DEF TypeOK
    <2> QED  BY <1>1, <1>2, <1>3, <1>4, <1>6, <1>7, <1>8, <2>1, <2>2, Typed DEF TypeOK
  <1>10. RowsAgree'
    BY <1>1, <1>2, <1>4, <1>5, <1>6, <1>7, <1>8, <1>9 DEF RowsAgree
  <1>11. ASSUME status = "completed", ~Blocking(turn)
         PROVE  /\ \A c \in DOMAIN task.checks : task.checks[c] = "passed"
                /\ (\E c \in DOMAIN task.checks : c[2] = "validation") => ~unvalidated
    <2>1. ~Unfinished /\ ~Blocked /\ ~GenuineUserBlocker /\ task.status = "active"
      BY <1>1, <1>2, <1>11, AtSettle
    <2>2. AcceptanceCriteriaSatisfied /\ ~UnresolvedCodingMutation
      BY <2>1 DEF Unfinished, AcceptancePending
    <2>3. \A c \in DOMAIN task.checks : task.checks[c] = "passed"
      BY <2>2, AcceptanceSatisfiedIs
    <2> QED  BY <1>1, <2>2, <2>3, AtSettle
  <1>12. CompletedOnEvidence'
    <2>1. Blocking(turn)' = Blocking(turn) /\ unvalidated' = unvalidated  BY <1>1 DEF Blocking
    <2> QED
      BY <1>4, <1>11, <2>1
      DEF CompletedOnEvidence, AcceptedWhenDone, MutationsValidated, AcceptanceCriteriaSatisfied
  <1>13. BlockedNotDelivered'
    <2>1. Unfinished => answer' = "blocked"  BY <1>1
    <2>2. ruling' = "block" => answer' = "blocked"  BY <1>1, AtSettle
    <2>3. verdict' = "block" /\ ruling' = "none" => answer' = "blocked"  BY <1>1, AtSettle
    <2> QED  BY <1>6, <2>1, <2>2, <2>3 DEF BlockedNotDelivered
  <1> QED  BY <1>1, <1>4, <1>9, <1>10, <1>12, <1>13, Settled

-----------------------------------------------------------------------------
(* The specification *)

LEMMA Initial == Init => Inv
  <1> SUFFICES ASSUME Init PROVE Inv  OBVIOUS
  <1>1. /\ stage = "idle" /\ task = NoTask /\ continuation = FALSE
        /\ advice = "none" /\ verdict = "none" /\ ruling = "none" /\ answer = "draft"
        /\ run = "none" /\ session = "none" /\ budget = "closed" /\ passport = "none"
        /\ unvalidated = FALSE
    BY DEF Init
  <1>2. /\ TaskForm /\ task.status = "none" /\ task.cycle = 0 /\ task.max = 0
        /\ DOMAIN task.checks = {}
    BY <1>1 DEF TaskForm, NoTask, NoChecks
  <1>3. TypeOK
    <2>1. task.cycle \in 0..task.max /\ task.max \in 0..ToolCycles  BY <1>2, CyclesAssumption
    <2>2. stage \in Rest  BY <1>1 DEF Rest
    <2> QED  BY <1>1, <1>2, <2>1, <2>2 DEF TypeOK
  <1>4. stage \notin InTurn /\ stage \notin Weighed /\ stage \notin Reviewed /\ stage \notin Ruled
    BY <1>1 DEF InTurn, Weighed, Reviewed, Ruled
  <1>5. OpenRows /\ EvidenceWeighed  BY <1>1, <1>4 DEF OpenRows, EvidenceWeighed
  <1>6. Reviews  BY <1>4 DEF Reviews, VerifierHeard, BossHeard, Unheard
  <1>7. RowsAgree /\ CompletedOnEvidence /\ BlockedNotDelivered
    BY <1>1, <1>3
    DEF RowsAgree, CompletedOnEvidence, AcceptedWhenDone, MutationsValidated, BlockedNotDelivered
  <1> QED  BY <1>2, <1>5, <1>6, <1>7 DEF Inv

LEMMA StutterStep == ASSUME Inv, UNCHANGED vars PROVE Inv'
  <1>1. UNCHANGED <<stage, turn, outcome, advice, report, verdict, ruling, answer, task, run,
                    session, budget, continuation, passport, unvalidated>>
    BY DEF vars
  <1>2. TypeOK' /\ RowsAgree'  BY <1>1 DEF Inv, RowsAgree, TypeOK
  <1>3. TaskForm' /\ OpenRows'  BY <1>1 DEF Inv, TaskForm, OpenRows, Blocking
  <1>4. /\ Validation' = Validation /\ UnresolvedCodingMutation' = UnresolvedCodingMutation
        /\ Decision' = Decision /\ VerifierMandatory' = VerifierMandatory
    BY <1>1, SameEvidence
  <1>5. EvidenceWeighed'  BY <1>1, <1>4 DEF Inv, EvidenceWeighed
  <1>6. VerifierHeard' /\ BossHeard'
    BY <1>1, HeardAfter DEF Inv, Reviews, VerifierHeard, BossHeard
  <1>7. Unheard'  BY <1>1 DEF Inv, Reviews, Unheard
  <1>8. CompletedOnEvidence' /\ BlockedNotDelivered'
    BY <1>1 DEF Inv, CompletedOnEvidence, AcceptedWhenDone, MutationsValidated,
       AcceptanceCriteriaSatisfied, Blocking, BlockedNotDelivered
  <1> QED  BY <1>2, <1>3, <1>5, <1>6, <1>7, <1>8 DEF Inv, Reviews

LEMMA InvStep == Inv /\ [Next]_vars => Inv'
  <1> SUFFICES ASSUME Inv, [Next]_vars PROVE Inv'  OBVIOUS
  <1>1. CASE Advance
    <2>1. CASE AuthorizeHost \/ DenyHost \/ Skip
      BY <2>1, AuthorizeHostStep, DenyHostStep, SkipStep
    <2>2. CASE RunAutonomousCodingLoop \/ BossPreflight \/ AbandonTurn
      BY <2>2, RunAutonomousCodingLoopStep, BossPreflightStep, AbandonTurnStep
    <2>3. CASE \E r \in Reports : ReceiveReport(r)  BY <2>3, ReceiveReportStep
    <2>4. CASE WeighEvidence \/ FailTurn  BY <2>4, WeighEvidenceStep, FailTurnStep
    <2>5. CASE Verify \/ ReviseDraft \/ BossPostflight \/ VerifyRevision
      BY <2>5, VerifyStep, ReviseDraftStep, BossPostflightStep, VerifyRevisionStep
    <2>6. CASE ScheduleContinuation \/ RefuseContinuation \/ Conclude
      BY <2>6, ScheduleContinuationStep, RefuseContinuationStep, ConcludeStep
    <2> QED  BY <1>1, <2>1, <2>2, <2>3, <2>4, <2>5, <2>6 DEF Advance
  <1>2. CASE NewTurn  BY <1>2, OpenStep DEF NewTurn
  <1>3. CASE Resume  BY <1>3, OpenStep DEF Resume
  <1>4. CASE UNCHANGED vars  BY <1>4, StutterStep
  <1> QED  BY <1>1, <1>2, <1>3, <1>4 DEF Next

LEMMA Invariance == Spec => []Inv
  BY Initial, InvStep, PTL DEF Spec

-----------------------------------------------------------------------------
(* Theorems *)

\* The rows of the run, the task, the session and the budget, and the Outcome
\* Passport, agree when a turn is over, for any turns, reports and budgets of cycles
\* (the end of gatewayPostflight).
THEOREM RowsAgreeHolds == Spec => []RowsAgree
  <1>1. Inv => RowsAgree  BY DEF Inv
  <1> QED  BY Invariance, <1>1, PTL

\* A task is completed only with every criterion passed, and never over a code change
\* that was not validated, however many turns ago it was made
\* (acceptanceChecksFromEvidence, acceptanceCriteriaSatisfied).
THEOREM CompletedOnEvidenceHolds == Spec => []CompletedOnEvidence
  <1>1. Inv => CompletedOnEvidence  BY DEF Inv
  <1> QED  BY Invariance, <1>1, PTL

\* A mandatory Verifier and a mandatory Boss have answered before a turn is settled,
\* and an answer that is blocked is not delivered without a continuation.
THEOREM ReviewsBindHolds == Spec => []ReviewsBind
  <1>1. Inv => ReviewsBind
    <2> SUFFICES ASSUME Inv PROVE ReviewsBind  OBVIOUS
    <2>1. MandatoryAnswered
      BY DEF Inv, Reviews, VerifierHeard, BossHeard, Reviewed, Ruled, MandatoryAnswered
    <2> QED  BY <2>1 DEF Inv, ReviewsBind
  <1> QED  BY Invariance, <1>1, PTL

=============================================================================
