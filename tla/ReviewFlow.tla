----------------------------- MODULE ReviewFlow -----------------------------
(***************************************************************************)
(* One review: ReviewOrchestrator.run and _review, from the rules in force *)
(* through the Reviewer's candidates, the evidence checks, the Verifier    *)
(* calls and the developers' feedback to the report.                       *)
(*                                                                         *)
(* A candidate is known by its position in the Reviewer's answer.  What    *)
(* the repository says of a piece of evidence is part of the evidence: the *)
(* checkout does not change during the review.                             *)
(*                                                                         *)
(* The steps are the awaits of _review and of the verifiers it gathers;    *)
(* what the code does between two awaits is one step.                      *)
(***************************************************************************)
EXTENDS Integers, FiniteSets, SequencesExt

CONSTANTS
    FileRules,      \* the rules file on the target branch: severity by rule id
    StoredRules,    \* the repository's active stored rules: severity by rule id
    Applicable,     \* ids of rules whose applies_to matches a changed path
    Outputs,        \* what the Reviewer may propose: sequences of candidates
    Claims,         \* what it may say of the rules: outcome by rule id
    VerifierEnabled,    \* the values of settings.verifier_enabled a run explores
    Concurrency,    \* settings.verifier_concurrency
    MaxReported,    \* MAX_REPORTED
    Users,          \* developers who give feedback
    Rated           \* fingerprints of the issues earlier reviews have shown them

Rules == DOMAIN FileRules \cup DOMAIN StoredRules
Severities == {"low", "medium", "high"}
Rank == [low |-> 1, medium |-> 2, high |-> 3]

\* Evidence cites a rule, or something else the checkout bears out ("verified"),
\* contradicts ("invented") or cannot decide ("unverified": a call path, a location
\* without a quote).
Evidence == [type : {"business_rule"}, ref : STRING]
            \cup [type : {"other"}, ref : {"verified", "unverified", "invented"}]

\* The span is the lines a candidate is about, in a file that "exists" or not; the
\* Reviewer may give its ends in the wrong order.
Candidate == [title : STRING, category : {"correctness", "security", "business_rule"},
              severity : Severities, confidence : Nat, file : STRING, exists : BOOLEAN,
              first : Nat, last : Nat, evidence : SUBSET Evidence]

ASSUME ReviewAssumption ==
    /\ FileRules \in [DOMAIN FileRules -> Severities]
    /\ StoredRules \in [DOMAIN StoredRules -> Severities]
    /\ Outputs \subseteq Seq(Candidate)
    /\ Claims \subseteq [Rules -> {"none", "violated", "satisfied", "not_applicable"}]
    /\ VerifierEnabled \subseteq BOOLEAN
    /\ Concurrency \in Nat \ {0} /\ MaxReported \in Nat

Index == UNION {DOMAIN output : output \in Outputs}
Fingerprint(c) == <<c.category, c.file, c.title>>
Proposed == UNION {{output[i] : i \in DOMAIN output} : output \in Outputs}

VARIABLES
    pc,             \* where _review is
    status,         \* AgentReview.status
    rules,          \* the RuleSet in force: severity by rule id
    candidates,     \* the Reviewer's candidates
    claims,         \* the Reviewer's rule checks
    severity,       \* severity of the finding made of each candidate
    evidence,       \* and its evidence
    dropped,        \* stage at which each candidate was dropped, "no" if it was not
    verifier,       \* the task of each finding
    answer,         \* how its Verifier run ended
    verified,       \* findings marked "verified"
    reported,       \* review.findings
    checks,         \* review.rule_checks
    risk,           \* review.risk_level
    paid,           \* agent runs that have cost something, the Reviewer's is 0
    accounted,      \* agent runs whose cost is in review.stats
    wrong,          \* agent_finding_feedback: who has marked which fingerprint wrong
    loaded          \* whether the review could load the feedback

proposal  == <<rules, candidates, claims>>
findings  == <<severity, evidence, dropped, verified>>
tasks     == <<verifier, answer>>
report    == <<reported, checks, risk, loaded>>
vars == <<pc, status, proposal, findings, tasks, report, paid, accounted, wrong>>

\* How a Verifier run ends: without a verdict because the provider is out or for any
\* other reason, or with one.  A drop is sound when all its counter-evidence is
\* there, a keep when no check of its own refutes the issue.
NoVerdict == [verdict : {"outage", "unanswered"}, sound : {TRUE}, severity : {"same"}]
Answers == NoVerdict
           \cup [verdict : {"drop"}, sound : BOOLEAN, severity : {"same"}]
           \cup [verdict : {"keep"}, sound : BOOLEAN, severity : Severities \cup {"same"}]
Pending == [verdict |-> "pending", sound |-> TRUE, severity |-> "same"]

Outcomes == {"violated", "satisfied", "not_applicable", "not_confirmed", "not_checked"}

TypeOK ==
    /\ pc \in {"start", "reviewer", "verify", "feedback", "done"}
    /\ status \in {"running", "completed", "failed", "skipped"}
    /\ DOMAIN rules \subseteq Rules /\ rules \in [DOMAIN rules -> Severities]
    /\ candidates \in Outputs \cup {<<>>}
    /\ claims \in [Rules -> {"none", "violated", "satisfied", "not_applicable"}]
    /\ severity \in [Index -> Severities]
    /\ evidence \in [Index -> SUBSET UNION {c.evidence : c \in Proposed}]
    /\ dropped \in [Index -> {"no", "evidence", "verifier", "feedback"}]
    /\ verifier \in [Index -> {"none", "waiting", "running", "ended", "raised"}]
    /\ answer \in [Index -> Answers \cup {Pending}]
    /\ verified \subseteq Index
    /\ reported \subseteq Index
    /\ DOMAIN checks \subseteq Rules /\ checks \in [DOMAIN checks -> Outcomes]
    /\ risk \in Severities \cup {"none"}
    /\ paid \subseteq Index \cup {0} /\ accounted \subseteq Index \cup {0}
    /\ wrong \subseteq Users \X Rated
    /\ loaded \in BOOLEAN

Init ==
    /\ pc = "start" /\ status = "running"
    /\ rules = <<>> /\ candidates = <<>> /\ claims = [r \in Rules |-> "none"]
    /\ severity = [i \in Index |-> "low"]
    /\ evidence = [i \in Index |-> {}]
    /\ dropped = [i \in Index |-> "no"]
    /\ verifier = [i \in Index |-> "none"]
    /\ answer = [i \in Index |-> Pending]
    /\ verified = {} /\ reported = {} /\ checks = <<>> /\ risk = "none"
    /\ paid = {} /\ accounted = {}
    /\ wrong \in SUBSET (Users \X Rated)
    /\ loaded = FALSE

Finish(how) == pc' = "done" /\ status' = how
-----------------------------------------------------------------------------
(* The rules and the Reviewer.                                             *)

\* skip_reason: no provider, no diff, too large, nothing reviewable; or no index.
Skip ==
    /\ pc = "start"
    /\ Finish("skipped")
    /\ UNCHANGED <<proposal, findings, tasks, report, paid, accounted, wrong>>

\* The file wins over the store: a stored rule counts only when the file has no rule
\* of its id.
InForce(file, stored) ==
    [r \in DOMAIN file \cup DOMAIN stored |-> IF r \in DOMAIN file THEN file[r] ELSE stored[r]]

\* load_rules and the context pack.  The file may be missing or unreadable (all its
\* rules), or malformed in single rules; the store may be out of reach.
LoadRules ==
    /\ pc = "start"
    /\ \E bad \in SUBSET DOMAIN FileRules, stored \in {StoredRules, <<>>} :
          rules' = InForce([r \in DOMAIN FileRules \ bad |-> FileRules[r]], stored)
    /\ pc' = "reviewer"
    /\ UNCHANGED <<status, candidates, claims, findings, tasks, report, paid, accounted, wrong>>

Invented(e) == IF e.type = "business_rule" THEN e.ref \notin DOMAIN rules ELSE e.ref = "invented"
RuleIds(c) == {e.ref : e \in {f \in c.evidence : f.type = "business_rule"}}

\* Mutation: a rule citation is evidence enough.
CheckCandidateLenient(c) ==
    /\ c.exists
    /\ ~ \E e \in c.evidence : Invented(e)
    /\ c.category = "business_rule" => RuleIds(c) # {}
    /\ \E e \in c.evidence : e.ref = "verified" \/ e.type = "business_rule"

\* _check_candidate: its file and lines exist, nothing it cites is invented, a rule
\* violation cites the rule, and something other than a rule is verified.
CheckCandidate(c) ==
    /\ c.exists
    /\ ~ \E e \in c.evidence : Invented(e)
    /\ c.category = "business_rule" => RuleIds(c) # {}
    /\ \E e \in c.evidence : e.type # "business_rule" /\ e.ref = "verified"

\* _capped_severity: no higher than the highest severity of the rules it cites.
CappedSeverity(c) ==
    LET caps == {rules[r] : r \in RuleIds(c) \cap DOMAIN rules}
    IN  IF caps = {} \/ \E s \in caps : Rank[c.severity] <= Rank[s] THEN c.severity
        ELSE CHOOSE s \in caps : \A t \in caps : Rank[t] <= Rank[s]

\* validate_review: the candidates that check out become findings.  If there are any
\* and the Verifier is enabled, a task is created for each.
Validate(output) ==
    LET sound == {i \in DOMAIN output : CheckCandidate(output[i])}
    IN  /\ dropped' = [i \in Index |-> IF i \in DOMAIN output \ sound THEN "evidence" ELSE "no"]
        /\ severity' = [i \in Index |-> IF i \in sound THEN CappedSeverity(output[i]) ELSE "low"]
        /\ evidence' = [i \in Index |-> IF i \in sound THEN output[i].evidence ELSE {}]
        /\ \E enabled \in VerifierEnabled :
              IF enabled /\ sound # {}
              THEN /\ pc' = "verify"
                   /\ verifier' = [i \in Index |-> IF i \in sound THEN "waiting" ELSE "none"]
              ELSE pc' = "feedback" /\ UNCHANGED verifier

\* run_reviewer returns: with an answer, which is validated at once; or without one.
RunReviewer ==
    /\ pc = "reviewer"
    /\ paid' = {0} /\ accounted' = {0}
    /\ \/ \E output \in Outputs :
             /\ candidates' = output
             /\ claims' \in Claims
             /\ Validate(output)
             /\ UNCHANGED <<status, answer, verified>>
       \/ Finish("failed") /\ UNCHANGED <<candidates, claims, findings, tasks>>
    /\ UNCHANGED <<rules, report, wrong>>

\* An exception of git, of the pack builder or of the provider that nothing on the way
\* expects: run turns it into a failed review.
Raise ==
    /\ pc \in {"start", "reviewer"}
    /\ Finish("failed")
    /\ \/ UNCHANGED <<paid, accounted>>
       \/ pc = "reviewer" /\ paid' = {0} /\ accounted' \in {{}, {0}}
    /\ UNCHANGED <<proposal, findings, tasks, report, wrong>>
-----------------------------------------------------------------------------
(* The Verifier tasks of verify_findings.  They are not bound to the        *)
(* review: gather raises with the first of them and leaves the others to    *)
(* themselves.                                                              *)

\* Mutation: a call that raises keeps its place in the semaphore.
BusyKept == {i \in Index : verifier[i] \in {"running", "raised"}}
Busy == {i \in Index : verifier[i] = "running"}

\* async with semaphore: the tasks get it in the order they asked.
Acquire(i) ==
    /\ verifier[i] = "waiting"
    /\ \A j \in Index : verifier[j] = "waiting" => i <= j
    /\ Cardinality(Busy) < Concurrency
    /\ verifier' = [verifier EXCEPT ![i] = "running"]
    /\ UNCHANGED <<pc, status, proposal, findings, answer, report, paid, accounted, wrong>>

\* run_verifier returns, or the task raises: something its run does not expect.
EndTask(i) ==
    /\ verifier[i] = "running"
    /\ \/ /\ verifier' = [verifier EXCEPT ![i] = "ended"]
          /\ \E a \in Answers : answer' = [answer EXCEPT ![i] = a]
          /\ paid' = paid \cup {i}
       \/ /\ verifier' = [verifier EXCEPT ![i] = "raised"]
          /\ paid' \in {paid, paid \cup {i}}
          /\ UNCHANGED answer
    /\ UNCHANGED <<pc, status, proposal, findings, report, accounted, wrong>>

Tasks == {i \in Index : verifier[i] # "none"}

\* Mutation: no verdict is no confirmation.
RefutedByOutage(i) ==
    \/ answer[i].verdict \in {"outage", "unanswered"}
    \/ answer[i].verdict = "drop" /\ answer[i].sound
\* _apply: a drop that cites nothing invented, and a run that ended without a verdict
\* though the provider was there.
Refuted(i) ==
    \/ answer[i].verdict = "unanswered"
    \/ answer[i].verdict = "drop" /\ answer[i].sound

Confirmed(i) == answer[i].verdict = "keep" /\ answer[i].sound

\* Mutation: a severity that was left open is taken for one.
AdjustedOpen(i) ==
    IF answer[i].severity = "same" \/ Rank[answer[i].severity] < Rank[severity[i]]
    THEN answer[i].severity ELSE severity[i]
\* Severity only goes down.
Adjusted(i) ==
    IF answer[i].severity # "same" /\ Rank[answer[i].severity] < Rank[severity[i]]
    THEN answer[i].severity ELSE severity[i]

\* Mutation: the cost of a refuted issue's call is left out.
VerifierCostOfKept == accounted \cup {i \in Tasks : ~Refuted(i)}
VerifierCost == accounted \cup Tasks

\* gather returns when all tasks have, and the verdicts are applied in order.
ApplyVerdicts ==
    /\ pc = "verify"
    /\ \A i \in Tasks : verifier[i] = "ended"
    /\ dropped' = [i \in Index |-> IF i \in Tasks /\ Refuted(i) THEN "verifier" ELSE dropped[i]]
    /\ verified' = {i \in Tasks : Confirmed(i)}
    /\ severity' = [i \in Index |-> IF i \in Tasks /\ Confirmed(i) THEN Adjusted(i) ELSE severity[i]]
    /\ accounted' = VerifierCost
    /\ pc' = "feedback"
    /\ UNCHANGED <<evidence, status, proposal, tasks, report, paid, wrong>>

\* gather raises with the first task that did.
GatherRaises ==
    /\ pc = "verify"
    /\ \E i \in Tasks : verifier[i] = "raised"
    /\ Finish("failed")
    /\ UNCHANGED <<proposal, findings, tasks, report, paid, accounted, wrong>>
-----------------------------------------------------------------------------
(* The report.                                                             *)

\* PUT .../feedback: a user's verdict on a fingerprint replaces the one before.
GiveFeedback(u, f) ==
    /\ wrong' \in {wrong \cup {<<u, f>>}, wrong \ {<<u, f>>}}
    /\ UNCHANGED <<pc, status, proposal, findings, tasks, report, paid, accounted>>

\* Mutation: an issue the Verifier has confirmed is reported all the same.
RejectedUnverified(i) ==
    i \notin verified /\ \E u \in Users : <<u, Fingerprint(candidates[i])>> \in wrong
\* wrong_fingerprints: one developer's "wrong" is enough.
Rejected(i) == \E u \in Users : <<u, Fingerprint(candidates[i])>> \in wrong

\* sorted by severity x confidence, ties in the order of the findings.
Score(i) == Rank[severity[i]] * candidates[i].confidence
Before(i, j) == Score(i) > Score(j) \/ (Score(i) = Score(j) /\ i < j)

\* A finding ends no earlier than it begins.
LineEnd(i) == IF candidates[i].last < candidates[i].first THEN candidates[i].first
              ELSE candidates[i].last

\* Mutation: spans that share one line do not overlap.
SamePlaceStrict(i, j) ==
    LET a == candidates[i] b == candidates[j]
    IN  /\ a.file = b.file /\ a.category = b.category
        /\ i = j \/ (a.first < LineEnd(j) /\ b.first < LineEnd(i))
SamePlace(i, j) ==
    LET a == candidates[i] b == candidates[j]
    IN  /\ a.file = b.file /\ a.category = b.category
        /\ a.first <= LineEnd(j) /\ b.first <= LineEnd(i)

\* The loop takes the strongest first: an issue joins the merged ones unless one of
\* them, which can only be a stronger one, is at its place.
IsMerged(M, S) ==
    /\ M \subseteq S
    /\ \A i \in S : i \in M <=> ~ \E j \in M : Before(j, i) /\ SamePlace(j, i)
Merged(S) == CHOOSE M \in SUBSET S : IsMerged(M, S)

\* The issue i was merged into, itself if into none: the strongest at its place.
Lead(M, i) == CHOOSE j \in M : SamePlace(j, i) /\ \A k \in M : SamePlace(k, i) => ~Before(k, j)

\* merged[:MAX_REPORTED].
Top(M) == {i \in M : Cardinality({j \in M : Before(j, i)}) < MaxReported}

Cited(R) == UNION {RuleIds(candidates[i]) : i \in R}

\* Mutation: the Reviewer's word makes a rule violated.
RuleOutcomeClaimed(r, R) ==
    IF r \in Cited(R) \/ claims[r] = "violated" THEN "violated"
    ELSE IF claims[r] = "none" THEN "not_checked" ELSE claims[r]
\* _rule_checks: only a reported issue that cites the rule makes it violated.
RuleOutcome(r, R) ==
    IF r \in Cited(R) THEN "violated"
    ELSE CASE claims[r] = "none" -> "not_checked"
           [] claims[r] = "violated" -> "not_confirmed"
           [] OTHER -> claims[r]

RuleChecks(R) == [r \in DOMAIN rules \cap (Applicable \cup Cited(R)) |-> RuleOutcome(r, R)]

\* risk_level of the issues, and never low when a rule is violated.
RiskLevel(R) ==
    CASE \E i \in R : severity[i] = "high" -> "high"
      [] \E i \in R : severity[i] = "medium" -> "medium"
      [] \E r \in DOMAIN RuleChecks(R) : RuleChecks(R)[r] = "violated" -> "medium"
      [] OTHER -> "low"

Kept == {i \in DOMAIN candidates : dropped[i] = "no"}

\* _without_rejected reads the feedback, unless there is nothing to report; when the
\* read fails the review goes on without it.  What follows the read looks at nothing
\* others change and is seen only once saved: the step is taken when the rows are read.
Report ==
    /\ pc = "feedback"
    /\ loaded' \in {Kept # {}, FALSE}
    /\ \E out \in {IF loaded' THEN {i \in Kept : Rejected(i)} ELSE {}} :
       \E merged \in {Merged(Kept \ out)} :
          /\ dropped' = [i \in Index |-> IF i \in out THEN "feedback" ELSE dropped[i]]
          /\ reported' = Top(merged)
          /\ evidence' = [i \in Index |-> evidence[i] \cup
                UNION {evidence[j] : j \in {j \in Kept \ out : Lead(merged, j) = i}}]
    /\ checks' = RuleChecks(reported')
    /\ risk' = RiskLevel(reported')
    /\ Finish("completed")
    /\ UNCHANGED <<proposal, severity, verified, tasks, paid, accounted, wrong>>
-----------------------------------------------------------------------------
Review == Skip \/ LoadRules \/ RunReviewer \/ Raise \/ ApplyVerdicts \/ GatherRaises \/ Report
Verify(i) == Acquire(i) \/ EndTask(i)

Next ==
    \/ Review
    \/ \E i \in Index : Verify(i)
    \/ \E u \in Users, f \in Rated : GiveFeedback(u, f)

Spec == Init /\ [][Next]_vars

\* Every await ends: run_agent has a time limit, git has one, and a call to the database is
\* taken to return or raise.
Fairness == WF_vars(Review) /\ \A i \in Index : WF_vars(Verify(i))
FairSpec == Spec /\ Fairness
-----------------------------------------------------------------------------
(* What the review promises.                                               *)

\* Two issues of one kind with a line in common.
Overlap(i, j) ==
    /\ candidates[i].file = candidates[j].file /\ candidates[i].category = candidates[j].category
    /\ (candidates[i].first..LineEnd(i)) \cap (candidates[j].first..LineEnd(j)) # {}

\* The report of a completed review rests on what was checked: every issue has other
\* evidence than a rule, none that is invented, cites only rules in force, is no more
\* severe than the Reviewer said or all its rules allow, and is called verified only
\* after a Verifier kept it without contradicting itself.
ReportIsChecked ==
    \A i \in reported :
        /\ \E e \in evidence[i] : e.type # "business_rule" /\ e.ref = "verified"
        /\ \A e \in evidence[i] : ~Invented(e)
        /\ Rank[severity[i]] <= Rank[candidates[i].severity]
        /\ RuleIds(candidates[i]) # {} =>
              \E r \in RuleIds(candidates[i]) : Rank[severity[i]] <= Rank[rules[r]]
        /\ i \in verified => answer[i].verdict = "keep" /\ answer[i].sound

\* Nothing the Reviewer proposed disappears without one of the causes the code has for
\* it: the evidence does not hold; a Verifier explicitly and soundly refuted it or was
\* there and gave no verdict; a developer called it wrong; a stronger issue stands at
\* its place; or the report is full of stronger ones.  In particular an outage of the
\* provider and a refutation that cites invented code remove nothing.
GoneForCause ==
    status = "completed" => \A i \in DOMAIN candidates \ reported :
        CASE dropped[i] = "evidence" -> ~CheckCandidate(candidates[i])
          [] dropped[i] = "verifier" ->
                \/ answer[i].verdict = "unanswered"
                \/ answer[i].verdict = "drop" /\ answer[i].sound
          [] dropped[i] = "feedback" -> loaded
          [] dropped[i] = "no" ->
                \/ \E j \in Kept : Before(j, i) /\ Overlap(j, i)
                \/ Cardinality(reported) = MaxReported /\ \A j \in reported : Before(j, i)

\* The report is short and says nothing twice: no two issues of one category share a
\* line, whatever chain of overlaps they come from.
OneIssuePerPlace ==
    /\ Cardinality(reported) <= MaxReported
    /\ \A i, j \in reported : i # j => ~Overlap(i, j)

\* A rule is called violated only with a reported issue that cites it, whatever the
\* Reviewer said of it, and then the risk is not low.
ViolationIsShown ==
    \A r \in DOMAIN checks : checks[r] = "violated" =>
        /\ risk # "low"
        /\ \E i \in reported : r \in RuleIds(candidates[i])

\* An issue a developer has marked wrong by the time the feedback is read, however late
\* in the review, is not in the report, unless the feedback could not be loaded.
WrongStaysOut ==
    [][status' = "completed" /\ loaded' => \A i \in reported', u \in Users :
          <<u, Fingerprint(candidates[i])>> \notin wrong]_status

\* The cost of a completed review is that of every agent run it paid for, refuted and
\* unanswered ones included.
CostAccounted == status = "completed" => accounted = paid

\* The review ends, and so does every task it started, those it has abandoned too.
ReviewEnds ==
    <>[](pc = "done" /\ \A i \in Index : verifier[i] \notin {"waiting", "running"})

\* "not_confirmed": the Reviewer said violated, "but no such issue survived", that is no
\* reported issue with the rule among the evidence it rests on.
NotConfirmedMeansNone ==
    \A r \in DOMAIN checks : checks[r] = "not_confirmed" =>
        \A i \in reported : \A e \in evidence[i] : ~(e.type = "business_rule" /\ e.ref = r)
-----------------------------------------------------------------------------
(* The inductive invariant: what is known of the findings, the tasks and    *)
(* the cost at each place of _review.                                       *)

Phases ==
    /\ pc # "done" => status = "running"
    /\ pc \in {"start", "reviewer"} =>
          /\ paid = {} /\ candidates = <<>> /\ verified = {}
          /\ \A i \in Index : verifier[i] = "none"
    /\ status # "completed" => reported = {} /\ DOMAIN checks = {}

Costs ==
    /\ pc = "verify" =>
          /\ accounted = {0} /\ 0 \in paid /\ paid \subseteq {0} \cup Tasks
          /\ \A i \in Tasks : verifier[i] = "ended" => i \in paid
    /\ pc = "feedback" \/ status = "completed" =>
          /\ accounted = paid
          /\ \A i \in Index : verifier[i] \in {"none", "ended"}

\* A finding that has not been dropped, with all the evidence it has taken over.
Holds(i) ==
    /\ CheckCandidate(candidates[i])
    /\ candidates[i].evidence \subseteq evidence[i]
    /\ \A e \in evidence[i] : ~Invented(e)
    /\ Rank[severity[i]] <= Rank[candidates[i].severity]
    /\ RuleIds(candidates[i]) # {} =>
          \E r \in RuleIds(candidates[i]) : Rank[severity[i]] <= Rank[rules[r]]

Findings ==
    /\ \A i \in Kept : Holds(i)
    /\ \A i \in verified : verifier[i] = "ended" /\ answer[i].verdict = "keep" /\ answer[i].sound
    /\ reported \subseteq Kept

\* Why each candidate was dropped is still so when the report is read, and what is
\* reported are the strongest of the issues that are left, one for each place.
Causes ==
    /\ \A i \in DOMAIN candidates :
          /\ dropped[i] = "evidence" => ~CheckCandidate(candidates[i])
          /\ dropped[i] = "verifier" => verifier[i] = "ended" /\ Refuted(i)
          /\ dropped[i] = "feedback" => loaded /\ pc = "done"
    /\ status = "completed" => reported = Top(Merged(Kept))

\* The findings, the tasks, the cost and the report agree with each other at every step
\* (strengthens ReportIsChecked, ViolationIsShown and CostAccounted).
IInv == TypeOK /\ Phases /\ Costs /\ Findings /\ ViolationIsShown
=============================================================================
