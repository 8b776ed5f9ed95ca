-------------------------- MODULE ReviewFlow_proofs --------------------------
(* Proofs about ReviewFlow for every rule set, every answer of the Reviewer *)
(* and of the Verifiers, and any number of findings.                        *)
EXTENDS ReviewFlow, FiniteSetTheorems, TLAPS

-----------------------------------------------------------------------------
(* Constants and operators.                                                *)

LEMMA RankType ==
    /\ \A s \in Severities : Rank[s] \in Nat
    /\ Rank["low"] = 1 /\ Rank["medium"] = 2 /\ Rank["high"] = 3
BY DEF Rank, Severities

\* The positions and the evidence of a proposal are among those the model ranges over.
LEMMA Proposals ==
    ASSUME ReviewAssumption, NEW output \in Outputs, NEW i \in DOMAIN output
    PROVE  /\ i \in Index
           /\ output[i] \in Proposed
           /\ output[i] \in Candidate
           /\ output[i].severity \in Severities
           /\ output[i].evidence \in SUBSET UNION {c.evidence : c \in Proposed}
<1>1. i \in Index
    BY DEF Index
<1>2. output[i] \in Proposed
    BY DEF Proposed
<1>3. output \in Seq(Candidate)
    BY DEF ReviewAssumption
<1>4. output[i] \in Candidate
    BY <1>3
<1>5. output[i].severity \in Severities
    BY <1>4 DEF Candidate
<1>6. output[i].evidence \subseteq UNION {c.evidence : c \in Proposed}
    BY <1>2
<1> QED
    BY <1>1, <1>2, <1>4, <1>5, <1>6

\* The severity of a finding is no higher than the Reviewer's and than the highest of
\* the rules it cites (_capped_severity).
LEMMA Capped ==
    ASSUME NEW c, c.severity \in Severities, rules \in [DOMAIN rules -> Severities]
    PROVE  /\ CappedSeverity(c) \in Severities
           /\ Rank[CappedSeverity(c)] <= Rank[c.severity]
           /\ RuleIds(c) \cap DOMAIN rules # {} =>
                 \E r \in RuleIds(c) \cap DOMAIN rules : Rank[CappedSeverity(c)] <= Rank[rules[r]]
<1> DEFINE caps == {rules[r] : r \in RuleIds(c) \cap DOMAIN rules}
<1>1. caps \subseteq Severities
    OBVIOUS
<1>2. CASE caps = {}
    <2>1. CappedSeverity(c) = c.severity
        BY <1>2 DEF CappedSeverity
    <2>2. RuleIds(c) \cap DOMAIN rules = {}
        BY <1>2
    <2> QED
        BY <2>1, <2>2, RankType
<1>3. CASE \E s \in caps : Rank[c.severity] <= Rank[s]
    <2>1. CappedSeverity(c) = c.severity
        BY <1>3 DEF CappedSeverity
    <2>2. \E r \in RuleIds(c) \cap DOMAIN rules : Rank[c.severity] <= Rank[rules[r]]
        BY <1>3
    <2> QED
        BY <2>1, <2>2, RankType
<1>4. CASE caps # {} /\ ~ \E s \in caps : Rank[c.severity] <= Rank[s]
    <2>1. CappedSeverity(c) = CHOOSE s \in caps : \A t \in caps : Rank[t] <= Rank[s]
        BY <1>4 DEF CappedSeverity
    <2>2. \E s \in caps : \A t \in caps : Rank[t] <= Rank[s]
        <3>1. CASE "high" \in caps
            BY <1>1, <3>1, RankType DEF Severities
        <3>2. CASE "high" \notin caps /\ "medium" \in caps
            BY <1>1, <3>2, RankType DEF Severities
        <3>3. CASE caps = {"low"}
            BY <3>3, RankType
        <3> QED
            BY <1>1, <1>4, <3>1, <3>2, <3>3 DEF Severities
    <2>3. /\ CappedSeverity(c) \in caps
          /\ \A t \in caps : Rank[t] <= Rank[CappedSeverity(c)]
        BY <2>1, <2>2
    <2>4. Rank[CappedSeverity(c)] <= Rank[c.severity]
        BY <1>1, <1>4, <2>3, RankType
    <2>5. \E r \in RuleIds(c) \cap DOMAIN rules : CappedSeverity(c) = rules[r]
        BY <2>3
    <2> QED
        BY <1>1, <2>3, <2>4, <2>5, RankType
<1> QED
    BY <1>2, <1>3, <1>4

\* What passes the check cites only rules in force.
LEMMA CitesInForce ==
    ASSUME NEW c, CheckCandidate(c)
    PROVE  RuleIds(c) \subseteq DOMAIN rules
BY DEF CheckCandidate, RuleIds, Invented

LEMMA NoCandidates == DOMAIN <<>> = {}
OBVIOUS

LEMMA KeptInIndex ==
    ASSUME candidates \in Outputs \cup {<<>>}
    PROVE  DOMAIN candidates \subseteq Index
BY NoCandidates DEF Index

-----------------------------------------------------------------------------
(* The order of the report: what sorted, the loop over the merged issues    *)
(* and the cut do to any finite set of findings.                            *)

\* Any two findings of S are ranked, one before the other and not both.
Ranked(S) ==
    \A i, j \in S :
        /\ Before(i, j) => ~Before(j, i)
        /\ i # j => Before(i, j) \/ Before(j, i)
        /\ \A k \in S : Before(i, j) /\ Before(j, k) => Before(i, k)

LEMMA CandidatesRanked ==
    ASSUME ReviewAssumption, TypeOK
    PROVE  /\ IsFiniteSet(DOMAIN candidates)
           /\ Ranked(DOMAIN candidates)
           /\ \A i \in DOMAIN candidates : candidates[i].first \in Nat /\ candidates[i].last \in Nat
<1>1. candidates \in Seq(Candidate)
    <2>1. <<>> \in Seq(Candidate)
        OBVIOUS
    <2> QED
        BY <2>1 DEF TypeOK, ReviewAssumption
<1>2. DOMAIN candidates = 1..Len(candidates) /\ Len(candidates) \in Nat
    BY <1>1
<1>3. IsFiniteSet(DOMAIN candidates)
    <2>1. 1 \in Int /\ Len(candidates) \in Int
        BY <1>2
    <2>2. IsFiniteSet(1..Len(candidates))
        BY <2>1, FS_Interval
    <2> QED
        BY <1>2, <2>2
<1>4. \A i \in DOMAIN candidates : candidates[i] \in Candidate
    BY <1>1
<1>5. \A i \in DOMAIN candidates : /\ candidates[i].confidence \in Nat
                                   /\ candidates[i].first \in Nat /\ candidates[i].last \in Nat
    BY <1>4 DEF Candidate
<1>6. \A i \in DOMAIN candidates : Rank[severity[i]] \in Nat
    BY RankType, KeptInIndex DEF TypeOK
<1>7. \A i \in DOMAIN candidates : Score(i) \in Nat
    <2>1. \A a, b \in Nat : a * b \in Nat
        OBVIOUS
    <2> QED
        BY <1>5, <1>6, <2>1 DEF Score
<1>8. \A i \in DOMAIN candidates : i \in Nat
    BY <1>2
<1>9. Ranked(DOMAIN candidates)
    BY <1>7, <1>8 DEF Ranked, Before
<1> QED
    BY <1>3, <1>5, <1>9

\* A set of findings that is not empty has a weakest one.
LEMMA Weakest ==
    ASSUME NEW S, IsFiniteSet(S), Ranked(S), S # {}
    PROVE  \E w \in S : \A i \in S : i # w => Before(i, w)
<1> DEFINE Good(T) == T # {} => \E w \in T : \A i \in T : i # w => Before(i, w)
           Bad == {T \in SUBSET S : ~Good(T)}
<1> SUFFICES ASSUME Bad # {} PROVE FALSE
    OBVIOUS
<1>1. IsWellFoundedOn(StrictSubsetOrdering(S), SUBSET S)
    BY FS_StrictSubsetOrderingWellFounded, FS_FiniteSubsetsOfFinite
<1>2. PICK T \in Bad : \A U \in Bad : <<U, T>> \notin StrictSubsetOrdering(S)
    <2> HIDE DEF Bad
    <2>1. Bad \subseteq SUBSET S
        BY DEF Bad
    <2> QED
        BY <1>1, <2>1, WFMin
<1>3. T \subseteq S /\ T # {} /\ ~Good(T)
    OBVIOUS
<1>4. PICK x \in T : TRUE
    BY <1>3
<1>5. T \ {x} \notin Bad
    <2>1. <<T \ {x}, T>> \in StrictSubsetOrdering(S)
        BY <1>3 DEF StrictSubsetOrdering
    <2> QED
        BY <1>2, <2>1
<1>6. Good(T \ {x})
    BY <1>3, <1>5
<1>7. CASE T \ {x} = {}
    BY <1>3, <1>4, <1>7
<1>8. CASE T \ {x} # {}
    <2>1. PICK w \in T \ {x} : \A i \in T \ {x} : i # w => Before(i, w)
        BY <1>6, <1>8
    <2>2. CASE Before(x, w)
        BY <1>3, <2>1, <2>2
    <2>3. CASE Before(w, x)
        <3>1. \A i \in T : i # x => Before(i, x)
            BY <1>3, <1>4, <2>1, <2>3 DEF Ranked
        <3> QED
            BY <1>3, <1>4, <3>1
    <2> QED
        BY <1>3, <1>4, <2>1, <2>2, <2>3 DEF Ranked
<1> QED
    BY <1>7, <1>8

\* And a strongest one.
LEMMA Strongest ==
    ASSUME NEW S, IsFiniteSet(S), Ranked(S), S # {}
    PROVE  \E w \in S : \A i \in S : i # w => Before(w, i)
<1> DEFINE Good(T) == T # {} => \E w \in T : \A i \in T : i # w => Before(w, i)
           Bad == {T \in SUBSET S : ~Good(T)}
<1> SUFFICES ASSUME Bad # {} PROVE FALSE
    OBVIOUS
<1>1. IsWellFoundedOn(StrictSubsetOrdering(S), SUBSET S)
    BY FS_StrictSubsetOrderingWellFounded, FS_FiniteSubsetsOfFinite
<1>2. PICK T \in Bad : \A U \in Bad : <<U, T>> \notin StrictSubsetOrdering(S)
    <2> HIDE DEF Bad
    <2>1. Bad \subseteq SUBSET S
        BY DEF Bad
    <2> QED
        BY <1>1, <2>1, WFMin
<1>3. T \subseteq S /\ T # {} /\ ~Good(T)
    OBVIOUS
<1>4. PICK x \in T : TRUE
    BY <1>3
<1>5. T \ {x} \notin Bad
    <2>1. <<T \ {x}, T>> \in StrictSubsetOrdering(S)
        BY <1>3 DEF StrictSubsetOrdering
    <2> QED
        BY <1>2, <2>1
<1>6. Good(T \ {x})
    BY <1>3, <1>5
<1>7. CASE T \ {x} = {}
    BY <1>3, <1>4, <1>7
<1>8. CASE T \ {x} # {}
    <2>1. PICK w \in T \ {x} : \A i \in T \ {x} : i # w => Before(w, i)
        BY <1>6, <1>8
    <2>2. CASE Before(w, x)
        BY <1>3, <2>1, <2>2
    <2>3. CASE Before(x, w)
        <3>1. \A i \in T : i # x => Before(x, i)
            BY <1>3, <1>4, <2>1, <2>3 DEF Ranked
        <3> QED
            BY <1>3, <1>4, <3>1
    <2> QED
        BY <1>3, <1>4, <2>1, <2>2, <2>3 DEF Ranked
<1> QED
    BY <1>7, <1>8

\* The loop over the ranked findings has a result: the merged issues are a part of the
\* findings, and each finding is one of them exactly when no stronger one of them is at
\* its place.
LEMMA MergedIsMerged ==
    ASSUME NEW S, IsFiniteSet(S), Ranked(S)
    PROVE  IsMerged(Merged(S), S)
<1> DEFINE Good(T) == \E M \in SUBSET T : IsMerged(M, T)
           Bad == {T \in SUBSET S : ~Good(T)}
<1>1. Bad = {}
    <2> SUFFICES ASSUME Bad # {} PROVE FALSE
        OBVIOUS
    <2>1. IsWellFoundedOn(StrictSubsetOrdering(S), SUBSET S)
        BY FS_StrictSubsetOrderingWellFounded, FS_FiniteSubsetsOfFinite
    <2>2. PICK T \in Bad : \A U \in Bad : <<U, T>> \notin StrictSubsetOrdering(S)
        <3> HIDE DEF Bad
        <3>1. Bad \subseteq SUBSET S
            BY DEF Bad
        <3> QED
            BY <2>1, <3>1, WFMin
    <2>3. T \subseteq S /\ ~Good(T)
        OBVIOUS
    <2>4. T # {}
        <3>1. IsMerged({}, {})
            BY DEF IsMerged
        <3> QED
            BY <2>3, <3>1
    <2>5. PICK w \in T : \A i \in T : i # w => Before(i, w)
        <3>1. IsFiniteSet(T) /\ Ranked(T)
            BY <2>3, FS_Subset DEF Ranked
        <3> QED
            BY <2>4, <3>1, Weakest
    <2>6. Good(T \ {w})
        <3>1. <<T \ {w}, T>> \in StrictSubsetOrdering(S)
            BY <2>3 DEF StrictSubsetOrdering
        <3> QED
            BY <2>2, <2>3, <3>1
    <2>7. PICK M \in SUBSET (T \ {w}) : IsMerged(M, T \ {w})
        BY <2>6
    <2>8. \A i \in T : ~Before(w, i)
        BY <2>3, <2>5 DEF Ranked
    <2>9. CASE \E j \in M : SamePlace(j, w)
        <3>1. IsMerged(M, T)
            BY <2>5, <2>7, <2>8, <2>9 DEF IsMerged
        <3> QED
            BY <2>3, <2>7, <3>1
    <2>10. CASE ~ \E j \in M : SamePlace(j, w)
        <3>1. IsMerged(M \cup {w}, T)
            BY <2>5, <2>7, <2>8, <2>10 DEF IsMerged
        <3> QED
            BY <2>3, <2>7, <3>1
    <2> QED
        BY <2>9, <2>10
<1>2. \E M \in SUBSET S : IsMerged(M, S)
    BY <1>1
<1> QED
    BY <1>2 DEF Merged

\* The cut keeps at most MaxReported of the merged issues, and drops one only when it
\* keeps as many, all of them before it.
LEMMA CutToTop ==
    ASSUME NEW M, IsFiniteSet(M), Ranked(M), MaxReported \in Nat
    PROVE  /\ Top(M) \subseteq M
           /\ Cardinality(Top(M)) <= MaxReported
           /\ \A i \in M \ Top(M) :
                 Cardinality(Top(M)) = MaxReported /\ \A j \in Top(M) : Before(j, i)
<1> DEFINE Pred(i) == {j \in M : Before(j, i)}
<1>1. Top(M) \subseteq M /\ \A i \in M : i \in Top(M) <=> Cardinality(Pred(i)) < MaxReported
    BY DEF Top
<1>2. \A i \in M : IsFiniteSet(Pred(i)) /\ Cardinality(Pred(i)) \in Nat
    BY FS_Subset, FS_CardinalityType
<1>3. IsFiniteSet(Top(M)) /\ Ranked(Top(M)) /\ Cardinality(Top(M)) \in Nat
    BY <1>1, FS_Subset, FS_CardinalityType DEF Ranked
<1> HIDE DEF Pred
<1>4. Cardinality(Top(M)) <= MaxReported
    <2>1. CASE Top(M) = {}
        BY <2>1, FS_EmptySet
    <2>2. CASE Top(M) # {}
        <3>1. PICK w \in Top(M) : \A i \in Top(M) : i # w => Before(i, w)
            BY <1>3, <2>2, Weakest
        <3>2. Top(M) \ {w} \subseteq Pred(w)
            BY <1>1, <3>1 DEF Pred
        <3>3. Cardinality(Top(M) \ {w}) = Cardinality(Top(M)) - 1
            BY <1>3, FS_RemoveElement
        <3>4. Cardinality(Top(M) \ {w}) <= Cardinality(Pred(w))
            BY <1>1, <1>2, <3>2, FS_Subset
        <3>5. Cardinality(Pred(w)) < MaxReported /\ Cardinality(Pred(w)) \in Nat
            BY <1>1, <1>2
        <3> QED
            BY <1>3, <3>3, <3>4, <3>5
    <2> QED
        BY <2>1, <2>2
<1>5. ASSUME NEW i \in M \ Top(M), NEW j \in Top(M)
      PROVE  Before(j, i)
    <2> SUFFICES ASSUME ~Before(j, i) PROVE FALSE
        OBVIOUS
    <2>1. Before(i, j)
        BY <1>1 DEF Ranked
    <2>2. Pred(i) \subseteq Pred(j)
        BY <1>1, <2>1 DEF Pred, Ranked
    <2>3. Cardinality(Pred(i)) <= Cardinality(Pred(j))
        BY <1>1, <1>2, <2>2, FS_Subset
    <2>4. Cardinality(Pred(j)) < MaxReported /\ ~(Cardinality(Pred(i)) < MaxReported)
        BY <1>1
    <2> QED
        BY <1>1, <1>2, <2>3, <2>4
<1>6. ASSUME NEW i \in M \ Top(M)
      PROVE  Cardinality(Top(M)) = MaxReported
    <2> DEFINE Rest == M \ Top(M)
    <2>1. IsFiniteSet(Rest) /\ Ranked(Rest) /\ Rest # {}
        BY FS_Subset DEF Ranked
    <2>2. PICK u \in Rest : \A k \in Rest : k # u => Before(u, k)
        <3> HIDE DEF Rest
        <3> QED
            BY <2>1, Strongest
    <2>3. Pred(u) \subseteq Top(M)
        BY <2>2 DEF Pred, Ranked
    <2>4. Cardinality(Pred(u)) <= Cardinality(Top(M))
        BY <1>3, <2>3, FS_Subset
    <2>5. ~(Cardinality(Pred(u)) < MaxReported) /\ Cardinality(Pred(u)) \in Nat
        BY <1>1, <1>2, <2>2
    <2> QED
        BY <1>3, <1>4, <2>4, <2>5
<1> QED
    BY <1>1, <1>4, <1>5, <1>6

-----------------------------------------------------------------------------
(* The invariant: the initial state and each step.                         *)

LEMMA InitIInv == ReviewAssumption /\ Init => IInv
<1> SUFFICES ASSUME ReviewAssumption, Init PROVE IInv
    OBVIOUS
<1> USE DEF Init
<1>1. TypeOK
    <2>1. rules \in [DOMAIN rules -> Severities] /\ DOMAIN rules \subseteq Rules
        BY NoCandidates
    <2>2. checks \in [DOMAIN checks -> Outcomes] /\ DOMAIN checks \subseteq Rules
        BY NoCandidates
    <2> QED
        BY <2>1, <2>2 DEF TypeOK, Severities, Answers
<1>2. Phases /\ Costs
    BY NoCandidates DEF Phases, Costs
<1>3. Findings /\ ViolationIsShown
    BY NoCandidates DEF Findings, ViolationIsShown, Kept
<1> QED
    BY <1>1, <1>2, <1>3 DEF IInv

\* What the findings rest on is left alone, and no answer already given changes.
LEMMA FindingsStable ==
    ASSUME IInv, UNCHANGED <<proposal, findings, reported, checks, risk>>,
           \A i \in Index : verifier[i] = "ended" => verifier'[i] = "ended" /\ answer'[i] = answer[i]
    PROVE  Findings' /\ ViolationIsShown'
<1> USE DEF proposal, findings
<1>1. Kept' = Kept
    BY DEF Kept
<1>2. \A i \in Kept : Holds(i) => Holds(i)'
    BY DEF Holds, CheckCandidate, RuleIds, Invented
<1>3. ViolationIsShown'
    BY DEF IInv, ViolationIsShown, RuleIds
<1>4. verified \subseteq Index
    BY DEF IInv, TypeOK
<1> QED
    BY <1>1, <1>2, <1>3, <1>4 DEF IInv, Findings

\* The review ends without a report.
LEMMA EndStep ==
    ASSUME IInv, Skip \/ Raise \/ GatherRaises
    PROVE  IInv'
<1> USE DEF Skip, Raise, GatherRaises, Finish, proposal, findings, tasks, report
<1>1. pc' = "done" /\ status' \in {"skipped", "failed"}
    OBVIOUS
<1>2. TypeOK'
    BY <1>1 DEF IInv, TypeOK
<1>3. Findings' /\ ViolationIsShown'
    BY FindingsStable
<1>4. status # "completed"
    BY DEF IInv, Phases
<1>5. Phases'
    BY <1>1, <1>4 DEF IInv, Phases
<1>6. Costs'
    BY <1>1 DEF Costs
<1> QED
    BY <1>2, <1>3, <1>5, <1>6 DEF IInv

LEMMA LoadRulesStep ==
    ASSUME ReviewAssumption, IInv, LoadRules
    PROVE  IInv'
<1> USE DEF LoadRules, findings, tasks, report
<1>1. PICK bad \in SUBSET DOMAIN FileRules, stored \in {StoredRules, <<>>} :
          rules' = InForce([r \in DOMAIN FileRules \ bad |-> FileRules[r]], stored)
    OBVIOUS
<1> DEFINE file == [r \in DOMAIN FileRules \ bad |-> FileRules[r]]
<1>2. /\ DOMAIN stored \subseteq DOMAIN StoredRules
      /\ \A r \in DOMAIN stored : stored[r] \in Severities
    BY <1>1, NoCandidates DEF ReviewAssumption
<1>3. \A r \in DOMAIN file : r \in DOMAIN FileRules /\ file[r] \in Severities
    BY DEF ReviewAssumption
<1>4. DOMAIN rules' = DOMAIN file \cup DOMAIN stored
    BY <1>1 DEF InForce
<1>5. \A r \in DOMAIN rules' : rules'[r] \in Severities
    BY <1>1, <1>2, <1>3 DEF InForce
<1>6. rules' \in [DOMAIN rules' -> Severities] /\ DOMAIN rules' \subseteq Rules
    BY <1>1, <1>2, <1>3, <1>4, <1>5 DEF InForce, Rules
<1>7. TypeOK'
    BY <1>6 DEF IInv, TypeOK
<1>8. candidates' = <<>> /\ status # "completed"
    BY DEF IInv, Phases
<1>9. Phases' /\ Costs'
    BY DEF IInv, Phases, Costs
<1>10. Findings' /\ ViolationIsShown'
    BY <1>8, NoCandidates DEF IInv, Findings, ViolationIsShown, Kept, Phases
<1> QED
    BY <1>7, <1>9, <1>10 DEF IInv

\* Everything RunReviewer does when there is an answer.
LEMMA ValidateStep ==
    ASSUME ReviewAssumption, IInv, pc = "reviewer", NEW output \in Outputs, candidates' = output,
           claims' \in Claims, Validate(output), paid' = {0}, accounted' = {0},
           UNCHANGED <<rules, report, status, answer, verified, wrong>>
    PROVE  IInv'
<1> USE DEF report
<1> DEFINE sound == {i \in DOMAIN output : CheckCandidate(output[i])}
<1>1. /\ dropped' = [i \in Index |-> IF i \in DOMAIN output \ sound THEN "evidence" ELSE "no"]
      /\ severity' = [i \in Index |-> IF i \in sound THEN CappedSeverity(output[i]) ELSE "low"]
      /\ evidence' = [i \in Index |-> IF i \in sound THEN output[i].evidence ELSE {}]
    BY DEF Validate
<1>2. \/ /\ pc' = "verify"
         /\ verifier' = [i \in Index |-> IF i \in sound THEN "waiting" ELSE "none"]
      \/ /\ pc' = "feedback"
         /\ UNCHANGED verifier
    BY DEF Validate
<1>3. status = "running" /\ verified = {} /\ reported = {} /\ DOMAIN checks = {}
      /\ \A i \in Index : verifier[i] = "none"
    BY DEF IInv, Phases
<1>4. \A i \in sound : /\ CappedSeverity(output[i]) \in Severities
                       /\ Rank[CappedSeverity(output[i])] <= Rank[output[i].severity]
                       /\ RuleIds(output[i]) \cap DOMAIN rules # {} =>
                             \E r \in RuleIds(output[i]) \cap DOMAIN rules :
                                Rank[CappedSeverity(output[i])] <= Rank[rules[r]]
    BY Capped, Proposals DEF IInv, TypeOK
<1>5. TypeOK'
    <2>1. severity' \in [Index -> Severities]
        BY <1>1, <1>4 DEF Severities
    <2>2. evidence' \in [Index -> SUBSET UNION {c.evidence : c \in Proposed}]
        BY <1>1, Proposals
    <2>3. verifier' \in [Index -> {"none", "waiting", "running", "ended", "raised"}]
        BY <1>2 DEF IInv, TypeOK
    <2>4. claims' \in [Rules -> {"none", "violated", "satisfied", "not_applicable"}]
        BY DEF ReviewAssumption
    <2>5. dropped' \in [Index -> {"no", "evidence", "verifier", "feedback"}]
        BY <1>1
    <2> QED
        BY <1>2, <2>1, <2>2, <2>3, <2>4, <2>5 DEF IInv, TypeOK
<1>6. Phases'
    BY <1>2, <1>3 DEF Phases
<1>7. Costs'
    <2>1. CASE pc' = "verify"
        BY <2>1, <1>2, <1>3 DEF Costs, Tasks
    <2>2. CASE pc' = "feedback"
        BY <2>2, <1>2, <1>3 DEF Costs
    <2> QED
        BY <1>2, <2>1, <2>2
<1>8. Kept' \subseteq sound
    BY <1>1, Proposals DEF Kept
<1>9. \A i \in sound : Holds(i)'
    <2> SUFFICES ASSUME NEW i \in sound PROVE Holds(i)'
        OBVIOUS
    <2>1. i \in Index
        BY Proposals
    <2>2. CheckCandidate(output[i])' /\ RuleIds(output[i])' = RuleIds(output[i])
        BY DEF CheckCandidate, RuleIds, Invented
    <2>3. RuleIds(output[i]) \subseteq DOMAIN rules
        BY CitesInForce
    <2>4. \A e \in output[i].evidence : ~Invented(e)'
        BY DEF CheckCandidate, Invented
    <2> QED
        BY <1>1, <1>4, <2>1, <2>2, <2>3, <2>4 DEF Holds, CheckCandidate, RuleIds, Invented
<1>10. Findings' /\ ViolationIsShown'
    BY <1>3, <1>8, <1>9 DEF Findings, ViolationIsShown
<1> QED
    BY <1>5, <1>6, <1>7, <1>10 DEF IInv

LEMMA RunReviewerStep ==
    ASSUME ReviewAssumption, IInv, RunReviewer
    PROVE  IInv'
<1>1. CASE \E output \in Outputs : candidates' = output /\ claims' \in Claims /\ Validate(output)
                                   /\ UNCHANGED <<status, answer, verified>>
    BY <1>1, ValidateStep DEF RunReviewer
<1>2. CASE Finish("failed") /\ UNCHANGED <<candidates, claims, findings, tasks>>
    <2> USE <1>2 DEF RunReviewer, Finish, proposal, findings, tasks, report
    <2>1. TypeOK'
        BY DEF IInv, TypeOK
    <2>2. Findings' /\ ViolationIsShown'
        BY FindingsStable
    <2>3. Phases' /\ Costs'
        BY DEF IInv, Phases, Costs
    <2> QED
        BY <2>1, <2>2, <2>3 DEF IInv
<1> QED
    BY <1>1, <1>2 DEF RunReviewer

LEMMA AcquireStep ==
    ASSUME IInv, NEW i \in Index, Acquire(i)
    PROVE  IInv'
<1> USE DEF Acquire, proposal, findings, report
<1>1. /\ verifier \in [Index -> {"none", "waiting", "running", "ended", "raised"}]
      /\ verifier' = [verifier EXCEPT ![i] = "running"]
    BY DEF IInv, TypeOK
<1>2. \A j \in Index : j # i => verifier'[j] = verifier[j]
    BY <1>1
<1>3. verifier[i] = "waiting" /\ verifier'[i] = "running"
    BY <1>1
<1>4. TypeOK'
    BY <1>1 DEF IInv, TypeOK
<1>5. Tasks' = Tasks
    BY <1>2, <1>3 DEF Tasks
<1>6. Phases' /\ Costs'
    BY <1>2, <1>3, <1>5 DEF IInv, Phases, Costs, Tasks
<1>7. Findings' /\ ViolationIsShown'
    BY <1>2, <1>3, FindingsStable
<1> QED
    BY <1>4, <1>6, <1>7 DEF IInv

LEMMA EndTaskStep ==
    ASSUME IInv, NEW i \in Index, EndTask(i)
    PROVE  IInv'
<1> USE DEF EndTask, proposal, findings, report
<1>1. /\ verifier \in [Index -> {"none", "waiting", "running", "ended", "raised"}]
      /\ answer \in [Index -> Answers \cup {Pending}]
    BY DEF IInv, TypeOK
<1>2. /\ verifier[i] = "running"
      /\ \A j \in Index : j # i => verifier'[j] = verifier[j] /\ answer'[j] = answer[j]
      /\ verifier'[i] \in {"ended", "raised"}
    BY <1>1
<1>3. TypeOK'
    <2>1. verifier' \in [Index -> {"none", "waiting", "running", "ended", "raised"}]
        BY <1>1
    <2>2. answer' \in [Index -> Answers \cup {Pending}]
        BY <1>1
    <2>3. paid' \subseteq Index \cup {0}
        BY DEF IInv, TypeOK
    <2> QED
        BY <2>1, <2>2, <2>3 DEF IInv, TypeOK
<1>4. Tasks' = Tasks /\ i \in Tasks
    BY <1>2 DEF Tasks
<1>5. pc \notin {"start", "reviewer", "feedback"} /\ status # "completed"
    BY <1>2 DEF IInv, Phases, Costs
<1>6. paid \subseteq paid' /\ paid' \subseteq paid \cup {i} /\ (verifier'[i] = "ended" => i \in paid')
    BY <1>1
<1>7. Phases'
    BY <1>5 DEF IInv, Phases
<1>8. Costs'
    BY <1>2, <1>4, <1>5, <1>6 DEF IInv, Costs, Tasks
<1>9. Findings' /\ ViolationIsShown'
    BY <1>2, FindingsStable
<1> QED
    BY <1>3, <1>7, <1>8, <1>9 DEF IInv

\* A verdict lowers a severity or leaves it.
LEMMA AdjustedDown ==
    ASSUME TypeOK, NEW i \in Index
    PROVE  Adjusted(i) \in Severities /\ Rank[Adjusted(i)] <= Rank[severity[i]]
<1>1. severity[i] \in Severities /\ answer[i] \in Answers \cup {Pending}
    BY DEF TypeOK
<1>2. answer[i].severity \in Severities \cup {"same"}
    <2>1. CASE answer[i] \in NoVerdict
        BY <2>1 DEF NoVerdict
    <2>2. CASE answer[i] \in [verdict : {"drop"}, sound : BOOLEAN, severity : {"same"}]
        BY <2>2
    <2>3. CASE answer[i] \in [verdict : {"keep"}, sound : BOOLEAN, severity : Severities \cup {"same"}]
        BY <2>3
    <2>4. CASE answer[i] = Pending
        BY <2>4 DEF Pending
    <2> QED
        BY <1>1, <2>1, <2>2, <2>3, <2>4 DEF Answers
<1> QED
    BY <1>1, <1>2, RankType DEF Adjusted

LEMMA ApplyVerdictsStep ==
    ASSUME ReviewAssumption, IInv, ApplyVerdicts
    PROVE  IInv'
<1> USE DEF ApplyVerdicts, proposal, tasks, report
<1>1. TypeOK'
    <2>1. severity' \in [Index -> Severities]
        BY AdjustedDown DEF IInv, TypeOK
    <2>2. dropped' \in [Index -> {"no", "evidence", "verifier", "feedback"}]
        BY DEF IInv, TypeOK
    <2>3. verified' \subseteq Index
        BY DEF Tasks
    <2>4. accounted' \subseteq Index \cup {0}
        BY DEF IInv, TypeOK, VerifierCost, Tasks
    <2> QED
        BY <2>1, <2>2, <2>3, <2>4 DEF IInv, TypeOK
<1>2. Phases'
    BY DEF IInv, Phases
<1>3. Costs'
    <2>1. paid = {0} \cup Tasks
        BY DEF IInv, Costs
    <2>2. accounted' = {0} \cup Tasks
        BY DEF IInv, Costs, VerifierCost
    <2>3. \A i \in Index : verifier[i] \in {"none", "ended"}
        BY DEF Tasks
    <2>4. status # "completed"
        BY DEF IInv, Phases
    <2> QED
        BY <2>1, <2>2, <2>3, <2>4 DEF Costs
<1>4. DOMAIN candidates \subseteq Index
    BY KeptInIndex DEF IInv, TypeOK
<1>5. \A i \in Index : /\ dropped'[i] = "no" => dropped[i] = "no"
                       /\ severity'[i] \in Severities /\ Rank[severity'[i]] <= Rank[severity[i]]
    BY AdjustedDown, RankType DEF IInv, TypeOK
<1>6. Kept' \subseteq Kept
    BY <1>4, <1>5 DEF Kept
<1>7. \A i \in Kept' : Holds(i)'
    <2> SUFFICES ASSUME NEW i \in Kept' PROVE Holds(i)'
        OBVIOUS
    <2>1. i \in Index /\ i \in DOMAIN candidates /\ Holds(i)
        BY <1>4, <1>6 DEF IInv, Findings, Kept
    <2>2. /\ severity[i] \in Severities /\ severity'[i] \in Severities
          /\ Rank[severity'[i]] <= Rank[severity[i]]
        BY <1>5, <2>1 DEF IInv, TypeOK
    <2>3. candidates[i].severity \in Severities
        BY <2>1, Proposals, NoCandidates DEF IInv, TypeOK
    <2>4. Rank[severity'[i]] <= Rank[candidates[i].severity]
        BY <2>1, <2>2, <2>3, RankType DEF Holds
    <2>5. RuleIds(candidates[i]) # {} =>
             \E r \in RuleIds(candidates[i]) : Rank[severity'[i]] <= Rank[rules[r]]
        <3> SUFFICES ASSUME RuleIds(candidates[i]) # {}
                     PROVE \E r \in RuleIds(candidates[i]) : Rank[severity'[i]] <= Rank[rules[r]]
            OBVIOUS
        <3>1. PICK r \in RuleIds(candidates[i]) : Rank[severity[i]] <= Rank[rules[r]]
            BY <2>1 DEF Holds
        <3>2. r \in DOMAIN rules
            BY <2>1, CitesInForce DEF Holds
        <3>3. rules[r] \in Severities
            BY <3>2 DEF IInv, TypeOK
        <3> QED
            <4>1. Rank[severity'[i]] \in Nat /\ Rank[severity[i]] \in Nat /\ Rank[rules[r]] \in Nat
                BY <2>2, <3>3, RankType
            <4>2. Rank[severity'[i]] <= Rank[rules[r]]
                BY <2>2, <3>1, <4>1
            <4> QED
                BY <4>2
    <2>6. /\ CheckCandidate(candidates[i])'
          /\ \A e \in evidence'[i] : ~Invented(e)'
          /\ (candidates[i].evidence \subseteq evidence[i])'
          /\ RuleIds(candidates[i])' = RuleIds(candidates[i])
        BY <2>1 DEF Holds, CheckCandidate, RuleIds, Invented
    <2> QED
        BY <2>4, <2>5, <2>6 DEF Holds
<1>8. reported = {} /\ DOMAIN checks = {}
    BY DEF IInv, Phases
<1>9. \A i \in verified' : verifier'[i] = "ended" /\ answer'[i].verdict = "keep" /\ answer'[i].sound
    BY DEF Confirmed
<1>10. Findings' /\ ViolationIsShown'
    BY <1>7, <1>8, <1>9 DEF Findings, ViolationIsShown
<1> QED
    BY <1>1, <1>2, <1>3, <1>10 DEF IInv

LEMMA GiveFeedbackStep ==
    ASSUME IInv, NEW u \in Users, NEW f \in Rated, GiveFeedback(u, f)
    PROVE  IInv'
<1> USE DEF GiveFeedback, proposal, findings, tasks, report
<1>1. TypeOK'
    BY DEF IInv, TypeOK
<1>2. Phases' /\ Costs'
    BY DEF IInv, Phases, Costs, Tasks
<1>3. Findings' /\ ViolationIsShown'
    BY FindingsStable
<1> QED
    BY <1>1, <1>2, <1>3 DEF IInv

\* A rule no reported issue cites is not called violated, and a report with a
\* violated rule has at least a medium risk.
LEMMA ChecksOfReport ==
    ASSUME NEW R, rules \in [DOMAIN rules -> Severities],
           claims \in [Rules -> {"none", "violated", "satisfied", "not_applicable"}],
           DOMAIN rules \subseteq Rules
    PROVE  /\ DOMAIN RuleChecks(R) \subseteq Rules
           /\ RuleChecks(R) \in [DOMAIN RuleChecks(R) -> Outcomes]
           /\ RiskLevel(R) \in Severities
           /\ \A r \in DOMAIN RuleChecks(R) : RuleChecks(R)[r] = "violated" =>
                 /\ RiskLevel(R) # "low"
                 /\ \E i \in R : r \in RuleIds(candidates[i])
<1>1. DOMAIN RuleChecks(R) \subseteq Rules
    BY DEF RuleChecks
<1>2. \A r \in Rules : RuleOutcome(r, R) \in Outcomes
    BY DEF RuleOutcome, Outcomes
<1>3. \A r \in Rules : RuleOutcome(r, R) = "violated" => r \in Cited(R)
    BY DEF RuleOutcome
<1>4. \A r \in DOMAIN RuleChecks(R) : r \in Rules /\ RuleChecks(R)[r] = RuleOutcome(r, R)
    BY <1>1 DEF RuleChecks
<1>5. RuleChecks(R) \in [DOMAIN RuleChecks(R) -> Outcomes]
    BY <1>2, <1>4 DEF RuleChecks
<1>6. RiskLevel(R) \in Severities
    BY DEF RiskLevel, Severities
<1>7. ASSUME NEW r \in DOMAIN RuleChecks(R), RuleChecks(R)[r] = "violated"
      PROVE  RiskLevel(R) # "low" /\ \E i \in R : r \in RuleIds(candidates[i])
    <2>1. \E s \in DOMAIN RuleChecks(R) : RuleChecks(R)[s] = "violated"
        BY <1>7
    <2>2. RiskLevel(R) # "low"
        BY <2>1 DEF RiskLevel
    <2>3. r \in Cited(R)
        BY <1>3, <1>4, <1>7
    <2> QED
        BY <2>2, <2>3 DEF Cited
<1> QED
    BY <1>1, <1>5, <1>6, <1>7

\* What is reported is left of the findings.
LEMMA ReportedAreLeft ==
    ASSUME ReviewAssumption, TypeOK, NEW out
    PROVE  Top(Merged(Kept \ out)) \subseteq Kept \ out
<1>1. IsFiniteSet(Kept \ out) /\ Ranked(Kept \ out)
    BY CandidatesRanked, FS_Subset DEF Ranked, Kept
<1>2. Merged(Kept \ out) \subseteq Kept \ out
    BY <1>1, MergedIsMerged DEF IsMerged
<1> QED
    BY <1>2 DEF Top

LEMMA ReportStep ==
    ASSUME ReviewAssumption, IInv, Report
    PROVE  IInv'
<1> USE DEF Report, proposal, tasks, Finish
<1>0. PICK out \in {IF loaded' THEN {i \in Kept : Rejected(i)} ELSE {}} :
       \E merged \in {Merged(Kept \ out)} :
          /\ dropped' = [i \in Index |-> IF i \in out THEN "feedback" ELSE dropped[i]]
          /\ reported' = Top(merged)
          /\ evidence' = [i \in Index |-> evidence[i] \cup
                UNION {evidence[j] : j \in {j \in Kept \ out : Lead(merged, j) = i}}]
    OBVIOUS
<1>1. PICK merged \in {Merged(Kept \ out)} :
          /\ dropped' = [i \in Index |-> IF i \in out THEN "feedback" ELSE dropped[i]]
          /\ reported' = Top(merged)
          /\ evidence' = [i \in Index |-> evidence[i] \cup
                UNION {evidence[j] : j \in {j \in Kept \ out : Lead(merged, j) = i}}]
    BY <1>0
<1>2. DOMAIN candidates \subseteq Index
    BY KeptInIndex DEF IInv, TypeOK
<1>3. Kept \subseteq Index
    BY <1>2 DEF Kept
<1>4. Kept' \subseteq Kept /\ reported' \subseteq Kept'
    <2>1. Kept' = Kept \ out
        BY <1>1, <1>2 DEF Kept
    <2>2. reported' \subseteq Kept \ out
        BY <1>1, ReportedAreLeft DEF IInv
    <2> QED
        BY <2>1, <2>2
<1>5. rules \in [DOMAIN rules -> Severities]
      /\ claims \in [Rules -> {"none", "violated", "satisfied", "not_applicable"}]
      /\ DOMAIN rules \subseteq Rules
    BY DEF IInv, TypeOK
<1>6. checks' = RuleChecks(reported') /\ risk' = RiskLevel(reported')
    OBVIOUS
<1>7. TypeOK'
    <2>1. evidence' \in [Index -> SUBSET UNION {c.evidence : c \in Proposed}]
        <3>1. \A i \in Index : evidence[i] \subseteq UNION {c.evidence : c \in Proposed}
            BY DEF IInv, TypeOK
        <3>2. \A i \in Index : evidence'[i] \subseteq UNION {c.evidence : c \in Proposed}
            BY <1>1, <1>3, <3>1
        <3> QED
            BY <1>1, <3>2
    <2>2. dropped' \in [Index -> {"no", "evidence", "verifier", "feedback"}]
        BY <1>1 DEF IInv, TypeOK
    <2>3. reported' \subseteq Index
        BY <1>3, <1>4
    <2>4. /\ DOMAIN checks' \subseteq Rules /\ checks' \in [DOMAIN checks' -> Outcomes]
          /\ risk' \in Severities
        BY <1>5, <1>6, ChecksOfReport
    <2>5. loaded' \in BOOLEAN
        OBVIOUS
    <2> QED
        BY <2>1, <2>2, <2>3, <2>4, <2>5 DEF IInv, TypeOK
<1>8. Phases'
    BY DEF IInv, Phases
<1>9. Costs'
    BY DEF IInv, Costs
<1>10. \A i \in Kept' : Holds(i)'
    <2> SUFFICES ASSUME NEW i \in Kept' PROVE Holds(i)'
        OBVIOUS
    <2>1. i \in Index /\ Holds(i)
        BY <1>3, <1>4 DEF IInv, Findings
    <2>2. \A j \in Kept : \A e \in evidence[j] : ~Invented(e)
        BY DEF IInv, Findings, Holds
    <2>3. \A e \in evidence'[i] : ~Invented(e)
        BY <1>1, <1>3, <1>4, <2>1, <2>2
    <2>4. candidates[i].evidence \subseteq evidence'[i]
        BY <1>1, <2>1 DEF Holds
    <2>5. CheckCandidate(candidates[i])' /\ RuleIds(candidates[i])' = RuleIds(candidates[i])
        BY <2>1 DEF Holds, CheckCandidate, RuleIds, Invented
    <2> QED
        BY <2>1, <2>3, <2>4, <2>5 DEF Holds, Invented
<1>11. Findings'
    BY <1>4, <1>10 DEF IInv, Findings
<1>12. ViolationIsShown'
    <2>1. \A r \in DOMAIN checks' : checks'[r] = "violated" =>
             risk' # "low" /\ \E i \in reported' : r \in RuleIds(candidates[i])
        BY <1>5, <1>6, ChecksOfReport
    <2>2. \A i : RuleIds(candidates[i])' = RuleIds(candidates[i])
        BY DEF RuleIds
    <2> QED
        BY <2>1, <2>2 DEF ViolationIsShown
<1> QED
    BY <1>7, <1>8, <1>9, <1>11, <1>12 DEF IInv

LEMMA NextIInv ==
    ASSUME ReviewAssumption, IInv, [Next]_vars
    PROVE  IInv'
<1>1. CASE Review
    BY <1>1, EndStep, LoadRulesStep, RunReviewerStep, ApplyVerdictsStep, ReportStep DEF Review
<1>2. CASE \E i \in Index : Verify(i)
    BY <1>2, AcquireStep, EndTaskStep DEF Verify
<1>3. CASE \E u \in Users, f \in Rated : GiveFeedback(u, f)
    BY <1>3, GiveFeedbackStep
<1>4. CASE UNCHANGED vars
    <2> USE <1>4 DEF vars, proposal, findings, tasks, report
    <2>1. TypeOK'
        BY DEF IInv, TypeOK
    <2>2. Phases' /\ Costs'
        BY DEF IInv, Phases, Costs, Tasks
    <2>3. Findings' /\ ViolationIsShown'
        BY FindingsStable
    <2> QED
        BY <2>1, <2>2, <2>3 DEF IInv
<1> QED
    BY <1>1, <1>2, <1>3, <1>4 DEF Next

-----------------------------------------------------------------------------
(* Why what is not in the report is gone: the causes, and each step.       *)

\* Whether a candidate checks out, and which are merged, do not depend on what happens
\* to the tasks and to the feedback.
LEMMA MergedStable ==
    ASSUME candidates' = candidates, severity' = severity, NEW S
    PROVE  Merged(S)' = Merged(S) /\ \A M : Top(M)' = Top(M)
BY DEF Merged, IsMerged, Top, Before, Score, SamePlace, LineEnd

\* A step that leaves the findings and the report alone, and every answer that has been
\* given.
LEMMA CausesStable ==
    ASSUME IInv, Causes, UNCHANGED <<rules, candidates, findings, reported, loaded>>,
           status' = "completed" => status = "completed", pc = "done" => pc' = "done",
           \A i \in Index : verifier[i] = "ended" => verifier'[i] = "ended" /\ answer'[i] = answer[i]
    PROVE  Causes'
<1> USE DEF findings
<1>1. DOMAIN candidates \subseteq Index
    BY KeptInIndex DEF IInv, TypeOK
<1>2. \A i \in DOMAIN candidates : CheckCandidate(candidates[i])' <=> CheckCandidate(candidates[i])
    BY DEF CheckCandidate, RuleIds, Invented
<1>3. \A i \in DOMAIN candidates :
          /\ dropped'[i] = "evidence" => ~CheckCandidate(candidates[i])'
          /\ dropped'[i] = "verifier" => verifier'[i] = "ended" /\ Refuted(i)'
          /\ dropped'[i] = "feedback" => loaded' /\ pc' = "done"
    BY <1>1, <1>2 DEF Causes, Refuted
<1>4. Kept' = Kept
    BY DEF Kept
<1>5. status' = "completed" => reported' = Top(Merged(Kept))'
    BY <1>4, MergedStable DEF Causes
<1> QED
    BY <1>3, <1>4, <1>5 DEF Causes

LEMMA InitCauses == Init => Causes
BY NoCandidates DEF Init, Causes

LEMMA NextCauses ==
    ASSUME ReviewAssumption, IInv, Causes, [Next]_vars
    PROVE  Causes'
<1>1. CASE Skip \/ Raise \/ GatherRaises
    BY <1>1, CausesStable DEF Skip, Raise, GatherRaises, Finish, proposal, tasks, report
<1>2. CASE LoadRules
    BY <1>2, NoCandidates DEF IInv, Phases, Causes, LoadRules, findings
<1>3. CASE RunReviewer
    <2>1. CASE \E output \in Outputs : candidates' = output /\ Validate(output)
                                       /\ UNCHANGED <<status, answer, verified>>
        <3>1. PICK output \in Outputs : candidates' = output /\ Validate(output)
                                        /\ UNCHANGED <<status, answer, verified>>
            BY <2>1
        <3>2. \A i \in DOMAIN output :
                 /\ dropped'[i] = IF CheckCandidate(output[i]) THEN "no" ELSE "evidence"
                 /\ CheckCandidate(output[i])' <=> CheckCandidate(output[i])
            BY <1>3, <3>1, Proposals DEF RunReviewer, Validate, CheckCandidate, RuleIds, Invented
        <3>3. status' # "completed"
            BY <1>3, <3>1 DEF RunReviewer, IInv, Phases
        <3> QED
            BY <3>1, <3>2, <3>3 DEF Causes
    <2>2. CASE Finish("failed") /\ UNCHANGED <<candidates, claims, findings, tasks>>
        BY <1>3, <2>2, CausesStable DEF RunReviewer, Finish, tasks, report
    <2> QED
        BY <1>3, <2>1, <2>2 DEF RunReviewer
<1>4. CASE ApplyVerdicts
    <2> USE <1>4 DEF ApplyVerdicts, proposal, tasks, report
    <2>1. DOMAIN candidates \subseteq Index
        BY KeptInIndex DEF IInv, TypeOK
    <2>2. \A i \in DOMAIN candidates :
             /\ CheckCandidate(candidates[i])' <=> CheckCandidate(candidates[i])
             /\ Refuted(i)' <=> Refuted(i)
        BY DEF CheckCandidate, RuleIds, Invented, Refuted
    <2>3. \A i \in DOMAIN candidates :
             dropped'[i] = IF i \in Tasks /\ Refuted(i) THEN "verifier" ELSE dropped[i]
        BY <2>1
    <2>4. status' # "completed"
        BY DEF IInv, Phases
    <2>5. \A i \in DOMAIN candidates : dropped[i] # "feedback"
        BY DEF Causes
    <2> QED
        BY <2>2, <2>3, <2>4, <2>5 DEF Causes
<1>5. CASE Report
    <2> USE <1>5 DEF Report, proposal, tasks, Finish
    <2>1. PICK out \in {IF loaded' THEN {i \in Kept : Rejected(i)} ELSE {}} :
              /\ dropped' = [i \in Index |-> IF i \in out THEN "feedback" ELSE dropped[i]]
              /\ reported' = Top(Merged(Kept \ out))
        OBVIOUS
    <2>2. DOMAIN candidates \subseteq Index
        BY KeptInIndex DEF IInv, TypeOK
    <2>3. Kept' = Kept \ out
        BY <2>1, <2>2 DEF Kept
    <2>4. reported' = Top(Merged(Kept))'
        BY <2>1, <2>3, MergedStable
    <2>5. \A i \in DOMAIN candidates :
             /\ CheckCandidate(candidates[i])' <=> CheckCandidate(candidates[i])
             /\ Refuted(i)' <=> Refuted(i)
        BY DEF CheckCandidate, RuleIds, Invented, Refuted
    <2>6. \A i \in DOMAIN candidates : dropped'[i] = IF i \in out THEN "feedback" ELSE dropped[i]
        BY <2>1, <2>2
    <2>7. \A i \in DOMAIN candidates : dropped'[i] = "feedback" => loaded' /\ pc' = "done"
        BY <2>1, <2>6 DEF Causes
    <2> QED
        BY <2>4, <2>5, <2>6, <2>7 DEF Causes
<1>6. CASE \E i \in Index : Verify(i)
    <2>1. PICK i \in Index : Verify(i)
        BY <1>6
    <2>2. CASE Acquire(i)
        BY <2>2, CausesStable DEF Acquire, IInv, TypeOK, proposal, report
    <2>3. CASE EndTask(i)
        BY <2>3, CausesStable DEF EndTask, IInv, TypeOK, proposal, report
    <2> QED
        BY <2>1, <2>2, <2>3 DEF Verify
<1>7. CASE \E u \in Users, f \in Rated : GiveFeedback(u, f)
    BY <1>7, CausesStable DEF GiveFeedback, proposal, tasks, report
<1>8. CASE UNCHANGED vars
    BY <1>8, CausesStable DEF vars, proposal, tasks, report
<1> QED
    BY <1>1, <1>2, <1>3, <1>4, <1>5, <1>6, <1>7, <1>8 DEF Next, Review

-----------------------------------------------------------------------------
(* What holds of every review.                                             *)

\* The findings, the tasks, the cost and the report agree with each other at every step
\* of _review.
THEOREM ReviewInvariant == ReviewAssumption /\ Spec => []IInv
<1> SUFFICES ASSUME ReviewAssumption PROVE Spec => []IInv
    OBVIOUS
<1>1. Init => IInv
    BY InitIInv
<1>2. IInv /\ [Next]_vars => IInv'
    BY NextIInv
<1> QED
    BY <1>1, <1>2, PTL DEF Spec

\* Every variable of a review keeps its type.
THEOREM TypeCorrect == ReviewAssumption /\ Spec => []TypeOK
<1>1. IInv => TypeOK
    BY DEF IInv
<1> QED
    BY <1>1, ReviewInvariant, PTL

\* Whatever the agents answer, every issue of a report rests on evidence that was
\* checked, and on rules in force at a severity they allow.
THEOREM ReportRestsOnChecks == ReviewAssumption /\ Spec => []ReportIsChecked
<1>1. IInv => ReportIsChecked
    <2> SUFFICES ASSUME IInv, NEW i \in reported
                 PROVE  /\ \E e \in evidence[i] : e.type # "business_rule" /\ e.ref = "verified"
                        /\ \A e \in evidence[i] : ~Invented(e)
                        /\ Rank[severity[i]] <= Rank[candidates[i].severity]
                        /\ RuleIds(candidates[i]) # {} =>
                              \E r \in RuleIds(candidates[i]) : Rank[severity[i]] <= Rank[rules[r]]
                        /\ i \in verified => answer[i].verdict = "keep" /\ answer[i].sound
        BY DEF ReportIsChecked
    <2>1. Holds(i)
        BY DEF IInv, Findings
    <2>2. \E e \in candidates[i].evidence : e.type # "business_rule" /\ e.ref = "verified"
        BY <2>1 DEF Holds, CheckCandidate
    <2>3. i \in verified => answer[i].verdict = "keep" /\ answer[i].sound
        BY DEF IInv, Findings
    <2> QED
        BY <2>1, <2>2, <2>3 DEF Holds
<1> QED
    BY <1>1, ReviewInvariant, PTL

\* Whatever the Reviewer says of the rules, one is called violated only with a reported
\* issue that cites it, and never at a low risk.
THEOREM ViolationShown == ReviewAssumption /\ Spec => []ViolationIsShown
<1>1. IInv => ViolationIsShown
    BY DEF IInv
<1> QED
    BY <1>1, ReviewInvariant, PTL

\* In whatever order the verifiers end, a completed review's stats hold the cost of
\* every run it paid for.
THEOREM CostComplete == ReviewAssumption /\ Spec => []CostAccounted
<1>1. IInv => CostAccounted
    BY DEF IInv, Costs, CostAccounted
<1> QED
    BY <1>1, ReviewInvariant, PTL

\* An issue marked wrong before the report is made is not in it, if the feedback could
\* be loaded, whatever number of developers and issues.
THEOREM WrongNotReported == ReviewAssumption /\ Spec => WrongStaysOut
<1> SUFFICES ASSUME ReviewAssumption PROVE Spec => WrongStaysOut
    OBVIOUS
<1>1. ASSUME TypeOK, [Next]_vars
      PROVE  [status' = "completed" /\ loaded' => \A i \in reported', u \in Users :
                 <<u, Fingerprint(candidates[i])>> \notin wrong]_status
    <2>1. CASE Report
        <3> SUFFICES ASSUME loaded', NEW i \in reported', NEW u \in Users
                     PROVE  <<u, Fingerprint(candidates[i])>> \notin wrong
            BY <2>1
        <3>1. PICK out \in {{j \in Kept : Rejected(j)}} : reported' = Top(Merged(Kept \ out))
            BY <2>1 DEF Report
        <3>2. ~Rejected(i)
            BY <1>1, <3>1, ReportedAreLeft
        <3> QED
            BY <3>2 DEF Rejected
    <2>2. CASE Skip \/ Raise \/ GatherRaises
        BY <2>2 DEF Skip, Raise, GatherRaises, Finish
    <2>3. CASE LoadRules \/ ApplyVerdicts
        BY <2>3 DEF LoadRules, ApplyVerdicts
    <2>4. CASE RunReviewer
        BY <2>4 DEF RunReviewer, Finish
    <2>5. CASE \E i \in Index : Verify(i)
        BY <2>5 DEF Verify, Acquire, EndTask
    <2>6. CASE \E u \in Users, f \in Rated : GiveFeedback(u, f)
        BY <2>6 DEF GiveFeedback
    <2>7. CASE UNCHANGED vars
        BY <2>7 DEF vars
    <2> QED
        BY <1>1, <2>1, <2>2, <2>3, <2>4, <2>5, <2>6, <2>7 DEF Next, Review
<1> QED
    BY <1>1, TypeCorrect, PTL DEF Spec, WrongStaysOut

\* Why each candidate was dropped, and what the report is made of, holds at every step.
THEOREM CausesInvariant == ReviewAssumption /\ Spec => [](IInv /\ Causes)
<1> SUFFICES ASSUME ReviewAssumption PROVE Spec => [](IInv /\ Causes)
    OBVIOUS
<1>1. Init => IInv /\ Causes
    BY InitIInv, InitCauses
<1>2. IInv /\ Causes /\ [Next]_vars => (IInv /\ Causes)'
    BY NextIInv, NextCauses
<1> QED
    BY <1>1, <1>2, PTL DEF Spec

\* The findings that are left, and the merged ones, can be ranked.
LEMMA MergedReport ==
    ASSUME ReviewAssumption, TypeOK
    PROVE  /\ IsMerged(Merged(Kept), Kept)
           /\ Merged(Kept) \subseteq DOMAIN candidates
           /\ IsFiniteSet(Merged(Kept)) /\ Ranked(Merged(Kept))
<1>1. Kept \subseteq DOMAIN candidates
    BY DEF Kept
<1>2. IsFiniteSet(Kept) /\ Ranked(Kept)
    BY <1>1, CandidatesRanked, FS_Subset DEF Ranked
<1>3. IsMerged(Merged(Kept), Kept)
    BY <1>2, MergedIsMerged
<1>4. Merged(Kept) \subseteq Kept
    BY <1>3 DEF IsMerged
<1>5. IsFiniteSet(Merged(Kept)) /\ Ranked(Merged(Kept))
    BY <1>2, <1>4, FS_Subset DEF Ranked
<1> QED
    BY <1>1, <1>3, <1>4, <1>5

\* Two findings overlap exactly when the code takes them to be at one place: a span is
\* never empty.
LEMMA OverlapIsSamePlace ==
    ASSUME ReviewAssumption, TypeOK, NEW i \in DOMAIN candidates, NEW j \in DOMAIN candidates
    PROVE  Overlap(i, j) <=> SamePlace(i, j)
<1>1. /\ candidates[i].first \in Nat /\ LineEnd(i) \in Nat /\ candidates[i].first <= LineEnd(i)
      /\ candidates[j].first \in Nat /\ LineEnd(j) \in Nat /\ candidates[j].first <= LineEnd(j)
    BY CandidatesRanked DEF LineEnd
<1>2. (candidates[i].first..LineEnd(i)) \cap (candidates[j].first..LineEnd(j)) # {}
         <=> candidates[i].first <= LineEnd(j) /\ candidates[j].first <= LineEnd(i)
    <2>1. ASSUME NEW a \in Nat, NEW b \in Nat, NEW c \in Nat, NEW d \in Nat, a <= b, c <= d
          PROVE  (a..b) \cap (c..d) # {} <=> a <= d /\ c <= b
        <3>1. CASE a <= d /\ c <= b
            <4>1. CASE a <= c
                BY <2>1, <3>1, <4>1
            <4>2. CASE c <= a
                BY <2>1, <3>1, <4>2
            <4> QED
                BY <4>1, <4>2
        <3>2. CASE ~(a <= d /\ c <= b)
            BY <2>1, <3>2
        <3> QED
            BY <3>1, <3>2
    <2> QED
        BY <1>1, <2>1
<1> QED
    BY <1>2 DEF Overlap, SamePlace

\* Nothing the Reviewer proposed disappears from a completed review without one of the
\* causes the code has for it, whatever the verifiers answer, however many issues
\* overlap, tie, or do not fit in the report.
THEOREM NothingVanishes == ReviewAssumption /\ Spec => []GoneForCause
<1> SUFFICES ASSUME ReviewAssumption PROVE Spec => []GoneForCause
    OBVIOUS
<1>1. IInv /\ Causes => GoneForCause
    <2> SUFFICES ASSUME IInv, Causes, status = "completed", NEW i \in DOMAIN candidates \ reported
                 PROVE  CASE dropped[i] = "evidence" -> ~CheckCandidate(candidates[i])
                          [] dropped[i] = "verifier" ->
                                \/ answer[i].verdict = "unanswered"
                                \/ answer[i].verdict = "drop" /\ answer[i].sound
                          [] dropped[i] = "feedback" -> loaded
                          [] dropped[i] = "no" ->
                                \/ \E j \in Kept : Before(j, i) /\ Overlap(j, i)
                                \/ Cardinality(reported) = MaxReported /\ \A j \in reported : Before(j, i)
        BY DEF GoneForCause
    <2>1. CASE dropped[i] \in {"evidence", "verifier", "feedback"}
        BY <2>1 DEF Causes, Refuted
    <2>2. CASE dropped[i] = "no"
        <3> DEFINE M == Merged(Kept)
        <3>1. IsMerged(M, Kept) /\ M \subseteq DOMAIN candidates /\ IsFiniteSet(M) /\ Ranked(M)
            BY MergedReport DEF IInv
        <3>2. i \in Kept /\ reported = Top(M)
            BY <2>2 DEF Kept, Causes
        <3> HIDE DEF M
        <3>3. CASE i \notin M
            <4>1. PICK j \in M : Before(j, i) /\ SamePlace(j, i)
                BY <3>1, <3>2, <3>3 DEF IsMerged
            <4>2. j \in Kept /\ Overlap(j, i)
                BY <3>1, <4>1, OverlapIsSamePlace DEF IsMerged, IInv
            <4> QED
                BY <2>2, <4>1, <4>2
        <3>4. CASE i \in M
            <4>1. Cardinality(reported) = MaxReported /\ \A j \in reported : Before(j, i)
                BY <3>1, <3>2, <3>4, CutToTop DEF ReviewAssumption
            <4> QED
                BY <2>2, <4>1
        <3> QED
            BY <3>3, <3>4
    <2>3. dropped[i] \in {"no", "evidence", "verifier", "feedback"}
        BY KeptInIndex DEF IInv, TypeOK
    <2> QED
        BY <2>1, <2>2, <2>3
<1> QED
    BY <1>1, CausesInvariant, PTL

\* A report holds at most MaxReported issues, and no two of one category share a line,
\* whatever chains of overlaps the Reviewer's answer has.
THEOREM OnePerPlace == ReviewAssumption /\ Spec => []OneIssuePerPlace
<1> SUFFICES ASSUME ReviewAssumption PROVE Spec => []OneIssuePerPlace
    OBVIOUS
<1>1. IInv /\ Causes => OneIssuePerPlace
    <2> SUFFICES ASSUME IInv, Causes PROVE OneIssuePerPlace
        OBVIOUS
    <2>1. CASE status # "completed"
        <3>1. reported = {}
            BY <2>1 DEF IInv, Phases
        <3> QED
            BY <3>1, FS_EmptySet DEF OneIssuePerPlace, ReviewAssumption
    <2>2. CASE status = "completed"
        <3> DEFINE M == Merged(Kept)
        <3>1. IsMerged(M, Kept) /\ M \subseteq DOMAIN candidates /\ IsFiniteSet(M) /\ Ranked(M)
            BY MergedReport DEF IInv
        <3>2. reported = Top(M)
            BY <2>2 DEF Causes
        <3> HIDE DEF M
        <3>3. reported \subseteq M /\ Cardinality(reported) <= MaxReported
            BY <3>1, <3>2, CutToTop DEF ReviewAssumption
        <3>4. ASSUME NEW i \in reported, NEW j \in reported, Before(j, i)
              PROVE  ~SamePlace(j, i)
            BY <3>1, <3>3, <3>4 DEF IsMerged
        <3>5. ASSUME NEW i \in reported, NEW j \in reported, i # j
              PROVE  ~Overlap(i, j)
            <4>1. ~SamePlace(i, j) \/ ~SamePlace(j, i)
                BY <3>1, <3>3, <3>4, <3>5 DEF Ranked
            <4>2. i \in DOMAIN candidates /\ j \in DOMAIN candidates
                BY <3>1, <3>3
            <4>3. SamePlace(i, j) <=> SamePlace(j, i)
                BY DEF SamePlace
            <4> QED
                BY <4>1, <4>2, <4>3, OverlapIsSamePlace DEF IInv
        <3> QED
            BY <3>3, <3>5 DEF OneIssuePerPlace
    <2> QED
        BY <2>1, <2>2
<1> QED
    BY <1>1, CausesInvariant, PTL
=============================================================================
