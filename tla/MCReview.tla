------------------------------ MODULE MCReview ------------------------------
(* Two rules, one of them in the file and in the store; candidates that     *)
(* overlap in a chain, tie, cite rules, or do not check out.                *)
EXTENDS ReviewFlow

MCFileRules == [r \in {"R1"} |-> "low"]
MCStoredRules == [r \in {"R1", "R2"} |-> IF r = "R1" THEN "high" ELSE "medium"]
MCApplicable == {"R2"}

Rule(r) == [type |-> "business_rule", ref |-> r]
Other(how) == [type |-> "other", ref |-> how]

Issue(title, category, sev, confidence, first, last, ev) ==
    [title |-> title, category |-> category, severity |-> sev, confidence |-> confidence,
     file |-> "f", exists |-> TRUE, first |-> first, last |-> last, evidence |-> ev]

Bug == Issue("bug", "correctness", "medium", 2, 1, 2, {Other("verified")})
Wide == Issue("wide", "correctness", "high", 1, 2, 3, {Other("verified"), Other("unverified")})
\* Its ends are given in the wrong order: it is about line 3 alone.
End == Issue("end", "correctness", "high", 2, 3, 2, {Other("verified")})
Tax == Issue("tax", "business_rule", "high", 2, 1, 1, {Rule("R1"), Other("verified")})
Both == Issue("both", "business_rule", "high", 1, 1, 2, {Rule("R2"), Rule("R1"), Other("verified")})
Refund == Issue("refund", "business_rule", "medium", 1, 1, 1, {Rule("R2"), Other("verified")})
Made == Issue("made", "security", "high", 2, 1, 1, {Other("invented"), Other("verified")})
Said == Issue("said", "business_rule", "high", 2, 3, 3, {Rule("R1"), Other("unverified")})
Gone == [Bug EXCEPT !.exists = FALSE]

MCOutputs == {<<>>, <<Made, Gone>>, <<Said, Bug>>, <<End, Wide, Bug>>, <<Tax, Refund>>, <<Both, Bug, End>>}
MCRated == {Fingerprint(Wide)}

MCClaims == {[r \in {"R1", "R2"} |-> "violated"],
             [r \in {"R1", "R2"} |-> IF r = "R1" THEN "none" ELSE "satisfied"]}
=============================================================================
