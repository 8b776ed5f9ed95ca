-------------------------- MODULE AgentLoop_proofs --------------------------
(***************************************************************************)
(* The budgets of an agent run, for every budget and every behaviour of    *)
(* the model.  IInv is inductive; what a run promises follows from it.     *)
(***************************************************************************)
EXTENDS AgentLoop, TLAPS

\* A new round adds one reserve to what the output may come to.
LEMMA OneMoreRound == \A n \in Nat : (n + 1) * Reserve = n * Reserve + Reserve /\ n * Reserve \in Nat
  BY AgentAssumption

LEMMA InitIInv == Init => IInv
  <1> SUFFICES ASSUME Init PROVE IInv
    OBVIOUS
  <1> USE AgentAssumption DEF Init
  <1>1. TypeOK
    BY DEF TypeOK, StopReasons, Over
  <1>2. Rounds /\ Stops /\ Tokens /\ Calls
    BY DEF Rounds, Stops, Tokens, Calls, Over
  <1>3. RoundLimit /\ LastRequestForced /\ AnswerIffSubmitted /\ GivesUpAtLimit /\ InvalidAfterRepair
    BY DEF RoundLimit, LastRequestForced, AnswerIffSubmitted, GivesUpAtLimit, InvalidAfterRepair
  <1>4. TokenLimit /\ CostLimit
    BY DEF TokenLimit, CostLimit
  <1> QED BY <1>1, <1>2, <1>3, <1>4 DEF IInv

\* What _record adds keeps to the limit of the request and to the price of a call.
LEMMA RecordBounds ==
  ASSUME IInv, phase = "complete", Record
  PROVE  /\ tokens' \in Nat /\ cost' \in Nat
         /\ tokens' <= MaxOutputTokens + round * Reserve
         /\ priced => cost' < MaxCost + MaxCallCost
  <1>1. PICK t \in 0..limit, c \in 0..MaxCallCost : tokens' = tokens + t /\ cost' = cost + c
    BY DEF Record
  <1>2. t \in Nat /\ t <= limit /\ c \in Nat /\ c <= MaxCallCost
    BY AgentAssumption DEF IInv, TypeOK
  <1>3. tokens' <= MaxOutputTokens + round * Reserve
    BY <1>1, <1>2, OneMoreRound, AgentAssumption DEF IInv, TypeOK, Tokens
  <1> QED BY <1>1, <1>2, <1>3, AgentAssumption DEF IInv, TypeOK, Stops

LEMMA RunOutStep == IInv /\ RunOut => IInv'
  <1> SUFFICES ASSUME IInv, RunOut PROVE IInv'
    OBVIOUS
  <1> USE AgentAssumption DEF IInv, RunOut, Return, loopVars, stateVars
  <1>1. tokens <= MaxOutputTokens + round * Reserve
    BY DEF TokenLimit
  <1>2. TypeOK'
    BY <1>1 DEF TypeOK, StopReasons, Over
  <1>3. Rounds' /\ RoundLimit'
    BY DEF TypeOK, Rounds, RoundLimit, AtLeast
  <1>4. LastRequestForced'
    BY DEF TypeOK, Rounds, LastRequestForced, MustAnswer
  <1>5. Stops' /\ InvalidAfterRepair' /\ AnswerIffSubmitted'
    BY DEF TypeOK, Stops, InvalidAfterRepair, AnswerIffSubmitted, Over, Spent
  <1>6. Calls' /\ Tokens' /\ TokenLimit'
    BY <1>1 DEF TypeOK, Calls, Tokens, TokenLimit
  <1>7. CostLimit'
    BY <1>1 DEF TypeOK, CostLimit, Stops
  <1>8. GivesUpAtLimit'
    BY DEF TypeOK, Rounds, GivesUpAtLimit, Spent, Over
  <1> QED BY <1>2, <1>3, <1>4, <1>5, <1>6, <1>7, <1>8

LEMMA StopAtCostCapStep == IInv /\ StopAtCostCap => IInv'
  <1> SUFFICES ASSUME IInv, StopAtCostCap PROVE IInv'
    OBVIOUS
  <1> USE AgentAssumption DEF IInv, StopAtCostCap, Return, loopVars, stateVars
  <1>1. tokens <= MaxOutputTokens + round' * Reserve
    BY OneMoreRound DEF TypeOK, TokenLimit
  <1>2. TypeOK'
    BY <1>1 DEF TypeOK, StopReasons, Over
  <1>3. Rounds' /\ RoundLimit'
    BY DEF TypeOK, Rounds, RoundLimit, AtLeast
  <1>4. LastRequestForced'
    BY DEF TypeOK, Rounds, LastRequestForced, MustAnswer
  <1>5. Stops' /\ InvalidAfterRepair' /\ AnswerIffSubmitted'
    BY DEF TypeOK, Stops, InvalidAfterRepair, AnswerIffSubmitted, Over, Spent
  <1>6. Calls' /\ Tokens' /\ TokenLimit'
    BY <1>1 DEF TypeOK, Calls, Tokens, TokenLimit
  <1>7. CostLimit'
    BY <1>1 DEF TypeOK, CostLimit, Stops
  <1>8. GivesUpAtLimit'
    BY DEF TypeOK, Rounds, GivesUpAtLimit, Spent, Over
  <1> QED BY <1>2, <1>3, <1>4, <1>5, <1>6, <1>7, <1>8

LEMMA RequestStep == IInv /\ Request => IInv'
  <1> SUFFICES ASSUME IInv, Request PROVE IInv'
    OBVIOUS
  <1> USE AgentAssumption DEF IInv, Request, Return, loopVars, stateVars
  <1>1. /\ limit' \in Nat /\ tokens + limit' <= MaxOutputTokens + round' * Reserve
        /\ tokens <= MaxOutputTokens + round' * Reserve
    BY OneMoreRound DEF TypeOK, TokenLimit, OutputLimit, AtLeast, Remaining
  <1>2. TypeOK'
    BY <1>1 DEF TypeOK, StopReasons, Over
  <1>3. Rounds' /\ RoundLimit'
    BY DEF TypeOK, Rounds, RoundLimit, AtLeast
  <1>4. LastRequestForced'
    BY DEF TypeOK, Rounds, LastRequestForced, MustAnswer
  <1>5. Stops' /\ InvalidAfterRepair' /\ AnswerIffSubmitted'
    BY DEF TypeOK, Stops, InvalidAfterRepair, AnswerIffSubmitted, Over, Spent
  <1>6. Calls' /\ Tokens' /\ TokenLimit'
    BY <1>1 DEF TypeOK, Calls, Tokens, TokenLimit
  <1>7. CostLimit'
    BY <1>1 DEF TypeOK, CostLimit, Stops
  <1>8. GivesUpAtLimit'
    BY DEF TypeOK, Rounds, GivesUpAtLimit, Spent, Over
  <1> QED BY <1>2, <1>3, <1>4, <1>5, <1>6, <1>7, <1>8

LEMMA RefusalStep == IInv /\ Refusal => IInv'
  <1> SUFFICES ASSUME IInv, Refusal PROVE IInv'
    OBVIOUS
  <1> USE AgentAssumption DEF IInv, Refusal, Return, loopVars, stateVars
  <1>1. /\ tokens' \in Nat /\ cost' \in Nat
        /\ tokens' <= MaxOutputTokens + round * Reserve
        /\ priced => cost' < MaxCost + MaxCallCost
    BY RecordBounds
  <1>2. TypeOK'
    BY <1>1 DEF TypeOK, StopReasons, Over
  <1>3. Rounds' /\ RoundLimit'
    BY DEF TypeOK, Rounds, RoundLimit, AtLeast
  <1>4. LastRequestForced'
    BY DEF TypeOK, Rounds, LastRequestForced, MustAnswer
  <1>5. Stops' /\ InvalidAfterRepair' /\ AnswerIffSubmitted'
    BY DEF TypeOK, Stops, InvalidAfterRepair, AnswerIffSubmitted, Over, Spent
  <1>6. Calls' /\ Tokens' /\ TokenLimit'
    BY <1>1 DEF TypeOK, Calls, Tokens, TokenLimit
  <1>7. CostLimit'
    BY <1>1 DEF TypeOK, CostLimit, Stops
  <1>8. GivesUpAtLimit'
    BY DEF TypeOK, Rounds, GivesUpAtLimit, Spent, Over
  <1> QED BY <1>2, <1>3, <1>4, <1>5, <1>6, <1>7, <1>8

LEMMA ValidAnswerStep == IInv /\ ValidAnswer => IInv'
  <1> SUFFICES ASSUME IInv, ValidAnswer PROVE IInv'
    OBVIOUS
  <1> USE AgentAssumption DEF IInv, ValidAnswer, Return, loopVars, stateVars
  <1>1. /\ tokens' \in Nat /\ cost' \in Nat
        /\ tokens' <= MaxOutputTokens + round * Reserve
        /\ priced => cost' < MaxCost + MaxCallCost
    BY RecordBounds
  <1>2. TypeOK'
    BY <1>1 DEF TypeOK, StopReasons, Over
  <1>3. Rounds' /\ RoundLimit'
    BY DEF TypeOK, Rounds, RoundLimit, AtLeast
  <1>4. LastRequestForced'
    BY DEF TypeOK, Rounds, LastRequestForced, MustAnswer
  <1>5. Stops' /\ InvalidAfterRepair' /\ AnswerIffSubmitted'
    BY DEF TypeOK, Stops, InvalidAfterRepair, AnswerIffSubmitted, Over, Spent
  <1>6. Calls' /\ Tokens' /\ TokenLimit'
    BY <1>1 DEF TypeOK, Calls, Tokens, TokenLimit
  <1>7. CostLimit'
    BY <1>1 DEF TypeOK, CostLimit, Stops
  <1>8. GivesUpAtLimit'
    BY DEF TypeOK, Rounds, GivesUpAtLimit, Spent, Over
  <1> QED BY <1>2, <1>3, <1>4, <1>5, <1>6, <1>7, <1>8

LEMMA BadAnswerStep == IInv /\ BadAnswer => IInv'
  <1> SUFFICES ASSUME IInv, BadAnswer PROVE IInv'
    OBVIOUS
  <1> USE AgentAssumption DEF IInv, BadAnswer, Return, loopVars, stateVars
  <1>1. /\ tokens' \in Nat /\ cost' \in Nat
        /\ tokens' <= MaxOutputTokens + round * Reserve
        /\ priced => cost' < MaxCost + MaxCallCost
    BY RecordBounds
  <1>2. TypeOK'
    BY <1>1 DEF TypeOK, StopReasons, Over, AtLeast
  <1>3. Rounds' /\ RoundLimit'
    BY DEF TypeOK, Rounds, RoundLimit, AtLeast
  <1>4. LastRequestForced'
    BY DEF TypeOK, Rounds, LastRequestForced, MustAnswer
  <1>5. Stops' /\ InvalidAfterRepair' /\ AnswerIffSubmitted'
    BY DEF TypeOK, Stops, InvalidAfterRepair, AnswerIffSubmitted, Over, Spent
  <1>6. Calls' /\ Tokens' /\ TokenLimit'
    BY <1>1 DEF TypeOK, Calls, Tokens, TokenLimit
  <1>7. CostLimit'
    BY <1>1 DEF TypeOK, CostLimit, Stops
  <1>8. GivesUpAtLimit'
    BY DEF TypeOK, Rounds, GivesUpAtLimit, Spent, Over
  <1> QED BY <1>2, <1>3, <1>4, <1>5, <1>6, <1>7, <1>8

LEMMA BadAnswerAgainStep == IInv /\ BadAnswerAgain => IInv'
  <1> SUFFICES ASSUME IInv, BadAnswerAgain PROVE IInv'
    OBVIOUS
  <1> USE AgentAssumption DEF IInv, BadAnswerAgain, Return, loopVars, stateVars
  <1>1. /\ tokens' \in Nat /\ cost' \in Nat
        /\ tokens' <= MaxOutputTokens + round * Reserve
        /\ priced => cost' < MaxCost + MaxCallCost
    BY RecordBounds
  <1>2. TypeOK'
    BY <1>1 DEF TypeOK, StopReasons, Over
  <1>3. Rounds' /\ RoundLimit'
    BY DEF TypeOK, Rounds, RoundLimit, AtLeast
  <1>4. LastRequestForced'
    BY DEF TypeOK, Rounds, LastRequestForced, MustAnswer
  <1>5. Stops' /\ InvalidAfterRepair' /\ AnswerIffSubmitted'
    BY DEF TypeOK, Stops, InvalidAfterRepair, AnswerIffSubmitted, Over, Spent
  <1>6. Calls' /\ Tokens' /\ TokenLimit'
    BY <1>1 DEF TypeOK, Calls, Tokens, TokenLimit
  <1>7. CostLimit'
    BY <1>1 DEF TypeOK, CostLimit, Stops
  <1>8. GivesUpAtLimit'
    BY DEF TypeOK, Rounds, GivesUpAtLimit, Spent, Over
  <1> QED BY <1>2, <1>3, <1>4, <1>5, <1>6, <1>7, <1>8

LEMMA CallToolsStep == IInv /\ CallTools => IInv'
  <1> SUFFICES ASSUME IInv, CallTools PROVE IInv'
    OBVIOUS
  <1> USE AgentAssumption DEF IInv, CallTools, Return, loopVars, stateVars
  <1>1. /\ tokens' \in Nat /\ cost' \in Nat
        /\ tokens' <= MaxOutputTokens + round * Reserve
        /\ priced => cost' < MaxCost + MaxCallCost
    BY RecordBounds
  <1>2. TypeOK'
    BY <1>1 DEF TypeOK, StopReasons, Over
  <1>3. Rounds' /\ RoundLimit'
    BY DEF TypeOK, Rounds, RoundLimit, AtLeast
  <1>4. LastRequestForced'
    BY DEF TypeOK, Rounds, LastRequestForced, MustAnswer
  <1>5. Stops' /\ InvalidAfterRepair' /\ AnswerIffSubmitted'
    BY DEF TypeOK, Stops, InvalidAfterRepair, AnswerIffSubmitted, Over, Spent
  <1>6. Calls' /\ Tokens' /\ TokenLimit'
    BY <1>1 DEF TypeOK, Calls, Tokens, TokenLimit
  <1>7. CostLimit'
    BY <1>1 DEF TypeOK, CostLimit, Stops
  <1>8. GivesUpAtLimit'
    BY DEF TypeOK, Rounds, GivesUpAtLimit, Spent, Over
  <1> QED BY <1>2, <1>3, <1>4, <1>5, <1>6, <1>7, <1>8

LEMMA ToolsDoneStep == IInv /\ ToolsDone => IInv'
  <1> SUFFICES ASSUME IInv, ToolsDone PROVE IInv'
    OBVIOUS
  <1> USE AgentAssumption DEF IInv, ToolsDone, Return, loopVars, stateVars
  <1>1. tokens <= MaxOutputTokens + round * Reserve
    BY DEF TokenLimit
  <1>2. TypeOK'
    BY <1>1 DEF TypeOK, StopReasons, Over
  <1>3. Rounds' /\ RoundLimit'
    BY DEF TypeOK, Rounds, RoundLimit, AtLeast
  <1>4. LastRequestForced'
    BY DEF TypeOK, Rounds, LastRequestForced, MustAnswer
  <1>5. Stops' /\ InvalidAfterRepair' /\ AnswerIffSubmitted'
    BY DEF TypeOK, Stops, InvalidAfterRepair, AnswerIffSubmitted, Over, Spent
  <1>6. Calls' /\ Tokens' /\ TokenLimit'
    BY <1>1 DEF TypeOK, Calls, Tokens, TokenLimit
  <1>7. CostLimit'
    BY <1>1 DEF TypeOK, CostLimit, Stops
  <1>8. GivesUpAtLimit'
    BY DEF TypeOK, Rounds, GivesUpAtLimit, Spent, Over
  <1> QED BY <1>2, <1>3, <1>4, <1>5, <1>6, <1>7, <1>8

LEMMA TextStep == IInv /\ Text => IInv'
  <1> SUFFICES ASSUME IInv, Text PROVE IInv'
    OBVIOUS
  <1> USE AgentAssumption DEF IInv, Text, Return, loopVars, stateVars
  <1>1. /\ tokens' \in Nat /\ cost' \in Nat
        /\ tokens' <= MaxOutputTokens + round * Reserve
        /\ priced => cost' < MaxCost + MaxCallCost
    BY RecordBounds
  <1>2. TypeOK'
    BY <1>1 DEF TypeOK, StopReasons, Over
  <1>3. Rounds' /\ RoundLimit'
    BY DEF TypeOK, Rounds, RoundLimit, AtLeast
  <1>4. LastRequestForced'
    BY DEF TypeOK, Rounds, LastRequestForced, MustAnswer
  <1>5. Stops' /\ InvalidAfterRepair' /\ AnswerIffSubmitted'
    BY DEF TypeOK, Stops, InvalidAfterRepair, AnswerIffSubmitted, Over, Spent
  <1>6. Calls' /\ Tokens' /\ TokenLimit'
    BY <1>1 DEF TypeOK, Calls, Tokens, TokenLimit
  <1>7. CostLimit'
    BY <1>1 DEF TypeOK, CostLimit, Stops
  <1>8. GivesUpAtLimit'
    BY DEF TypeOK, Rounds, GivesUpAtLimit, Spent, Over
  <1> QED BY <1>2, <1>3, <1>4, <1>5, <1>6, <1>7, <1>8

LEMMA ProviderFailsStep == IInv /\ ProviderFails => IInv'
  <1> SUFFICES ASSUME IInv, ProviderFails PROVE IInv'
    OBVIOUS
  <1> USE AgentAssumption DEF IInv, ProviderFails, Return, loopVars, stateVars
  <1>1. tokens <= MaxOutputTokens + round * Reserve
    BY DEF TokenLimit
  <1>2. TypeOK'
    BY <1>1 DEF TypeOK, StopReasons, Over
  <1>3. Rounds' /\ RoundLimit'
    BY DEF TypeOK, Rounds, RoundLimit, AtLeast
  <1>4. LastRequestForced'
    BY DEF TypeOK, Rounds, LastRequestForced, MustAnswer
  <1>5. Stops' /\ InvalidAfterRepair' /\ AnswerIffSubmitted'
    BY DEF TypeOK, Stops, InvalidAfterRepair, AnswerIffSubmitted, Over, Spent
  <1>6. Calls' /\ Tokens' /\ TokenLimit'
    BY <1>1 DEF TypeOK, Calls, Tokens, TokenLimit
  <1>7. CostLimit'
    BY <1>1 DEF TypeOK, CostLimit, Stops
  <1>8. GivesUpAtLimit'
    BY DEF TypeOK, Rounds, GivesUpAtLimit, Spent, Over
  <1> QED BY <1>2, <1>3, <1>4, <1>5, <1>6, <1>7, <1>8

LEMMA TimeoutStep == IInv /\ Timeout => IInv'
  <1> SUFFICES ASSUME IInv, Timeout PROVE IInv'
    OBVIOUS
  <1> USE AgentAssumption DEF IInv, Timeout, Return, loopVars, stateVars
  <1>1. tokens <= MaxOutputTokens + round * Reserve
    BY DEF TokenLimit
  <1>2. TypeOK'
    BY <1>1 DEF TypeOK, StopReasons, Over
  <1>3. Rounds' /\ RoundLimit'
    BY DEF TypeOK, Rounds, RoundLimit, AtLeast
  <1>4. LastRequestForced'
    BY DEF TypeOK, Rounds, LastRequestForced, MustAnswer
  <1>5. Stops' /\ InvalidAfterRepair' /\ AnswerIffSubmitted'
    BY DEF TypeOK, Stops, InvalidAfterRepair, AnswerIffSubmitted, Over, Spent
  <1>6. Calls' /\ Tokens' /\ TokenLimit'
    BY <1>1 DEF TypeOK, Calls, Tokens, TokenLimit
  <1>7. CostLimit'
    BY <1>1 DEF TypeOK, CostLimit, Stops
  <1>8. GivesUpAtLimit'
    BY DEF TypeOK, Rounds, GivesUpAtLimit, Spent, Over
  <1> QED BY <1>2, <1>3, <1>4, <1>5, <1>6, <1>7, <1>8

LEMMA NextIInv == IInv /\ [Next]_vars => IInv'
  <1>1. IInv /\ Next => IInv'
    BY RunOutStep, StopAtCostCapStep, RequestStep, RefusalStep, ValidAnswerStep, BadAnswerStep,
       BadAnswerAgainStep, CallToolsStep, ToolsDoneStep, TextStep, ProviderFailsStep, TimeoutStep
       DEF Next, Reply
  <1>2. IInv /\ UNCHANGED vars => IInv'
    BY DEF vars, loopVars, stateVars, IInv, TypeOK, Rounds, Stops, Tokens, Calls, RoundLimit,
       LastRequestForced, TokenLimit, CostLimit, AnswerIffSubmitted, GivesUpAtLimit,
       InvalidAfterRepair, Spent
  <1> QED BY <1>1, <1>2

-----------------------------------------------------------------------------
\* The inductive invariant holds of every run of an agent.
THEOREM AgentInvariant == Spec => []IInv
  BY InitIInv, NextIInv, PTL DEF Spec

\* The loop's variables stay within their types, the output limit of a request among
\* them: it is never negative.
THEOREM TypeCorrect == Spec => []TypeOK
  <1>1. IInv => TypeOK
    BY DEF IInv
  <1> QED BY <1>1, AgentInvariant, PTL

\* max_rounds + 1 requests at the most, the last of them for a repair only.
THEOREM RoundsBounded == Spec => []RoundLimit
  <1>1. IInv => RoundLimit
    BY DEF IInv
  <1> QED BY <1>1, AgentInvariant, PTL

\* The last request a run may make forces the final answer.
THEOREM AnswerIsForced == Spec => []LastRequestForced
  <1>1. IInv => LastRequestForced
    BY DEF IInv
  <1> QED BY <1>1, AgentInvariant, PTL

\* Output tokens exceed the budget by at most the reserve once a round.
THEOREM TokensBounded == Spec => []TokenLimit
  <1>1. IInv => TokenLimit
    BY DEF IInv
  <1> QED BY <1>1, AgentInvariant, PTL

\* A priced run costs less than its cap and one more call.
THEOREM CostBounded == Spec => []CostLimit
  <1>1. IInv => CostLimit
    BY DEF IInv
  <1> QED BY <1>1, AgentInvariant, PTL

\* A run has a validated answer exactly when its stop reason is "submitted".
THEOREM AnswerMatchesStop == Spec => []AnswerIffSubmitted
  <1>1. IInv => AnswerIffSubmitted
    BY DEF IInv
  <1> QED BY <1>1, AgentInvariant, PTL

\* "budget_exhausted" means the round limit or the cost cap, nothing else.
THEOREM GivesUpOnlyAtLimit == Spec => []GivesUpAtLimit
  <1>1. IInv => GivesUpAtLimit
    BY DEF IInv
  <1> QED BY <1>1, AgentInvariant, PTL

\* No request leaves a tool call unanswered, and no run is failed for its output
\* before the model was asked to correct it.
THEOREM ConversationIsSound == Spec => [](AllAnswered /\ InvalidAfterRepair)
  <1>1. IInv => AllAnswered /\ InvalidAfterRepair
    BY DEF IInv, Calls, AllAnswered
  <1> QED BY <1>1, AgentInvariant, PTL
=============================================================================
