------------------------------ MODULE AgentLoop ------------------------------
(***************************************************************************)
(* run_agent: one agent's conversation with the model (agents/runtime).    *)
(* The loop asks for a completion, looks at what came back, and either     *)
(* ends the run or asks again.  What the model returns, and what it costs, *)
(* is chosen by the environment; the provider keeps to the output limit of *)
(* the request and, when final_tool is forced, calls no other tool.        *)
(*                                                                         *)
(* Money is counted in units small enough that every amount is a whole     *)
(* number; WindDown is _COST_WIND_DOWN of the cap.                         *)
(***************************************************************************)
EXTENDS Integers

CONSTANTS
    MaxRounds,          \* AgentBudget.max_rounds
    MaxOutputTokens,    \* AgentBudget.max_output_tokens
    Reserve,            \* _FINAL_ANSWER_RESERVE_TOKENS
    MaxCost,            \* AgentBudget.max_cost_usd
    WindDown,           \* max_cost_usd * _COST_WIND_DOWN
    MaxCallCost,        \* bound: what one completion costs
    MaxCalls            \* bound: tool calls in one turn

ASSUME AgentAssumption ==
    /\ MaxRounds \in Nat \ {0} /\ MaxOutputTokens \in Nat /\ Reserve \in Nat
    /\ MaxCost \in Nat /\ WindDown \in 0..MaxCost
    /\ MaxCallCost \in Nat /\ MaxCalls \in Nat \ {0}

VARIABLES
    priced,         \* price_for(model) is not None
    phase,          \* "loop": top of the while; "complete", "tools": awaiting
    round,          \* round_number
    lastRound,      \* last_round
    tokens,         \* state.usage.output_tokens
    cost,           \* what the calls cost, whether or not the price is known
    forceFinal,     \* force_final
    repairUsed,     \* repair_used
    output,         \* state.output is a validated answer
    stop,           \* state.stop_reason
    limit,          \* max_output_tokens of the last request
    unanswered,     \* tool calls in the conversation without a result
    forced,         \* history: some request forced final_tool
    repairAsked     \* history: a request was made after a bad answer

loopVars == <<lastRound, forceFinal, repairUsed>>
stateVars == <<priced, tokens, cost, output, stop>>
vars == <<phase, round, loopVars, stateVars, limit, unanswered, forced, repairAsked>>

StopReasons == {"budget_exhausted", "timeout", "provider_error", "refused", "submitted",
                "invalid_output"}
Over == {"returned", "raised"}

TypeOK ==
    /\ priced \in BOOLEAN
    /\ phase \in {"loop", "complete", "tools"} \cup Over
    /\ round \in Nat
    /\ lastRound \in Nat
    /\ tokens \in Nat
    /\ cost \in Nat
    /\ forceFinal \in BOOLEAN
    /\ repairUsed \in BOOLEAN
    /\ output \in BOOLEAN
    /\ stop \in StopReasons
    /\ limit \in Nat
    /\ unanswered \in Nat
    /\ forced \in BOOLEAN
    /\ repairAsked \in BOOLEAN

Init ==
    /\ priced \in BOOLEAN
    /\ phase = "loop"
    /\ round = 0
    /\ lastRound = MaxRounds
    /\ tokens = 0
    /\ cost = 0
    /\ forceFinal = FALSE
    /\ repairUsed = FALSE
    /\ output = FALSE
    /\ stop = "budget_exhausted"
    /\ limit = 0
    /\ unanswered = 0
    /\ forced = FALSE
    /\ repairAsked = FALSE

-----------------------------------------------------------------------------
(* The top of the loop.                                                    *)

AtLeast(a, b) == IF a >= b THEN a ELSE b

\* state.cost_usd is None when the price is unknown, and None counts as nothing.
SpentIgnored == 0               \* mutation: the cost is not looked at
Spent == IF priced THEN cost ELSE 0
Remaining == MaxOutputTokens - tokens

\* Mutation: a stop reason of its own that is no StopReason.
RunOutRenamed ==
    /\ phase = "loop" /\ round >= lastRound
    /\ phase' = "returned" /\ stop' = "max_rounds"
    /\ UNCHANGED <<round, loopVars, priced, tokens, cost, output, limit, unanswered, forced, repairAsked>>

\* The rounds are used up: the run keeps its first stop reason.
RunOut ==
    /\ phase = "loop" /\ round >= lastRound
    /\ phase' = "returned"
    /\ UNCHANGED <<round, loopVars, stateVars, limit, unanswered, forced, repairAsked>>

\* The cost cap ends the run before the round's request.
StopAtCostCap ==
    /\ phase = "loop" /\ round < lastRound
    /\ Spent >= MaxCost
    /\ round' = round + 1
    /\ phase' = "returned"
    /\ UNCHANGED <<loopVars, stateVars, limit, unanswered, forced, repairAsked>>

\* The final answer may use the reserve when less than that is left.
OutputLimitPerCall == MaxOutputTokens           \* mutation: the budget counts per call
OutputLimit == AtLeast(Remaining, Reserve)

MustAnswerLate == round >= MaxRounds \/ Remaining < Reserve \/ Spent >= WindDown \* mutation: off by one
MustAnswer == round + 1 >= MaxRounds \/ Remaining < Reserve \/ Spent >= WindDown

\* The request of the next round.
Request ==
    /\ phase = "loop" /\ round < lastRound
    /\ Spent < MaxCost
    /\ round' = round + 1
    /\ forceFinal' = (forceFinal \/ MustAnswer)
    /\ limit' = OutputLimit
    /\ phase' = "complete"
    /\ forced' = (forced \/ forceFinal')
    /\ repairAsked' = (repairAsked \/ repairUsed)
    /\ UNCHANGED <<lastRound, repairUsed, stateVars, unanswered>>

-----------------------------------------------------------------------------
(* What comes back.                                                        *)

\* _record: the completion's usage is added up before anything looks at it.
Record ==
    \E t \in 0..limit, c \in 0..MaxCallCost : tokens' = tokens + t /\ cost' = cost + c

Return(reason) == phase' = "returned" /\ stop' = reason

Refusal ==
    /\ phase = "complete"
    /\ Record
    /\ Return("refused")
    /\ UNCHANGED <<round, loopVars, priced, output, limit, unanswered, forced, repairAsked>>

\* The turn calls final_tool and the arguments validate.
ValidAnswer ==
    /\ phase = "complete"
    /\ Record
    /\ output' = TRUE
    /\ Return("submitted")
    /\ UNCHANGED <<round, loopVars, priced, limit, unanswered, forced, repairAsked>>

\* Mutation: only the bad answer itself is answered, not the turn's other calls.
BadAnswerAlone ==
    /\ phase = "complete" /\ ~repairUsed
    /\ Record
    /\ repairUsed' = TRUE
    /\ forceFinal' = TRUE
    /\ lastRound' = AtLeast(lastRound, round + 1)
    /\ phase' = "loop"
    /\ \E n \in 1..MaxCalls : unanswered' = n - 1
    /\ UNCHANGED <<round, priced, output, stop, limit, forced, repairAsked>>

\* Mutation: the model is corrected as often as it takes.
BadAnswerRepeats ==
    /\ phase = "complete"
    /\ Record
    /\ repairUsed' = TRUE
    /\ forceFinal' = TRUE
    /\ lastRound' = AtLeast(lastRound, round + 1)
    /\ phase' = "loop"
    /\ UNCHANGED <<round, priced, output, stop, limit, unanswered, forced, repairAsked>>

\* The arguments do not validate, for the first time: every call of the turn is
\* answered and the model is made to answer again, on an extra round if need be.
BadAnswer ==
    /\ phase = "complete" /\ ~repairUsed
    /\ Record
    /\ repairUsed' = TRUE
    /\ forceFinal' = TRUE
    /\ lastRound' = AtLeast(lastRound, round + 1)
    /\ phase' = "loop"
    /\ UNCHANGED <<round, priced, output, stop, limit, unanswered, forced, repairAsked>>

\* Mutation: the invalid answer is kept all the same.
BadAnswerAgainKept ==
    /\ phase = "complete" /\ repairUsed
    /\ Record
    /\ output' = TRUE
    /\ Return("invalid_output")
    /\ UNCHANGED <<round, loopVars, priced, limit, unanswered, forced, repairAsked>>

\* And for the second time.
BadAnswerAgain ==
    /\ phase = "complete" /\ repairUsed
    /\ Record
    /\ Return("invalid_output")
    /\ UNCHANGED <<round, loopVars, priced, output, limit, unanswered, forced, repairAsked>>

\* Other tools are called: they run concurrently.
CallTools ==
    /\ phase = "complete" /\ ~forceFinal
    /\ Record
    /\ \E n \in 1..MaxCalls : unanswered' = n
    /\ phase' = "tools"
    /\ UNCHANGED <<round, loopVars, priced, output, stop, limit, forced, repairAsked>>

\* ToolExecutor.execute never raises, so the gather answers every call.
ToolsDone ==
    /\ phase = "tools"
    /\ unanswered' = 0
    /\ phase' = "loop"
    /\ UNCHANGED <<round, loopVars, stateVars, limit, forced, repairAsked>>

\* Text only, or nothing at all when the output limit cut the turn short.
Text ==
    /\ phase = "complete"
    /\ Record
    /\ forceFinal' = TRUE
    /\ phase' = "loop"
    /\ UNCHANGED <<round, lastRound, repairUsed, priced, output, stop, limit, unanswered, forced, repairAsked>>

\* ProviderError ends the run; any other exception of the client leaves run_agent.
ProviderFails ==
    /\ phase = "complete"
    /\ \/ Return("provider_error")
       \/ phase' = "raised" /\ UNCHANGED stop
    /\ UNCHANGED <<round, loopVars, priced, tokens, cost, output, limit, unanswered, forced, repairAsked>>

\* Mutation: the time limit covers the model's calls only.
TimeoutOfModel ==
    /\ phase = "complete"
    /\ Return("timeout")
    /\ UNCHANGED <<round, loopVars, priced, tokens, cost, output, limit, unanswered, forced, repairAsked>>

\* asyncio.timeout cancels whichever await the run is in.  The usage of a
\* completion that was on its way is never seen.
Timeout ==
    /\ phase \in {"complete", "tools"}
    /\ Return("timeout")
    /\ UNCHANGED <<round, loopVars, priced, tokens, cost, output, limit, unanswered, forced, repairAsked>>

Reply == Refusal \/ ValidAnswer \/ BadAnswer \/ BadAnswerAgain \/ CallTools \/ Text
Next == RunOut \/ StopAtCostCap \/ Request \/ Reply \/ ToolsDone \/ ProviderFails \/ Timeout

Spec == Init /\ [][Next]_vars

\* The loop's own steps are taken and the timer fires; that the model or a tool
\* ever answers is not assumed.
FairSpec == Spec /\ WF_vars(RunOut \/ StopAtCostCap \/ Request) /\ WF_vars(Timeout)

-----------------------------------------------------------------------------
(* What a run promises.                                                    *)

\* However the model behaves, it is asked at most once more than max_rounds, and
\* the extra time only to repair a bad answer (last_round).
RoundLimit ==
    /\ round <= MaxRounds + 1
    /\ phase = "complete" /\ round > MaxRounds => repairUsed

\* The last request a run may make forces final_tool, and so does every request
\* after a bad answer: no run uses its rounds up reading.
LastRequestForced ==
    phase = "complete" /\ (round >= MaxRounds \/ repairUsed) => forceFinal

\* Output tokens pass the budget by the reserve of one answer a round at the most.
TokenLimit == tokens <= MaxOutputTokens + round * Reserve

\* With a known price the cap is passed by less than one completion.
CostLimit == priced /\ MaxCost > 0 => cost < MaxCost + MaxCallCost

\* A run has an answer exactly when it says it was submitted, whichever of the
\* timeout, the caps and the repair came first.
AnswerIffSubmitted == output <=> stop = "submitted"

\* A run gives up as "budget_exhausted" only at its round limit or its cost cap.
GivesUpAtLimit ==
    phase = "returned" /\ stop = "budget_exhausted" => round >= MaxRounds \/ Spent >= MaxCost

\* Every call of a turn is answered before the next request, or the API rejects it.
AllAnswered == phase = "complete" => unanswered = 0

\* A run fails as "invalid_output" only after the model was asked to correct itself.
InvalidAfterRepair == stop = "invalid_output" => repairAsked

\* The run ends, whether or not the model or a tool ever answers.
RunEnds == <>(phase \in Over)

\* "Near the limit the model is forced to call final_tool": a run that gives up was
\* forced to answer before.
GivesUpAfterForcing ==
    phase = "returned" /\ stop = "budget_exhausted" => forced

-----------------------------------------------------------------------------
(* The inductive invariant.                                                *)

Rounds ==
    /\ round <= lastRound
    /\ lastRound \in {MaxRounds, MaxRounds + 1}
    /\ ~repairUsed => lastRound = MaxRounds
    /\ phase = "complete" => round > 0
    /\ repairUsed => forceFinal

Stops ==
    /\ phase \notin Over => stop = "budget_exhausted"
    /\ phase = "complete" /\ priced => cost < MaxCost
    /\ phase = "complete" /\ repairUsed => repairAsked

Tokens ==
    phase = "complete" => tokens + limit <= MaxOutputTokens + round * Reserve

Calls == phase \in {"loop", "complete"} => unanswered = 0

\* What the top of the loop has established for the request under way and for the
\* next round, whatever came back so far (strengthens the invariants above).
IInv ==
    /\ TypeOK /\ Rounds /\ Stops /\ Tokens /\ Calls
    /\ RoundLimit /\ LastRequestForced /\ TokenLimit /\ CostLimit /\ AnswerIffSubmitted
    /\ GivesUpAtLimit /\ InvalidAfterRepair
=============================================================================
