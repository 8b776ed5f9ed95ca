SPECIFICATION FairSpec
CONSTANTS
    MaxRounds = 3
    MaxOutputTokens = 4
    Reserve = 2
    MaxCost = 5
    WindDown = 4
    MaxCallCost = 3
    MaxCalls = 2
INVARIANTS TypeOK RoundLimit LastRequestForced TokenLimit CostLimit AnswerIffSubmitted AllAnswered
PROPERTIES RunEnds
CHECK_DEADLOCK FALSE
