SPECIFICATION Spec
CONSTANTS
    MaxRounds = 3
    MaxOutputTokens = 4
    Reserve = 2
    MaxCost = 5
    WindDown = 4
    MaxCallCost = 3
    MaxCalls = 2
INVARIANTS GivesUpAfterForcing
CHECK_DEADLOCK FALSE
