SPECIFICATION FairSpec
CONSTANTS
    RuleIds = {r1, r2}
    FileIds = {}
    Handlers = {h1, h2}
    NoRule = NoRule
    Idle = Idle
INVARIANTS TypeOK ActiveIsAccepted MiningIsExact
PROPERTIES MinerFillsGaps MiningEnds
