SPECIFICATION FairSpec
CONSTANTS
    Workers = {w1}
    NoWorker = NoWorker
    NumMessages = 3
    Malformed = {2}
    Undecodable = {}
    Prefetch = 1
    MaxRuns = 4
    MaxFaults = 1
    MaxReaders = 1
    FaultKinds = {"crash", "loss"}
INVARIANTS TypeOK CheckoutLifetime
PROPERTIES LatestMovesForward EveryMessageSettled
CHECK_DEADLOCK FALSE
