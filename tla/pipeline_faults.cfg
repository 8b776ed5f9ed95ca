SPECIFICATION FairSpec
CONSTANTS
    Workers = {w1, w2}
    NoWorker = NoWorker
    NumMessages = 2
    Malformed = {}
    Undecodable = {}
    Prefetch = 1
    MaxRuns = 3
    MaxFaults = 1
    MaxReaders = 0
    FaultKinds = {"crash", "loss"}
INVARIANTS AckMeansSaved ReviewFollowsResult OneCustodian RowsPerFault
PROPERTIES OutcomeStands ImplementsContract
SYMMETRY WorkerSymmetry
CHECK_DEADLOCK FALSE
