SPECIFICATION FairSpec
CONSTANTS
    Workers = {w1}
    NoWorker = NoWorker
    NumMessages = 1
    Malformed = {}
    Undecodable = {}
    Prefetch = 1
    MaxRuns = 2
    MaxFaults = 1
    MaxReaders = 0
    FaultKinds = {"crash"}
PROPERTIES AnnouncedReviewEnds
CHECK_DEADLOCK FALSE
