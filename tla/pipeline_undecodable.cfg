SPECIFICATION FairSpec
CONSTANTS
    Workers = {w1}
    NoWorker = NoWorker
    NumMessages = 2
    Malformed = {}
    Undecodable = {1}
    Prefetch = 1
    MaxRuns = 3
    MaxFaults = 0
    MaxReaders = 0
    FaultKinds = {}
PROPERTIES DeliveryFinished
CHECK_DEADLOCK FALSE
