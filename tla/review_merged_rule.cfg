SPECIFICATION Spec
CONSTANTS
    FileRules <- MCFileRules
    StoredRules <- MCStoredRules
    Applicable <- MCApplicable
    Outputs <- MCOutputs
    Claims <- MCClaims
    VerifierEnabled = {TRUE, FALSE}
    Concurrency = 2
    MaxReported = 2
    Users = {"dev"}
    Rated <- MCRated
INVARIANTS NotConfirmedMeansNone
