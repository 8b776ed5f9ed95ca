SPECIFICATION Spec
CONSTANTS
    Paths <- MCPaths
    NoPath <- MCNoPath
    GeneratedPaths <- MCGenerated
    MaxLineLevel = 12
    Commits <- MCCommits
    NoCommit <- MCNoCommit
    CloneDepth = 2
    FetchDepths <- MCFetchDepths
    Answers <- MCAnswers
    Reports <- MCReports
    MaxTrouble = 2
    Scenarios <- MCScenarios
INVARIANT TypeOK
INVARIANT ResultFaithful
INVARIANT MarksExact
INVARIANT MergeBaseRight
PROPERTY StageEnds
CHECK_DEADLOCK FALSE
