SPECIFICATION Spec
CONSTANTS
    Paths <- MCPaths
    NoPath <- MCNoPath
    GeneratedPaths <- MCGenerated
    MaxLineLevel = 20
    Requests <- MCRequests
    NoName <- MCNoName
    NoId <- MCNoId
    NoLine <- MCNoLine
    Limits <- MCLimits
    NoteSize = 2
    ToolLimits <- MCToolLimits
    Globs <- MCGlobs
INVARIANT TypeOK
INVARIANT EdgesRight
INVARIANT OmissionsAnnounced
INVARIANT AnswersRight
CHECK_DEADLOCK FALSE
