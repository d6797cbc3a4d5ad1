\* Three sources of up to two priorities over four paths; every budget can be exceeded.
SPECIFICATION Spec
CONSTANTS
    Paths <- MCPaths
    Contents <- MCContents
    Decoded <- MCDecoded
    Priorities = {1, 2}
    MaxSources = 3
    ArrayKeys = 2
    MaxKeyCount = 4
    MaxDiagnostics = 2
    MaxProvenanceEvents = 5
    MaxResolvedPaths = 1
INVARIANTS
    MergeIsDeepMerge
    KeyCountIsExact
    ErrorsSurvive
CHECK_DEADLOCK FALSE
