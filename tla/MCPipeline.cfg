\* Two loaders, two validators and the output validator; two issues and four events fit.
SPECIFICATION FairSpec
CONSTANTS
    Loaders = 2
    Validators = 2
    MaxProvenanceEvents = 4
    MaxDiagnostics = 2
    Reports <- MCReports
INVARIANTS
    FaultsFailTheResult
    AbortReportedOnce
PROPERTIES
    NoCallAfterAbort
    AbortEndsTheOperation
CHECK_DEADLOCK FALSE
