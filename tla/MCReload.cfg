\* Three refresh() calls: one runs, another joins its successor, a third follows it.
SPECIFICATION FairSpec
CONSTANTS
    Requests <- ThreeRequests
    HasObserver = TRUE
INVARIANTS
    NoOverlappingLoads
    NoOverlappingObservers
    NextLoadAnswers
    CloseAnswersEverything
    ObserverUpToDate
PROPERTIES
    SilentAfterClose
    CountRelativeToLastEvent
    ImplementsService
    EveryRefreshAnswered
    ObserverCatchesUp
CHECK_DEADLOCK FALSE
