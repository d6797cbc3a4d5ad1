\* Three paths in two directories; debounce of one tick, at most two of waiting;
\* nothing outside the program has to happen.
SPECIFICATION FairSpec
CONSTANTS
    c = c
    s = s
    t = t
    d1 = d1
    d2 = d2
    m = m
    n = n
    Paths <- MCPaths
    ConfigPath = c
    MaxTracked = 3
    Dirs = {d1, d2}
    Names = {m, n}
    Layouts <- MCLayouts
    Delay = 1
    MaxWait = 2
INVARIANTS
    NothingLeaksAfterClose
    NoEventForgotten
    WatchedBeforeRead
    GoodStaysWatched
PROPERTIES
    ReturnedAlive
    EventsAreLoaded
CHECK_DEADLOCK FALSE
