\* The declaration and one source in one directory; what the documentation says of watch errors.
SPECIFICATION Spec
CONSTANTS
    c = c
    s = s
    t = t
    d1 = d1
    d2 = d2
    m = m
    n = n
    Paths <- MCTwoPaths
    ConfigPath = c
    MaxTracked = 2
    Dirs = {d1}
    Names = {m, n}
    Layouts <- MCOneLayout
    Delay = 1
    MaxWait = 2
PROPERTIES
    WatchErrorIsEmitted
CHECK_DEADLOCK FALSE
