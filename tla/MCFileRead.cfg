\* Two reads compete for one lease, with two changes by other programs at any of their awaits.
SPECIFICATION MCSpec
CONSTANTS
    inside = inside
    outside = outside
    Reads = {r1, r2}
    MaxConcurrent = 1
    MaxBytes = 1
    Chunk = 1
    Places = {inside, outside}
    Inside = {inside}
    Files <- ThreeFiles
    NoFile = none
    MaxSize = 2
    MaxChanges = 2
INVARIANTS
    LeasesMatchFiles
    ContentsAsPromised
PROPERTIES
    NoReadAfterAbort
    EveryReadEnds
CHECK_DEADLOCK FALSE
