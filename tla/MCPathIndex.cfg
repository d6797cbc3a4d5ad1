\* Fifteen paths: every set of entries, in every order of insertion and deletion.
SPECIFICATION IndexSpec
CONSTANTS
    x = x
    y = y
    IndexPaths <- MCPaths
INVARIANTS
    RelatedIsExact
    OwnerIsNearest
