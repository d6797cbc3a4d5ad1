\* Pairs of results that differ in values, types, owners, secrets and failures.
SPECIFICATION Spec
CONSTANTS
    DEFAULT_SECRET_NAMES = {"k"}
    MaxResolvedPaths = 4
    MaxPathLength = 3
    Numbers = {"1"}
    Null = "null"
    Befores <- MCBefores
    Afters <- MCAfters
    OptionSets <- MCOptions
    QueryPaths <- MCQueryPaths
    Comparisons <- MCComparisons
    Policies <- MCPolicies
    Overflows <- MCOverflows
INVARIANTS
    NothingSecretShown
    PassedRulesHold
CHECK_DEADLOCK FALSE
