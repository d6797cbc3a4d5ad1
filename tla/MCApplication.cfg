\* Discovery over three directories, and loads of up to three sources and validators.
SPECIFICATION MCSpec
CONSTANTS
    Depth = 3
    Names = 2
    MaxDirectories = 2
    MaxEntryChanges = 1
    Configs <- MCConfigs
    Entry = "start"
    ParentPaths <- MCParentPaths
    Workspace = "ws"
    Missing = "Missing"
    Targets = {"s", "far"}
    Lexical <- MCLexical
    Under <- MCUnder
    DirOf <- MCDirOf
    Layouts <- MCLayouts
    Declarations <- MCDeclarations
    MaxSources = 3
    MaxProvenanceEvents = 3
    MaxDiagnostics = 2
    Reports <- MCReports
    MaxMoves = 2
INVARIANTS
    DiscoveryDecides
    SourcesAnnounced
    StagesFailTheResult
CHECK_DEADLOCK FALSE
