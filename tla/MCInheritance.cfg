\* Up to four declarations and seven bytes, two edits while they are read.
SPECIFICATION InheritanceSpec
CONSTANTS
    Paths <- MCPaths
    Missing = "none"
    Layouts <- MCLayouts
    Documents <- MCDocuments
    Disks <- MCDisks
    Entry = "child"
    Workspace <- MCWorkspace
    EntryRoot <- MCPaths
    MaxDeclarations = 4
    MaxDeclarationBytes = 7
    MaxFileBytes = 3
    DefaultMaxSources = 4
    WithProfile = TRUE
    MaxEdits = 2
INVARIANTS
    ParentsFirst
    CycleIsReal
    ReadsAnnounced
CHECK_DEADLOCK FALSE
