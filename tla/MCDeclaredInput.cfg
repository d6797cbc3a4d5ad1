\* Declarations one edit away from a good one, read, given a profile, and loaded.
SPECIFICATION InputSpec
CONSTANTS
    MaxDiagnostics = 3
    DefaultSources = 2
    DefaultEvents = 2
    MinReportBytes = 4
    MaxProfiles = 2
    ProfileNames = {"prod", "test"}
    NamesWithEquals = {"n=", "--x=1.5", "--x=12", "--x="}
    RawValues = {"12", "1.5", "true", "text", "", "-5", "z", "--x", "-y", "--x=1.5", "--x=12", "--x="}
    Integers_ = {"12", "-5"}
    UnsafeIntegers = {}
    Decimals = {"12", "-5", "1.5"}
    FiniteNumbers = {"12", "-5", "1.5", ""}
    Booleans = {"true"}
    JsonTexts = {"12", "-5", "1.5", "true"}
    Blank = ""
    ValueTokens = {"12", "text", "z", "-5", "1.5", ""}
    Assigned <- MCAssigned
    Prefixed = {"--x", "-y", "other"}
    UnsafeSegments = {"__proto__"}
    ParsedDocuments <- MCDocuments
    NoProfile = "none"
    Environments <- MCEnvironments
    Arguments <- MCArguments
    MaxEntries = 4
INVARIANTS
    NormalisedIsValid
    InputsAsMapped
PROPERTY
    VerdictIsExact
CHECK_DEADLOCK FALSE
