SPECIFICATION CpplintSpec
CONSTANTS
    Files = {"a.cpp", "b.cpp"}
    Dirs = {"src", "lib"}
    Root = "root"
    Above <- MCAbove
    Configs <- MCConfigs
    NoConfig = NoConfig
    Unreadable = Unreadable
    Texts <- MCTexts
    Flags <- MCFlags
    Errors <- MCErrors
    DefaultFilters <- MCDefaultFilters
    MaxReports = 1
    BlockLines <- MCBlockLines
    OtherLines <- MCOtherLines
    Directives <- MCDirectives
    MaxBlocks = 2
    MaxIfs = 1
    MaxOpen = 4
    Target <- MCTarget
    Home <- MCHome
    Paths <- MCPaths
    Standard <- MCStandard
    Rank <- MCRank
    OnDisk <- MCOnDisk
    HeaderExtensions = {"h", "hpp"}
    SourceExtensions = {"cc"}
    Uses <- MCUses
    MaxLines = 5
    NORMAL_TRIGGER = 2
    TEST_TRIGGER = 3
    VerboseLevels <- MCVerboseLevels
    MaxBody = 14
    Tokens <- MCTokens
    MaxTokens = 5
    Header <- MCHeader
    Alien <- MCAlien
    Places <- MCPlaces
    Control <- MCControl
    Roots <- MCRoots
    MaxDirectives = 6
    ReadIn <- MCReadIn
CHECK_DEADLOCK FALSE
INVARIANTS
    PartsTypeOK
    VerdictsAreLocal
    ExitCodeTells
    NestingIsSound
    BracketsFound
    IncludesAreSound
    CodeIsKept
    GuardIsSound
PROPERTY LongFunctionsShow
