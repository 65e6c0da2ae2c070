SPECIFICATION Spec
CONSTANTS
    Files = {"a.cpp", "b.cpp"}
    Dirs = {"src", "lib"}
    Root = "root"
    Above <- MCAbove
    Configs <- MCConfigs
    NoConfig = NoConfig
    Unreadable = Unreadable
    Texts <- MCTexts
    Flags <- MCFlags
    Errors <- MCErrors
    DefaultFilters <- MCDefaultFilters
    MaxReports = 1
CHECK_DEADLOCK FALSE
INVARIANT LengthOfNearest
