CONSTANTS
    SENTINEL = 7
    MAX_CATEGORY_ID = 3
    Configs <- MCConfigs
    Junk <- MCJunk
    Sources <- MCSources
    Numbers <- MCNumbers
    MAX_APP_LENGTH = 4
    MAX_SIG_LENGTH = 12
SPECIFICATION LoadSpec
CHECK_DEADLOCK FALSE
INVARIANTS
    ConfigExact
    SearchesAgree
    SlotsExact
    ChainsExact
    LayoutExact
    PatternsDecode
    DumpShowsAll
