CONSTANTS
    AlphabetSize = 2
    PatternPool <- MCPool
    FAIL = 99
    FSAs = {"NFA", "DFA"}
    MaxPatterns = 3
    Byte <- MCByte
    xlatcase <- MCxlatcase
    Machines <- MCMachines
    MaxRowNodes = 1
    MaxZcnt = 0
    AC_MAX_INQ = 2
    MaxText = 5
SPECIFICATION SearchSpec
CHECK_DEADLOCK FALSE
INVARIANTS
    StateTracksText
    HitsSound
    OneHitPerEnd
    QueueLosesNothing
