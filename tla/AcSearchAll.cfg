CONSTANTS
    AlphabetSize = 2
    PatternPool <- MCPool
    FAIL = 99
    FSAs = {"DFA"}
    MaxPatterns = 2
    Byte <- MCByte
    xlatcase <- MCxlatcase
    Machines <- MCProgram
    MaxRowNodes = 1
    MaxZcnt = 0
    AC_MAX_INQ = 2
    MaxText = 4
SPECIFICATION SearchSpec
CHECK_DEADLOCK FALSE
INVARIANTS
    FindsAllOccurrences
