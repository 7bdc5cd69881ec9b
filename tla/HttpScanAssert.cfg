CONSTANTS
    SENTINEL = 100
    Sigs <- MCSigs
    HeaderIds <- MCHeaderIds
    Pointers <- MCPointers
    RegexIds <- MCUnknownName
    PATTERN_SIZE = 4
    EXP_ARRAY_SIZE = 2
    MaxMatches = 2
    MaxRegexMatches = 2
    MaxOffset = 2
SPECIFICATION Spec
CHECK_DEADLOCK FALSE
INVARIANTS
    StartNotNegative
