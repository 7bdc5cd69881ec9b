CONSTANTS
    AlphabetSize = 6
    States = {0, 7, 8}
    MaxRowNodes = 3
    MaxZcnt = 1
    FAIL = 255
SPECIFICATION Spec
CHECK_DEADLOCK FALSE
INVARIANTS
    DFADecodes
    NFADecodes
