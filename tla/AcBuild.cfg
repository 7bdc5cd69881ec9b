CONSTANTS
    AlphabetSize = 2
    PatternPool <- MCPool
    FSAs = {"NFA", "DFA"}
    FAIL = 99
    MaxPatterns = 3
SPECIFICATION Spec
CHECK_DEADLOCK FALSE
INVARIANTS
    StatesFit
    TrieExact
    FailLongest
    MatchListExact
    MachineExact
PROPERTIES
    CompileEnds
