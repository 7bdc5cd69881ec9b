CONSTANTS
    MAX_VAL = 255
    Ord <- MCOrd
    NPOS = 999
    Jobs <- MCJobs
    Sample = {97, 98, 65, 10}
    MaxWord = 3
SPECIFICATION ParseSpec
INVARIANTS
    TreeExact
    SetsExact
    ParserAccepts
    CharsetsDistinct
