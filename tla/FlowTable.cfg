CONSTANTS
    Ip <- MCIp
    Port <- MCPort
    Proto = {6}
    Bucket <- MCBucket
    Hash <- MCHash
    MaxSessions = 3
SPECIFICATION Spec
INVARIANTS
    TypeOK
    FiledOnce
    OnePerConversation
    BothDirections
    SecondScanIdle
PROPERTIES
    LookupStable
    ImplementsSessionMap
    AnswersEachCall
