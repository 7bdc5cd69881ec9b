CONSTANTS
    Ip <- MCIp
    Port <- MCPort
    Proto <- MCProto
    Bucket <- MCBucket
    Hash <- MCHash
    MaxSessions = 2
    Caplen <- MCCaplen
    HeaderWords <- MCWords
SPECIFICATION PathSpec
CHECK_DEADLOCK FALSE
INVARIANTS
    PathTypeOK
    SessionsAreConversations
    ScanInsideCapture
