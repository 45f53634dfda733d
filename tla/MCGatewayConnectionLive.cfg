CONSTANTS
    a = a
    b = b
    w = w
    Topics <- MCOneTopic
    Wildcards <- MCNoWildcards
    Reserved = Reserved
    NoName = NoName
    IdModulus = 2
    Durations <- MCDurations
    NoDuration = NoDuration
    MaxQueue = 2
    MaxMessages = 1
    MaxSessions = 1

SPECIFICATION FairSpec

PROPERTY SilentClientDropped
PROPERTY DestructorReturns

CHECK_DEADLOCK FALSE
