CONSTANTS
    a = a
    b = b
    w = w
    Topics <- MCOneTopic
    Wildcards <- MCNoWildcards
    Reserved = Reserved
    NoName = NoName
    IdModulus = 2
    Durations <- MCSleepyDurations
    NoDuration = NoDuration
    MaxQueue = 1
    MaxMessages = 1
    MaxSessions = 1

SPECIFICATION Spec

PROPERTY WaitsAsLongAsLogged

CHECK_DEADLOCK FALSE
