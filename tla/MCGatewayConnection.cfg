CONSTANTS
    a = a
    b = b
    w = w
    Topics <- MCTwoTopics
    Wildcards <- MCWildcards
    Reserved = Reserved
    NoName = NoName
    IdModulus = 4
    Durations <- MCDurations
    NoDuration = NoDuration
    MaxQueue = 2
    MaxMessages = 2
    MaxSessions = 2

SPECIFICATION Spec

SYMMETRY TopicSymmetry

INVARIANT TypeOK
INVARIANT BrokerLinkMatchesState
INVARIANT ConnackIsTruthful
INVARIANT EndedIsDisposed
INVARIANT IdsAgreeWithClient
INVARIANT PublishIsResolvable
INVARIANT SessionFifo

CHECK_DEADLOCK FALSE
