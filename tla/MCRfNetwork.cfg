CONSTANTS
    Nodes <- MCNodes
    Routes <- MCRoutes
    None = None
    MaxSends = 1
    MaxStops = 1
    MaxQueue = 1

SPECIFICATION FairSpec

INVARIANT TypeOK
INVARIANT PacketsStayOnPath

PROPERTY SendReturns
PROPERTY AcceptedArrives

CHECK_DEADLOCK FALSE
