CONSTANTS
    Nodes = {n1, n2}
    None = None
    MaxConnections = 3
    MaxPackets = 3
    MaxRequests = 1

SPECIFICATION FairSpec

INVARIANT TypeOK
INVARIANT OneThreadPerNode
INVARIANT ReferencedIsAlive
INVARIANT DownMeansDown

PROPERTY StopReturns
PROPERTY AskedIsRemoved

CHECK_DEADLOCK FALSE
