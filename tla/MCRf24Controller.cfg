CONSTANTS
    MaxEmpty = 1
    MaxSends = 2
    MaxArrivals = 2
    MaxInvalid = 2
    MaxTasks = 2

SPECIFICATION FairSpec

INVARIANT TypeOK
INVARIANT IdleListens
INVARIANT SuccessMeansSent
INVARIANT DeliveredInOrder

PROPERTY TaskReturns
PROPERTY ReceivedIsRead

CHECK_DEADLOCK FALSE
