CONSTANTS
    Senders = {s1, s2}
    None = None
    MaxSends = 1
    MaxInterrupts = 2

SPECIFICATION FairSpec

INVARIANT CapturedPacketIsAlive
INVARIANT OnlyOneAfterClose

PROPERTY SendReturns
PROPERTY StopEnds

CHECK_DEADLOCK FALSE
