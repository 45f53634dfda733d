\* Three threads, each of them a producer and a consumer from call to call.
CONSTANTS
    Threads = {t1, t2, t3}
    Values = {v1, v2}
    NoThread = NoThread
    MaxLength = 3

SPECIFICATION Spec

SYMMETRY Symmetry

INVARIANT TypeOK
INVARIANT NoLostWakeup
PROPERTY Implements
