CONSTANTS
    Publishes = {p1, p2, p3}
    MQTTClient_deliveryToken = {t1, t2}
    None = None

SPECIFICATION FairSpec

INVARIANT TrueMeansDelivered
INVARIANT BrokenOnlyIfOvertaken

PROPERTY DeliveredIsAnswered

CHECK_DEADLOCK FALSE
