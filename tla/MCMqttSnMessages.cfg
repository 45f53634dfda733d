CONSTANTS
    Messages <- MCMessages
    ForeignPackets <- MCForeignPackets
    Stale <- MCStale

SPECIFICATION MessageSpec

INVARIANT HandledAsWritten
INVARIANT ParseIsDefined
