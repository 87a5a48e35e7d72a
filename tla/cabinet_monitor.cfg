SPECIFICATION Spec
CONSTANTS
    SlotCount = 2
    Bound = {1}
    SendsRFID = TRUE
    Workers = {"w1", "w2"}
    MaxChanges = 2
    MaxOutages = 1
INVARIANTS
    TypeOK
PROPERTIES
    PresenceStays
    AlertsStay
    OnlineStays
    PresenceSettles
    AlertsSettle
    OnlineSettles
CHECK_DEADLOCK FALSE
