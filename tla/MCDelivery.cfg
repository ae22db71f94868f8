CONSTANTS
    Documents <- MCDocuments
    NoDocument = NoDocument
    Capacity = 1
    MaxTime = 2
    MaxReports = 1
    MaxOthers = 1
    MaxPackets = 2
    MaxAcks = 1
    MaxDowns = 1
    MaxReboots = 1
    MayFail = TRUE
    Calm = FALSE
SPECIFICATION DeliverySpec
INVARIANTS
    DeliveryTypeOK
    TurnHasHolder
