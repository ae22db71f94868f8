CONSTANTS
    Documents <- MCDocuments
    NoDocument = NoDocument
    Capacity = 1
    MaxTime = 2
    MaxReports = 2
    MaxOthers = 1
    MaxPackets = 1
    MaxAcks = 1
    MaxDowns = 1
    MaxReboots = 0
    MayFail = TRUE
    Calm = TRUE
SPECIFICATION DeliverySpec
INVARIANTS
    NoReadingLost
